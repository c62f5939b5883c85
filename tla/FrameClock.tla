----------------------------- MODULE FrameClock ------------------------------
(***************************************************************************)
(* Where the two clocks of the game come from.  The picture's counters     *)
(* (VGA_controller.sv) divide the 50 MHz clock down to the vertical sync;  *)
(* the start menu (start.sv) waits for a level to be chosen; and           *)
(* finalproject.sv lets the two clocks through once it has been:           *)
(* VGA_VS && startKey0 moves the game, MAX10_CLK1_50 && startKey1 drives   *)
(* the collision logic.  One step is an edge of the 50 MHz clock, or an    *)
(* asynchronous reset.                                                     *)
(***************************************************************************)
EXTENDS Integers

CONSTANTS
  hpixels, vlines,    \* last column and last line (799 and 524 in the source)
  SyncLine            \* the first of the two lines of the sync pulse (490)

ASSUME FrameClockAssumption ==
  /\ hpixels \in Nat /\ vlines \in Nat
  /\ SyncLine \in 2 .. vlines - 1

VARIABLES
  level,              \* of the 50 MHz clock
  clkdiv, hc, vc, vs, \* the picture: half clock, column, line, vertical sync
  start, difficulty,  \* the start menu: has a level been chosen, and which
  startKey,           \* startKey0 and startKey1, which always agree
  pushed,             \* the reset button is held
  gap,                \* history: ticks of the collision logic since the frame edge
  disturbed           \* history: frame edges until frames are whole again

videoVars == <<clkdiv, hc, vc, vs>>
clockVars == <<level, videoVars, start, difficulty, startKey, pushed, gap, disturbed>>

LevelKey == [d \in 1 .. 3 |-> 29 + d]      \* the keys "1", "2" and "3"
NoLevel  == 0

\* Two ticks a pixel, and a line and a column more than the last ones count.
FrameTicks == 2 * (hpixels + 1) * (vlines + 1)
SyncTicks  == 2 * (hpixels + 1) * 2

-----------------------------------------------------------------------------

CountLines_Late ==
  IF hc = hpixels
    THEN hc' = 0 /\ vc' = IF vc > vlines THEN 0 ELSE vc + 1
    ELSE hc' = hc + 1 /\ UNCHANGED vc

CountLines ==
  IF hc = hpixels
    THEN hc' = 0 /\ vc' = IF vc = vlines THEN 0 ELSE vc + 1
    ELSE hc' = hc + 1 /\ UNCHANGED vc

Sync_Never == vs' = FALSE

Sync_OneLine == vs' = (vc + 1 # SyncLine)

Sync == vs' = (vc + 1 \notin {SyncLine, SyncLine + 1})

\* The picture's counters move at every other tick.
Video ==
  /\ clkdiv' = ~clkdiv
  /\ IF clkdiv THEN UNCHANGED <<hc, vc, vs>> ELSE CountLines /\ Sync

VideoReset(div, h, v, sync) == div = FALSE /\ h = 0 /\ v = 0 /\ sync = FALSE

\* A level may be chosen in the start menu, and again when a game is over.
Choose(key, menuLive) ==
  \/ \E d \in 1 .. 3 : /\ key = LevelKey[d]
                       /\ ~start \/ menuLive
                       /\ start' = TRUE
                       /\ difficulty' = d
  \/ (key = NoLevel \/ ~(~start \/ menuLive)) /\ UNCHANGED <<start, difficulty>>

\* The clock that moves the game, and a rising edge of it.
frameClk == vs /\ startKey
Edges    == ~frameClk /\ frameClk'

\* The tick in which the frame clock rises ends the interval that it measures.
Count(tick) ==
  /\ gap' = IF Edges THEN 0 ELSE IF tick /\ gap < FrameTicks THEN gap + 1 ELSE gap
  /\ disturbed' = IF pushed' \/ ~start' THEN 2
                  ELSE IF Edges /\ disturbed > 0 THEN disturbed - 1 ELSE disturbed

-----------------------------------------------------------------------------

ClockInit ==
  /\ level = 0
  /\ VideoReset(clkdiv, hc, vc, vs)
  /\ start = FALSE /\ difficulty = 0 /\ startKey = FALSE
  /\ pushed = FALSE
  /\ gap = 0 /\ disturbed = 2

\* While the button is held, it holds the picture and the menu.
Rise ==
  /\ level = 0
  /\ level' = 1
  /\ IF pushed
       THEN UNCHANGED <<videoVars, start, difficulty>>
       ELSE /\ Video
            /\ \E menuLive \in BOOLEAN, key \in {LevelKey[d] : d \in 1 .. 3} \cup {NoLevel} :
                 Choose(key, menuLive)
  /\ UNCHANGED <<startKey, pushed>>
  /\ Count(startKey)

\* finalproject.sv:112: the gates move while the clock is low, so that no pulse of
\* the collision logic is cut off.
Fall ==
  /\ level = 1
  /\ level' = 0
  /\ startKey' = start
  /\ UNCHANGED <<videoVars, start, difficulty, pushed>>
  /\ Count(FALSE)

PushReset ==
  /\ ~pushed
  /\ pushed' = TRUE
  /\ VideoReset(clkdiv', hc', vc', vs')
  /\ start' = FALSE /\ difficulty' = 0
  /\ UNCHANGED <<level, startKey>>
  /\ Count(FALSE)

ReleaseReset ==
  /\ pushed
  /\ pushed' = FALSE
  /\ UNCHANGED <<level, videoVars, start, difficulty, startKey>>
  /\ Count(FALSE)

\* The collision logic raises replay in one of its ticks, which resets the
\* picture with everything else but the start menu, and so lowers replay again.
ReplayReset ==
  /\ level = 1 /\ startKey /\ ~pushed
  /\ VideoReset(clkdiv', hc', vc', vs')
  /\ gap' = 0 /\ disturbed' = 2
  /\ UNCHANGED <<level, start, difficulty, startKey, pushed>>

ClockNext == Rise \/ Fall \/ PushReset \/ ReleaseReset \/ ReplayReset

ClockSpec == ClockInit /\ [][ClockNext]_clockVars /\ WF_clockVars(Rise) /\ WF_clockVars(Fall)

-----------------------------------------------------------------------------
(* Properties. *)

ClockTypeOK ==
  /\ level \in {0, 1} /\ clkdiv \in BOOLEAN
  /\ hc \in 0 .. hpixels /\ vc \in 0 .. vlines /\ vs \in BOOLEAN
  /\ start \in BOOLEAN /\ difficulty \in 0 .. 3 /\ startKey \in BOOLEAN
  /\ pushed \in BOOLEAN
  /\ gap \in 0 .. FrameTicks /\ disturbed \in 0 .. 2

\* Two frame edges of a running game are exactly one picture apart, 840000 ticks of
\* the collision logic, whatever keys are pressed.  A reset is followed by a frame
\* edge at once, and so is the choice of a level in the middle of a picture; but
\* after every such edge, too, the collision logic has the two lines of a sync pulse
\* to deal with what moved, 3200 ticks on the board.
FramesApart ==
  [][Edges => /\ disturbed = 0 => gap = FrameTicks - 1
              /\ disturbed < 2 => gap >= SyncTicks - 1]_clockVars

\* While a game runs and nobody resets it, frames keep coming.
FramesKeepComing ==
  <>[](start /\ ~pushed) /\ <>[][~ReplayReset]_clockVars => []<>(gap = 0)
=============================================================================
