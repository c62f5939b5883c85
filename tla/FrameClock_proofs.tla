-------------------------- MODULE FrameClock_proofs ---------------------------
(***************************************************************************)
(* Proofs about the two clocks of the game, for pictures of every size and *)
(* wherever in them the sync pulse is.                                     *)
(***************************************************************************)
EXTENDS FrameClock, TLAPS

-----------------------------------------------------------------------------
(* Where in the picture the counters are. *)

Columns == hpixels + 1
Lines   == vlines + 1

\* The columns of a number of lines.
Row(a) == a * Columns

\* The sync register follows the counters with a move's delay: it is low from the
\* second column of the first line of the pulse to the first one after the pulse.
InPulse ==
  \/ hc > 0 /\ vc \in {SyncLine - 1, SyncLine}
  \/ hc = 0 /\ vc \in {SyncLine, SyncLine + 1}

\* The place from which the next move raises it.
AtRise == hc = 0 /\ vc = SyncLine + 1

\* Moves since the sync register rose, and moves since it fell.
PastRise == vc > SyncLine + 1 \/ (vc = SyncLine + 1 /\ hc >= 1)
SinceRise == Row(vc - SyncLine - 1) + hc - 1 + (IF PastRise THEN 0 ELSE Row(Lines))
SinceFall ==
  IF vc = SyncLine - 1 THEN hc - 1
  ELSE IF vc = SyncLine THEN Columns + hc - 1 ELSE 2 * Columns + hc - 1

\* Half of the ticks do not move the counters.
HalfTick == IF clkdiv THEN 0 ELSE 1

\* The sync register is high outside the pulse, but for a picture just reset.
SyncInv == (vs <=> ~InPulse) \/ (hc = 0 /\ vc = 0 /\ ~clkdiv /\ ~vs)

\* Once there was a frame edge in a running game, the game goes on running until the
\* next disturbance, and the history variable counts the ticks since the edge.
RunningInv ==
  /\ disturbed < 2 => start /\ ~pushed /\ startKey /\ (vs <=> ~InPulse)
  /\ disturbed = 0 => gap = 2 * SinceRise + HalfTick
  /\ disturbed < 2 /\ ~vs => gap >= 2 * SinceFall + HalfTick

ClockInv == ClockTypeOK /\ SyncInv /\ RunningInv

-----------------------------------------------------------------------------
(* The arithmetic of lines and columns.                                    *)

\* Lines add up; this and the next lemma are all that is used of the product.
LEMMA RowsAdd ==
  ASSUME NEW a \in Int, NEW b \in Int
  PROVE  /\ Row(a) \in Int
         /\ Row(a + b) = Row(a) + Row(b)
<1>1. Columns \in Int
  BY FrameClockAssumption DEF Columns
<1>2. (a + b) * Columns = a * Columns + b * Columns
  BY <1>1
<1>3. QED
  BY <1>1, <1>2 DEF Row

\* More lines, more columns.
LEMMA RowsGrow ==
  ASSUME NEW a \in Int, NEW b \in Int, a <= b
  PROVE  Row(a) <= Row(b)
<1>1. Columns \in Nat /\ b - a \in Nat
  BY FrameClockAssumption DEF Columns
<1>2. \A n, c \in Nat : n * c >= 0
  OBVIOUS
<1>3. Row(b - a) >= 0
  BY <1>1, <1>2 DEF Row
<1>4. Row(b) = Row(a) + Row(b - a)
  BY <1>1, RowsAdd, a + (b - a) = b
<1>5. Row(a) \in Int /\ Row(b - a) \in Int
  BY <1>1, RowsAdd
<1>6. QED
  BY <1>3, <1>4, <1>5

LEMMA SmallRows ==
  Row(0) = 0 /\ Row(1) = Columns /\ Row(-1) = 0 - Columns /\ Columns \in Nat /\ Columns >= 1
<1>1. Columns \in Nat /\ Columns >= 1
  BY FrameClockAssumption DEF Columns
<1>2. QED
  BY <1>1 DEF Row

\* A picture has four lines at least, two of them the pulse.
LEMMA PictureHoldsPulse ==
  /\ FrameTicks = 2 * Row(Lines) /\ FrameTicks \in Nat
  /\ SyncTicks = 4 * Columns
  /\ Row(Lines) \in Int /\ Row(Lines) >= 4 * Columns
<1>1. Lines \in Int /\ 4 <= Lines
  BY FrameClockAssumption DEF Lines
<1>2. Row(4) <= Row(Lines) /\ Row(Lines) \in Int
  BY <1>1, RowsGrow, RowsAdd
<1>3. Row(4) = 4 * Columns
  BY SmallRows DEF Row
<1>4. FrameTicks = 2 * Row(Lines)
  BY <1>1, SmallRows DEF FrameTicks, Row, Lines, Columns
<1>5. SyncTicks = 4 * Columns
  BY SmallRows DEF SyncTicks, Columns
<1>6. QED
  BY <1>2, <1>3, <1>4, <1>5, SmallRows

-----------------------------------------------------------------------------
(* One move of the counters.                                               *)

CountersOK == hc \in 0 .. hpixels /\ vc \in 0 .. vlines

LEMMA MovePlace ==
  ASSUME CountersOK, CountLines
  PROVE  CountersOK'
  BY FrameClockAssumption DEF CountersOK, CountLines

\* The rise is at least one move and at most one picture in the past.
LEMMA RiseRange ==
  ASSUME CountersOK
  PROVE  SinceRise \in Int /\ 0 <= SinceRise /\ SinceRise <= Row(Lines) - 1
<1> DEFINE a == vc - SyncLine - 1
<1>1. /\ vc \in Int /\ hc \in Int /\ 0 <= hc /\ hc <= hpixels /\ 0 <= vc /\ vc <= vlines
      /\ SyncLine \in Int /\ vlines \in Int /\ hpixels \in Int
      /\ 2 <= SyncLine /\ SyncLine + 1 <= vlines
      /\ a \in Int /\ Lines \in Int /\ Lines = vlines + 1 /\ Columns = hpixels + 1
  BY FrameClockAssumption DEF CountersOK, Lines, Columns
<1>2. Row(a) \in Int /\ Row(Lines) \in Int
  BY <1>1, RowsAdd
<1>3. CASE PastRise
  <2>1. SinceRise = Row(a) + hc - 1
    BY <1>1, <1>2, <1>3 DEF SinceRise
  <2>2. CASE a = 0
    BY <1>1, <1>2, <1>3, <2>1, <2>2, SmallRows, PictureHoldsPulse DEF PastRise
  <2>3. CASE a # 0
    <3>1. 1 <= a /\ a <= Lines - 2 /\ Lines - 2 \in Int
      BY <1>1, <1>3, <2>3 DEF PastRise
    <3>2. Columns <= Row(a) /\ Row(a) <= Row(Lines - 2)
      BY <3>1, RowsGrow, SmallRows, <1>1
    <3>3. Row(Lines - 2) + Row(2) = Row(Lines) /\ Row(2) = Columns + Columns /\ Row(Lines - 2) \in Int
      <4>1. Lines - 2 + 2 = Lines
        BY <1>1
      <4>2. Row(1 + 1) = Row(1) + Row(1) /\ Row(Lines - 2 + 2) = Row(Lines - 2) + Row(2)
        BY <3>1, RowsAdd
      <4>3. QED
        BY <4>1, <4>2, SmallRows, RowsAdd, <3>1
    <3>4. QED
      BY <3>2, <3>3, <2>1, <1>1, <1>2, SmallRows
  <2>4. QED
    BY <2>2, <2>3
<1>4. CASE ~PastRise
  <2>1. SinceRise = Row(a) + hc - 1 + Row(Lines)
    BY <1>1, <1>2, <1>4 DEF SinceRise
  <2>2. CASE a = 0
    <3>1. hc = 0
      BY <1>1, <1>4, <2>2 DEF PastRise
    <3>2. QED
      BY <1>1, <1>2, <2>1, <2>2, <3>1, SmallRows, PictureHoldsPulse
  <2>3. CASE a # 0
    <3>1. a <= -1 /\ 1 <= a + Lines /\ a + Lines \in Int
      BY <1>1, <1>4, <2>3 DEF PastRise
    <3>2. Row(a) <= 0 - Columns /\ Columns <= Row(a + Lines)
      BY <3>1, RowsGrow, SmallRows, <1>1
    <3>3. Row(a + Lines) = Row(a) + Row(Lines)
      BY <1>1, RowsAdd
    <3>4. QED
      BY <3>2, <3>3, <2>1, <1>1, <1>2, SmallRows
  <2>4. QED
    BY <2>2, <2>3
<1>5. QED
  BY <1>3, <1>4

\* The same of the next state.
LEMMA PrimedRiseRange ==
  ASSUME CountersOK'
  PROVE  SinceRise' \in Int
<1> DEFINE a == vc' - SyncLine - 1
<1>1. a \in Int /\ hc' \in Int /\ Lines \in Int
  BY FrameClockAssumption DEF CountersOK, Lines
<1>2. Row(a) \in Int /\ Row(Lines) \in Int
  BY <1>1, RowsAdd
<1>3. QED
  BY <1>1, <1>2 DEF SinceRise

\* The rise is a whole picture in the past, all but one move, when the next is due.
LEMMA RiseDue ==
  ASSUME CountersOK, AtRise
  PROVE  SinceRise = Row(Lines) - 1
<1>1. vc - SyncLine - 1 = 0 /\ hc = 0 /\ ~PastRise /\ Row(Lines) \in Int
  BY FrameClockAssumption, PictureHoldsPulse DEF CountersOK, AtRise, PastRise
<1>2. QED
  BY <1>1, SmallRows DEF SinceRise

\* From the rise the moves are counted from nothing.
LEMMA MoveAtRise ==
  ASSUME CountersOK, AtRise, CountLines
  PROVE  SinceRise' = 0
<1>1. /\ hc = 0 /\ vc = SyncLine + 1 /\ SyncLine \in Int /\ vlines \in Int /\ hpixels \in Nat
      /\ SyncLine >= 2 /\ Lines = vlines + 1 /\ Columns = hpixels + 1
  BY FrameClockAssumption DEF AtRise, Lines, Columns
<1>2. CASE hpixels # 0
  <2>1. hc' = 1 /\ vc' = vc /\ vc' - SyncLine - 1 = 0
    BY <1>1, <1>2 DEF CountLines
  <2>2. PastRise'
    BY <2>1, <1>1 DEF PastRise
  <2>3. QED
    BY <2>1, <2>2, SmallRows DEF SinceRise
<1>3. CASE hpixels = 0 /\ vc # vlines
  <2>1. hc' = 0 /\ vc' = SyncLine + 2 /\ vc' - SyncLine - 1 = 1
    BY <1>1, <1>3 DEF CountLines
  <2>2. PastRise'
    BY <2>1, <1>1 DEF PastRise
  <2>3. QED
    BY <2>1, <2>2, <1>1, <1>3, SmallRows DEF SinceRise
<1>4. CASE hpixels = 0 /\ vc = vlines
  <2>1. hc' = 0 /\ vc' = 0
    BY <1>1, <1>4 DEF CountLines
  <2>2. ~PastRise'
    BY <2>1, <1>1 DEF PastRise
  <2>3. 0 - SyncLine - 1 \in Int /\ Lines \in Int /\ 0 - SyncLine - 1 + Lines = 1
    BY <1>1, <1>4
  <2>4. Row(0 - SyncLine - 1) + Row(Lines) = 1 /\ Row(0 - SyncLine - 1) \in Int /\ Row(Lines) \in Int
    <3>1. Row(0 - SyncLine - 1 + Lines) = Row(0 - SyncLine - 1) + Row(Lines)
      BY <2>3, RowsAdd
    <3>2. Row(0 - SyncLine - 1) \in Int /\ Row(Lines) \in Int
      BY <2>3, RowsAdd
    <3>3. Columns = 1
      BY <1>1, <1>4
    <3>4. QED
      BY <3>1, <3>2, <3>3, <2>3, SmallRows
  <2>5. SinceRise' = Row(0 - SyncLine - 1) + 0 - 1 + Row(Lines)
    BY <2>1, <2>2 DEF SinceRise
  <2>6. QED
    BY <2>4, <2>5
<1>5. QED
  BY <1>2, <1>3, <1>4

\* Every other move adds one.
LEMMA MoveElsewhere ==
  ASSUME CountersOK, ~AtRise, CountLines
  PROVE  SinceRise' = SinceRise + 1
<1> DEFINE a == vc - SyncLine - 1
<1>1. /\ hc \in 0 .. hpixels /\ vc \in 0 .. vlines /\ SyncLine \in Int /\ vlines \in Int
      /\ hpixels \in Nat /\ SyncLine >= 2 /\ SyncLine + 1 <= vlines
      /\ Lines = vlines + 1 /\ Columns = hpixels + 1 /\ a \in Int /\ Lines \in Int
  BY FrameClockAssumption DEF CountersOK, Lines, Columns
<1>2. Row(a) \in Int /\ Row(Lines) \in Int /\ Row(a + 1) = Row(a) + Columns
  <2>1. Row(a) \in Int /\ Row(Lines) \in Int
    BY <1>1, RowsAdd
  <2>2. Row(a + 1) = Row(a) + Row(1)
    BY <1>1, RowsAdd
  <2>3. QED
    BY <2>1, <2>2, SmallRows
<1>3. CASE hc # hpixels
  <2>1. hc' = hc + 1 /\ vc' = vc
    BY <1>3 DEF CountLines
  <2>2. PastRise' <=> PastRise
    BY <1>1, <2>1 DEF PastRise, AtRise
  <2>3. SinceRise' = Row(a) + (hc + 1) - 1 + (IF PastRise THEN 0 ELSE Row(Lines))
    BY <2>1, <2>2 DEF SinceRise
  <2>4. SinceRise = Row(a) + hc - 1 + (IF PastRise THEN 0 ELSE Row(Lines))
    BY DEF SinceRise
  <2>5. QED
    BY <2>3, <2>4, <1>1, <1>2
<1>4. CASE hc = hpixels /\ vc # vlines
  <2>1. hc' = 0 /\ vc' = vc + 1 /\ vc' - SyncLine - 1 = a + 1
    BY <1>1, <1>4 DEF CountLines
  <2>2. PastRise' <=> PastRise
    BY <1>1, <1>4, <2>1 DEF PastRise, AtRise
  <2>3. SinceRise' = Row(a + 1) + 0 - 1 + (IF PastRise THEN 0 ELSE Row(Lines))
    BY <2>1, <2>2 DEF SinceRise
  <2>4. SinceRise = Row(a) + hc - 1 + (IF PastRise THEN 0 ELSE Row(Lines))
    BY DEF SinceRise
  <2>5. QED
    BY <2>3, <2>4, <1>1, <1>2, <1>4
<1>5. CASE hc = hpixels /\ vc = vlines
  <2>1. hc' = 0 /\ vc' = 0
    BY <1>5 DEF CountLines
  <2>2. PastRise /\ ~PastRise'
    BY <1>1, <1>5, <2>1 DEF PastRise, AtRise
  <2>3. SinceRise' = Row(0 - SyncLine - 1) + 0 - 1 + Row(Lines)
    BY <2>1, <2>2 DEF SinceRise
  <2>4. SinceRise = Row(a) + hpixels - 1 + 0
    BY <2>2, <1>5 DEF SinceRise
  <2>5. Row(0 - SyncLine - 1) + Row(Lines) = Row(a + 1) /\ Row(0 - SyncLine - 1) \in Int
    <3>1. 0 - SyncLine - 1 \in Int /\ 0 - SyncLine - 1 + Lines = a + 1
      BY <1>1, <1>5
    <3>2. QED
      BY <3>1, <1>1, RowsAdd
  <2>6. QED
    BY <2>3, <2>4, <2>5, <1>1, <1>2
<1>6. QED
  BY <1>3, <1>4, <1>5

\* What a move makes of the sync register.
LEMMA MoveSync ==
  ASSUME CountersOK, CountLines, Sync
  PROVE  /\ vs' \in BOOLEAN
         /\ vs' <=> ~InPulse'
<1>1. vs' \in BOOLEAN
  BY DEF Sync
<1>2. vs' <=> vc + 1 # SyncLine /\ vc + 1 # SyncLine + 1
  BY DEF Sync
<1>3. InPulse' <=> vc + 1 = SyncLine \/ vc + 1 = SyncLine + 1
  BY FrameClockAssumption DEF CountersOK, CountLines, InPulse
<1>4. QED
  BY <1>1, <1>2, <1>3

\* A pulse ends at the rise only.
LEMMA PulseEnds ==
  ASSUME CountersOK, CountLines, InPulse
  PROVE  ~InPulse' <=> AtRise
  BY FrameClockAssumption DEF CountersOK, CountLines, InPulse, AtRise

\* How long a pulse is low.
LEMMA FallRange ==
  ASSUME CountersOK, InPulse
  PROVE  SinceFall \in Int /\ 0 <= SinceFall /\ SinceFall <= 2 * Columns - 1
  BY FrameClockAssumption DEF CountersOK, InPulse, SinceFall, Columns

LEMMA FallDue ==
  ASSUME CountersOK, AtRise
  PROVE  InPulse /\ SinceFall = 2 * Columns - 1
  BY FrameClockAssumption DEF CountersOK, AtRise, InPulse, SinceFall, Columns

LEMMA MoveInPulse ==
  ASSUME CountersOK, CountLines, InPulse'
  PROVE  SinceFall' = IF InPulse THEN SinceFall + 1 ELSE 0
  BY FrameClockAssumption DEF CountersOK, CountLines, InPulse, SinceFall, Columns

-----------------------------------------------------------------------------
(* The invariant.                                                          *)

LEMMA ClockStarts ==
  ASSUME ClockInit
  PROVE  ClockInv
<1>1. ClockTypeOK
  <2>1. /\ level \in {0, 1} /\ clkdiv \in BOOLEAN /\ vs \in BOOLEAN
        /\ start \in BOOLEAN /\ startKey \in BOOLEAN /\ pushed \in BOOLEAN
    BY Zenon DEF ClockInit, VideoReset
  <2>2. hc \in 0 .. hpixels /\ vc \in 0 .. vlines
    BY FrameClockAssumption DEF ClockInit, VideoReset
  <2>3. difficulty \in 0 .. 3 /\ gap \in 0 .. FrameTicks /\ disturbed \in 0 .. 2
    BY PictureHoldsPulse DEF ClockInit
  <2>4. QED
    BY <2>1, <2>2, <2>3 DEF ClockTypeOK
<1>2. SyncInv
  BY Zenon DEF ClockInit, SyncInv, VideoReset
<1>3. RunningInv
  BY DEF ClockInit, RunningInv
<1>4. QED
  BY <1>1, <1>2, <1>3 DEF ClockInv

\* The history variables keep their types, whatever a step does.
LEMMA CountTypes ==
  ASSUME ClockTypeOK, NEW tick \in BOOLEAN, Count(tick)
  PROVE  /\ gap' \in 0 .. FrameTicks
         /\ disturbed' \in 0 .. 2
<1>1. FrameTicks \in Nat /\ gap \in 0 .. FrameTicks /\ disturbed \in 0 .. 2
  BY PictureHoldsPulse DEF ClockTypeOK
<1>2. QED
  BY <1>1 DEF Count

\* Once a level has been chosen only a reset undoes that.
LEMMA ChooseKeeps ==
  ASSUME start \in BOOLEAN, difficulty \in 0 .. 3,
         NEW menuLive \in BOOLEAN, NEW key, Choose(key, menuLive)
  PROVE  /\ start' \in BOOLEAN /\ difficulty' \in 0 .. 3
         /\ start => start'
<1>1. CASE UNCHANGED <<start, difficulty>>
  BY <1>1
<1>2. CASE \E d \in 1 .. 3 : start' = TRUE /\ difficulty' = d
  BY <1>2
<1>3. QED
  BY <1>1, <1>2 DEF Choose

\* A rising edge while the button is held: nothing moves.
LEMMA RiseHeld ==
  ASSUME ClockInv, Rise, pushed
  PROVE  ClockInv'
<1>1. /\ level' = 1 /\ UNCHANGED <<clkdiv, hc, vc, vs, start, difficulty, startKey, pushed>>
      /\ Count(startKey) /\ startKey \in BOOLEAN
  BY DEF ClockInv, ClockTypeOK, Rise, videoVars
<1>2. ClockTypeOK'
  <2>1. gap' \in 0 .. FrameTicks /\ disturbed' \in 0 .. 2
    BY <1>1, CountTypes DEF ClockInv
  <2>2. QED
    BY <1>1, <2>1 DEF ClockInv, ClockTypeOK
<1>3. SyncInv'
  BY <1>1, Zenon DEF ClockInv, SyncInv, InPulse
<1>4. RunningInv'
  BY <1>1 DEF Count, RunningInv
<1>5. QED
  BY <1>2, <1>3, <1>4 DEF ClockInv

\* A rising edge that moves no counter.
LEMMA RiseHalf ==
  ASSUME ClockInv, Rise, ~pushed, clkdiv
  PROVE  ClockInv'
<1>1. /\ level' = 1 /\ clkdiv' = FALSE /\ UNCHANGED <<hc, vc, vs, startKey, pushed>>
      /\ Count(startKey) /\ startKey \in BOOLEAN
  BY DEF ClockInv, ClockTypeOK, Rise, Video
<1>2. start' \in BOOLEAN /\ difficulty' \in 0 .. 3 /\ (start => start')
  <2>1. PICK menuLive \in BOOLEAN, key \in {LevelKey[d] : d \in 1 .. 3} \cup {NoLevel} :
          Choose(key, menuLive)
    BY DEF Rise
  <2>2. start \in BOOLEAN /\ difficulty \in 0 .. 3
    BY DEF ClockInv, ClockTypeOK
  <2>3. QED
    BY <2>1, <2>2, ChooseKeeps
<1>3. ClockTypeOK'
  <2>1. gap' \in 0 .. FrameTicks /\ disturbed' \in 0 .. 2
    BY <1>1, CountTypes DEF ClockInv
  <2>2. QED
    BY <1>1, <1>2, <2>1 DEF ClockInv, ClockTypeOK
<1>4. (InPulse' <=> InPulse) /\ SinceRise' = SinceRise /\ SinceFall' = SinceFall
  BY <1>1 DEF InPulse, SinceRise, PastRise, SinceFall
<1>5. SyncInv'
  BY <1>1, <1>4, Zenon DEF ClockInv, SyncInv
<1>6. ~Edges
  BY <1>1 DEF Edges, frameClk
<1>7. ASSUME disturbed' < 2
      PROVE  disturbed' = disturbed /\ startKey /\ start' /\ ~pushed'
  BY <1>1, <1>6, <1>7 DEF Count, ClockInv, RunningInv
<1>8. (disturbed < 2 => gap' = IF gap < FrameTicks THEN gap + 1 ELSE gap) /\ gap \in 0 .. FrameTicks
  BY <1>1, <1>6 DEF Count, ClockInv, RunningInv, ClockTypeOK
<1>9. HalfTick = 0 /\ HalfTick' = 1
  BY <1>1 DEF HalfTick
<1>10. CountersOK
  BY DEF ClockInv, ClockTypeOK, CountersOK
<1>11. disturbed' < 2 => start' /\ ~pushed' /\ startKey' /\ (vs' <=> ~InPulse')
  BY <1>1, <1>4, <1>7 DEF ClockInv, RunningInv
<1>12. disturbed' = 0 => gap' = 2 * SinceRise' + HalfTick'
  <2> SUFFICES ASSUME disturbed' = 0
               PROVE  gap' = 2 * SinceRise' + HalfTick'
    OBVIOUS
  <2>1. disturbed = 0 /\ gap = 2 * SinceRise
    BY <1>7, <1>9, RiseRange, <1>10 DEF ClockInv, RunningInv
  <2>2. SinceRise \in Int /\ SinceRise <= Row(Lines) - 1 /\ Row(Lines) \in Int
        /\ FrameTicks = 2 * Row(Lines)
    BY <1>10, RiseRange, PictureHoldsPulse
  <2>3. gap' = gap + 1
    BY <2>1, <2>2, <1>8
  <2>4. QED
    BY <2>1, <2>2, <2>3, <1>4, <1>9
<1>13. disturbed' < 2 /\ ~vs' => gap' >= 2 * SinceFall' + HalfTick'
  <2> SUFFICES ASSUME disturbed' < 2, ~vs'
               PROVE  gap' >= 2 * SinceFall' + HalfTick'
    OBVIOUS
  <2>1. disturbed < 2 /\ ~vs /\ InPulse
    BY <1>1, <1>7 DEF ClockInv, RunningInv
  <2>2. SinceFall \in Int /\ SinceFall <= 2 * Columns - 1
    BY <1>10, <2>1, FallRange
  <2>3. gap >= 2 * SinceFall
    BY <2>1, <2>2, <1>9 DEF ClockInv, RunningInv
  <2>4. QED
    BY <2>1, <2>2, <2>3, <1>4, <1>8, <1>9, PictureHoldsPulse, SmallRows
<1>14. QED
  BY <1>3, <1>5, <1>11, <1>12, <1>13 DEF ClockInv, RunningInv

\* A rising edge that moves the counters, and at one place of the picture starts a
\* new frame.
LEMMA RiseMoves ==
  ASSUME ClockInv, Rise, ~pushed, ~clkdiv
  PROVE  ClockInv'
<1>1. /\ level' = 1 /\ clkdiv' = TRUE /\ UNCHANGED <<startKey, pushed>>
      /\ CountLines /\ Sync
      /\ Count(startKey) /\ startKey \in BOOLEAN /\ vs \in BOOLEAN
  BY DEF ClockInv, ClockTypeOK, Rise, Video
<1>2. start' \in BOOLEAN /\ difficulty' \in 0 .. 3 /\ (start => start')
  <2>1. PICK menuLive \in BOOLEAN, key \in {LevelKey[d] : d \in 1 .. 3} \cup {NoLevel} :
          Choose(key, menuLive)
    BY DEF Rise
  <2>2. start \in BOOLEAN /\ difficulty \in 0 .. 3
    BY DEF ClockInv, ClockTypeOK
  <2>3. QED
    BY <2>1, <2>2, ChooseKeeps
<1>3. CountersOK
  BY DEF ClockInv, ClockTypeOK, CountersOK
<1>4. CountersOK' /\ vs' \in BOOLEAN /\ (vs' <=> ~InPulse')
  BY <1>1, <1>3, MovePlace, MoveSync
<1>5. ClockTypeOK'
  <2>1. gap' \in 0 .. FrameTicks /\ disturbed' \in 0 .. 2
    BY <1>1, CountTypes DEF ClockInv
  <2>2. QED
    BY <1>1, <1>2, <1>4, <2>1 DEF ClockInv, ClockTypeOK, CountersOK
<1>6. SyncInv'
  BY <1>4 DEF SyncInv
<1>7. HalfTick = 1 /\ HalfTick' = 0
  BY <1>1 DEF HalfTick
<1>8. FrameTicks = 2 * Row(Lines) /\ Row(Lines) \in Int /\ gap \in 0 .. FrameTicks
      /\ disturbed \in 0 .. 2 /\ Row(Lines) >= 4 * Columns /\ Columns \in Nat
  BY PictureHoldsPulse, SmallRows DEF ClockInv, ClockTypeOK
<1>9. CASE Edges
  <2>1. gap' = 0 /\ startKey /\ vs' /\ ~vs
    BY <1>1, <1>9 DEF Count, Edges, frameClk
  <2>2. disturbed' < 2 => start' /\ ~pushed'
    BY <1>1, <1>2 DEF Count
  <2>3. disturbed' = 0 => gap' = 2 * SinceRise' + HalfTick'
    <3> SUFFICES ASSUME disturbed' = 0
                 PROVE  SinceRise' = 0
      BY <2>1, <1>7
    <3>1. disturbed < 2
      BY <1>1, <1>8, <1>9 DEF Count
    <3>2. InPulse /\ ~InPulse'
      BY <2>1, <3>1, <1>4 DEF ClockInv, RunningInv
    <3>3. AtRise
      BY <1>1, <1>3, <3>2, PulseEnds
    <3>4. QED
      BY <1>1, <1>3, <3>3, MoveAtRise
  <2>4. QED
    BY <2>1, <2>2, <2>3, <1>1, <1>4, <1>5, <1>6 DEF ClockInv, RunningInv
<1>10. CASE ~Edges
  <2>1. ASSUME disturbed' < 2
        PROVE  disturbed' = disturbed /\ startKey /\ start' /\ ~pushed'
    BY <1>1, <1>10, <2>1 DEF Count, ClockInv, RunningInv
  <2>2. disturbed < 2 => gap' = IF gap < FrameTicks THEN gap + 1 ELSE gap
    BY <1>1, <1>10 DEF Count, ClockInv, RunningInv
  <2>3. disturbed' < 2 => start' /\ ~pushed' /\ startKey' /\ (vs' <=> ~InPulse')
    BY <1>1, <1>4, <2>1
  <2>4. disturbed' = 0 => gap' = 2 * SinceRise' + HalfTick'
    <3> SUFFICES ASSUME disturbed' = 0
                 PROVE  gap' = 2 * SinceRise'
      <4>1. SinceRise' \in Int
        BY <1>4, PrimedRiseRange
      <4>2. QED
        BY <4>1, <1>7
    <3>1. disturbed = 0 /\ gap = 2 * SinceRise + 1
      BY <2>1, <1>7 DEF ClockInv, RunningInv
    <3>2. startKey /\ (vs <=> ~InPulse)
      BY <3>1 DEF ClockInv, RunningInv
    <3>3. ~AtRise
      <4>1. SUFFICES ASSUME AtRise PROVE FALSE
        OBVIOUS
      <4>2. InPulse /\ ~InPulse'
        BY <4>1, <1>1, <1>3, FallDue, PulseEnds
      <4>3. ~vs /\ vs'
        BY <4>2, <3>2, <1>4
      <4>4. QED
        BY <4>3, <3>2, <1>1, <1>10 DEF Edges, frameClk
    <3>4. SinceRise' = SinceRise + 1
      BY <1>1, <1>3, <3>3, MoveElsewhere
    <3>5. SinceRise \in Int /\ SinceRise <= Row(Lines) - 1
      BY <1>3, RiseRange
    <3>6. QED
      BY <3>1, <3>4, <3>5, <2>2, <1>8
  <2>5. disturbed' < 2 /\ ~vs' => gap' >= 2 * SinceFall' + HalfTick'
    <3> SUFFICES ASSUME disturbed' < 2, ~vs'
                 PROVE  gap' >= 2 * SinceFall' + HalfTick'
      OBVIOUS
    <3>1. disturbed < 2 /\ (vs <=> ~InPulse) /\ InPulse'
      BY <2>1, <1>4 DEF ClockInv, RunningInv
    <3>2. SinceFall' = IF InPulse THEN SinceFall + 1 ELSE 0
      BY <1>1, <1>3, <3>1, MoveInPulse
    <3>3. gap' = (IF gap < FrameTicks THEN gap + 1 ELSE gap)
      BY <2>2, <3>1
    <3>4. CASE ~InPulse
      BY <3>2, <3>3, <3>4, <1>7, <1>8
    <3>5. CASE InPulse
      <4>1. SinceFall \in Int /\ SinceFall <= 2 * Columns - 1
        BY <1>3, <3>5, FallRange
      <4>2. gap >= 2 * SinceFall + 1
        BY <3>1, <3>5, <1>7 DEF ClockInv, RunningInv
      <4>3. QED
        BY <4>1, <4>2, <3>2, <3>3, <3>5, <1>7, <1>8
    <3>6. QED
      BY <3>4, <3>5
  <2>6. QED
    BY <2>3, <2>4, <2>5, <1>5, <1>6 DEF ClockInv, RunningInv
<1>11. QED
  BY <1>9, <1>10

\* A falling edge: the gates follow the menu, and may start a frame in mid-picture.
LEMMA FallKeeps ==
  ASSUME ClockInv, Fall
  PROVE  ClockInv'
<1>1. /\ level' = 0 /\ startKey' = start
      /\ UNCHANGED <<clkdiv, hc, vc, vs, start, difficulty, pushed>>
      /\ Count(FALSE)
  BY DEF Fall, videoVars
<1>2. ClockTypeOK'
  <2>1. gap' \in 0 .. FrameTicks /\ disturbed' \in 0 .. 2
    BY <1>1, CountTypes DEF ClockInv
  <2>2. QED
    BY <1>1, <2>1 DEF ClockInv, ClockTypeOK
<1>3. (InPulse' <=> InPulse) /\ SinceRise' = SinceRise /\ SinceFall' = SinceFall
      /\ HalfTick' = HalfTick
  BY <1>1 DEF InPulse, SinceRise, PastRise, SinceFall, HalfTick
<1>4. SyncInv'
  BY <1>1, <1>3, Zenon DEF ClockInv, SyncInv
<1>5. CASE Edges
  <2>1. vs /\ ~startKey
    BY <1>1, <1>5 DEF Edges, frameClk
  <2>2. disturbed = 2
    BY <2>1 DEF ClockInv, ClockTypeOK, RunningInv
  <2>3. disturbed' >= 1 /\ (disturbed' < 2 => start' /\ ~pushed')
    BY <1>1, <2>2 DEF Count
  <2>4. vs' /\ (vs' <=> ~InPulse') /\ (start' => startKey')
    BY <1>1, <1>3, <2>1 DEF ClockInv, SyncInv
  <2>5. QED
    BY <1>2, <1>4, <2>3, <2>4 DEF ClockInv, RunningInv
<1>6. CASE ~Edges
  <2>1. gap' = gap /\ (disturbed' < 2 => disturbed' = disturbed /\ start' /\ ~pushed')
    BY <1>1, <1>6 DEF Count
  <2>2. QED
    BY <1>1, <1>2, <1>3, <1>4, <2>1 DEF ClockInv, RunningInv
<1>7. QED
  BY <1>5, <1>6

\* A picture just reset is within bounds.
LEMMA ResetPlace ==
  /\ 0 \in 0 .. hpixels /\ 0 \in 0 .. vlines /\ 0 \in 0 .. 3 /\ 0 \in 0 .. FrameTicks
  /\ 2 \in 0 .. 2 /\ TRUE \in BOOLEAN /\ FALSE \in BOOLEAN
  BY FrameClockAssumption, PictureHoldsPulse

\* The button, pushed or let go.
LEMMA ButtonKeeps ==
  ASSUME ClockInv, PushReset \/ ReleaseReset
  PROVE  ClockInv'
<1>1. CASE PushReset
  <2>1. /\ clkdiv' = FALSE /\ hc' = 0 /\ vc' = 0 /\ vs' = FALSE
        /\ start' = FALSE /\ difficulty' = 0 /\ pushed' = TRUE
        /\ UNCHANGED <<level, startKey>> /\ Count(FALSE)
    BY <1>1 DEF PushReset, VideoReset
  <2>2. gap' \in 0 .. FrameTicks /\ disturbed' \in 0 .. 2
    BY <2>1, CountTypes DEF ClockInv
  <2>3. ClockTypeOK'
    BY <2>1, <2>2, ResetPlace, Zenon DEF ClockInv, ClockTypeOK
  <2>4. disturbed' = 2
    BY <2>1 DEF Count
  <2>5. QED
    BY <2>1, <2>3, <2>4 DEF ClockInv, SyncInv, RunningInv
<1>2. CASE ReleaseReset
  <2>1. /\ UNCHANGED <<level, clkdiv, hc, vc, vs, start, difficulty, startKey>>
        /\ pushed /\ pushed' = FALSE /\ Count(FALSE)
    BY <1>2 DEF ReleaseReset, videoVars
  <2>2. gap' \in 0 .. FrameTicks /\ disturbed' \in 0 .. 2
    BY <2>1, CountTypes DEF ClockInv
  <2>3. ClockTypeOK'
    BY <2>1, <2>2 DEF ClockInv, ClockTypeOK
  <2>4. SyncInv'
    BY <2>1, Zenon DEF ClockInv, SyncInv, InPulse
  <2>5. disturbed = 2
    BY <2>1 DEF ClockInv, ClockTypeOK, RunningInv
  <2>6. ~Edges
    BY <2>1 DEF Edges, frameClk
  <2>7. disturbed' = 2
    BY <2>1, <2>5, <2>6 DEF Count
  <2>8. QED
    BY <2>3, <2>4, <2>7 DEF ClockInv, RunningInv
<1>3. QED
  BY <1>1, <1>2

\* The collision logic's reset.
LEMMA ReplayKeeps ==
  ASSUME ClockInv, ReplayReset
  PROVE  ClockInv'
<1>1. /\ clkdiv' = FALSE /\ hc' = 0 /\ vc' = 0 /\ vs' = FALSE
      /\ gap' = 0 /\ disturbed' = 2
      /\ UNCHANGED <<level, start, difficulty, startKey, pushed>>
  BY DEF ReplayReset, VideoReset
<1>2. ClockTypeOK'
  BY <1>1, ResetPlace, Zenon DEF ClockInv, ClockTypeOK
<1>3. QED
  BY <1>1, <1>2 DEF ClockInv, SyncInv, RunningInv

\* Every step keeps the invariant.
LEMMA ClockSteps ==
  ASSUME ClockInv, [ClockNext]_clockVars
  PROVE  ClockInv'
<1>1. CASE Rise
  <2>1. pushed \in BOOLEAN /\ clkdiv \in BOOLEAN
    BY DEF ClockInv, ClockTypeOK
  <2>2. QED
    BY <1>1, <2>1, RiseHeld, RiseHalf, RiseMoves
<1>2. CASE Fall
  BY <1>2, FallKeeps
<1>3. CASE PushReset \/ ReleaseReset
  BY <1>3, ButtonKeeps
<1>4. CASE ReplayReset
  BY <1>4, ReplayKeeps
<1>5. CASE UNCHANGED clockVars
  <2>1. UNCHANGED <<level, clkdiv, hc, vc, vs, start, difficulty, startKey, pushed, gap, disturbed>>
    BY <1>5 DEF clockVars, videoVars
  <2>2. (InPulse' <=> InPulse) /\ SinceRise' = SinceRise /\ SinceFall' = SinceFall
        /\ HalfTick' = HalfTick
    BY <2>1 DEF InPulse, SinceRise, PastRise, SinceFall, HalfTick
  <2>3. ClockTypeOK'
    BY <2>1, Zenon DEF ClockInv, ClockTypeOK
  <2>4. SyncInv'
    BY <2>1, <2>2, Zenon DEF ClockInv, SyncInv
  <2>5. RunningInv'
    BY <2>1, <2>2 DEF ClockInv, RunningInv
  <2>6. QED
    BY <2>3, <2>4, <2>5 DEF ClockInv
<1>6. QED
  BY <1>1, <1>2, <1>3, <1>4, <1>5 DEF ClockNext

\* In every behaviour the sync register follows the counters, and between two frame
\* edges of an undisturbed game the ticks counted are those the counters made.
THEOREM ClockInvariant == ClockSpec => []ClockInv
<1>1. ClockInit => ClockInv
  BY ClockStarts
<1>2. ClockInv /\ [ClockNext]_clockVars => ClockInv'
  BY ClockSteps
<1>3. QED
  BY <1>1, <1>2, PTL DEF ClockSpec

\* The picture's counters never leave the picture, and everything else about the
\* clocks keeps its type.
THEOREM ClockTypes == ClockSpec => []ClockTypeOK
<1>1. ClockInv => ClockTypeOK
  BY DEF ClockInv
<1>2. QED
  BY <1>1, ClockInvariant, PTL

-----------------------------------------------------------------------------
(* Frames.                                                                 *)

\* A frame edge of an undisturbed game is the end of a sync pulse, at a move.
LEMMA EdgeIsRise ==
  ASSUME ClockInv, [ClockNext]_clockVars, Edges, disturbed < 2
  PROVE  AtRise /\ ~vs /\ ~clkdiv
<1>1. startKey /\ ~pushed /\ start /\ (vs <=> ~InPulse) /\ clkdiv \in BOOLEAN /\ CountersOK
  BY DEF ClockInv, RunningInv, ClockTypeOK, CountersOK
<1>2. ~vs /\ vs' /\ InPulse
  BY <1>1 DEF Edges, frameClk
<1>3. Rise
  <2>1. ~UNCHANGED clockVars /\ ~Fall /\ ~ReleaseReset
    BY <1>2 DEF clockVars, videoVars, Fall, ReleaseReset
  <2>2. ~PushReset /\ ~ReplayReset
    BY <1>2 DEF PushReset, ReplayReset, VideoReset
  <2>3. QED
    BY <2>1, <2>2 DEF ClockNext
<1>4. ~clkdiv /\ CountLines /\ Sync
  BY <1>1, <1>2, <1>3 DEF Rise, Video
<1>5. ~InPulse'
  BY <1>1, <1>2, <1>4, MoveSync
<1>6. QED
  BY <1>1, <1>2, <1>4, <1>5, PulseEnds

\* Frames of an undisturbed game are exactly one picture apart, and after every frame
\* edge the collision logic has at least a sync pulse's time before the next.
THEOREM FramesAlwaysApart == ClockSpec => FramesApart
<1>1. ASSUME ClockInv, [ClockNext]_clockVars
      PROVE  Edges => /\ disturbed = 0 => gap = FrameTicks - 1
                      /\ disturbed < 2 => gap >= SyncTicks - 1
  <2> SUFFICES ASSUME Edges, disturbed < 2
               PROVE  /\ disturbed = 0 => gap = FrameTicks - 1
                      /\ gap >= SyncTicks - 1
    BY <1>1 DEF ClockInv, ClockTypeOK
  <2>1. AtRise /\ ~vs /\ HalfTick = 1 /\ CountersOK
    BY <1>1, EdgeIsRise DEF HalfTick, ClockInv, ClockTypeOK, CountersOK
  <2>2. SinceRise = Row(Lines) - 1 /\ SinceFall = 2 * Columns - 1
    BY <2>1, RiseDue, FallDue
  <2>3. /\ disturbed = 0 => gap = 2 * SinceRise + 1
        /\ gap >= 2 * SinceFall + 1
    BY <1>1, <2>1 DEF ClockInv, RunningInv
  <2>4. gap \in Int
    BY <1>1, PictureHoldsPulse DEF ClockInv, ClockTypeOK
  <2>5. QED
    BY <2>2, <2>3, <2>4, PictureHoldsPulse, SmallRows
<1>2. ClockInv /\ [ClockNext]_clockVars
        => [Edges => /\ disturbed = 0 => gap = FrameTicks - 1
                     /\ disturbed < 2 => gap >= SyncTicks - 1]_clockVars
  BY <1>1
<1>3. QED
  BY <1>2, ClockInvariant, PTL DEF ClockSpec, FramesApart
=============================================================================
