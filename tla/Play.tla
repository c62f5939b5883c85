-------------------------------- MODULE Play --------------------------------
(***************************************************************************)
(* Two clocks.  The collision logic runs at 50 MHz; the car and the        *)
(* objects move at the frame clock.  They talk through flags that carry no *)
(* acknowledgement: trshdObjs, collect and nosLoadedOut one way, the       *)
(* positions and nosLoadedIn the other.  This module composes the collision*)
(* logic with the boost and with comparators whose inputs change when      *)
(* something moves, and asks what the flags are worth.                     *)
(*                                                                         *)
(* Half of the comparators' edges are registers and half are not, so in    *)
(* the first tick after a move they compare old edges with new ones and    *)
(* may say anything; from the second tick on they say what is the case.    *)
(***************************************************************************)
EXTENDS ColorMapper, Nitrous

CONSTANT MinTicks     \* ticks between two frames, at the least (see FramesApart in FrameClock)

\* What the handshakes need: two ticks for the flags to settle and one more to
\* lower nosLoadedOut.
ASSUME PlayAssumption == MinTicks \in Nat /\ MinTicks >= 3

VARIABLES
  contact, star,      \* what the comparators say once their edges are up to date
  age,                \* ticks since something moved: 0, 1, or 2 for more
  phase               \* ticks since the frame edge, counted up to MinTicks

envVars  == <<contact, star, age, phase>>
playVars == <<mapperVars, nosVars, envVars>>

\* At power-up the edge registers hold zero, and the choice of a level, the first
\* frame edge, may come at any time.
PlayInit ==
  /\ MapperInit
  /\ NitrousReset(nosCount, nosActive, nosLoadedIn, nosMult)
  /\ contact = {} /\ star = FALSE
  /\ age = 0 /\ phase = MinTicks

FastTick ==
  /\ ~replay
  /\ \E key \in {KeyR, NoKey} :
       \/ /\ age = 0
          /\ \E c \in Contacts, s \in BOOLEAN : Tick(c, s, nosLoadedIn, key)
       \/ /\ age > 0
          /\ Tick(contact, star, nosLoadedIn, key)
  /\ age' = IF age < 2 THEN age + 1 ELSE 2
  /\ phase' = IF phase < MinTicks THEN phase + 1 ELSE phase
  /\ UNCHANGED <<contact, star, nosVars>>

\* Everything moves, and the car reads the keys; in the menus the car and its
\* boost stand still while the objects move on.
FrameEdge ==
  /\ phase >= MinTicks
  /\ contact' \in Contacts
  /\ star' \in BOOLEAN
  /\ age' = 0
  /\ phase' = 0
  /\ IF menuLive
       THEN UNCHANGED nosVars
       ELSE \E space \in BOOLEAN : NitrousFrame(space /\ nosLoadedOut)
  /\ UNCHANGED mapperVars

\* The reset puts the car at the bottom and the objects at the top, where they
\* do not touch; the edge registers of the comparators are not reset.  The first
\* frame edge may follow at once.
ResetPlay ==
  /\ ResetMapper
  /\ NitrousReset(nosCount', nosActive', nosLoadedIn', nosMult')
  /\ contact' = {} /\ star' = FALSE
  /\ age' = 0
  /\ phase' = MinTicks

PlayNext == FastTick \/ FrameEdge \/ ResetPlay

PlaySpec == PlayInit /\ [][PlayNext]_playVars

-----------------------------------------------------------------------------
(* Properties. *)

\* One bottle, filled once, lit once.  A bottle picked up while another burns is
\* lost, and the pulse it makes on nosLoadedOut is over before the car looks.
Tank == INSTANCE NitrousTank WITH
          tank <- IF nosActive THEN "burning"
                  ELSE IF nosLoadedOut THEN "loaded" ELSE "empty"

OneBottle == Tank!TankInit /\ [][Tank!TankNext \/ UNCHANGED Tank!TankVar \/ ResetPlay]_playVars

\* While the game runs, the flags that the frame handlers of the objects and of
\* the stars read have settled two ticks after a move, long before the next edge:
\* no handler ever sees a flag that is about to change.
FlagsSettle ==
  [][age = 2 /\ ~menuLive /\ FastTick
       => UNCHANGED <<col_on, trshdObjs, collect, stars, damage, lost>>]_playVars

\* A game can end both lost and won, but only when the last star and the last
\* obstacle are met in the same frame.
BothOnlyInOneFrame ==
  [][lost' /\ won' /\ ~(lost /\ won) => age = 1 /\ phase = 1]_playVars
=============================================================================
