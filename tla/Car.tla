-------------------------------- MODULE Car ---------------------------------
(***************************************************************************)
(* The player's car: car.sv.  One step is one edge of the frame clock (or  *)
(* the asynchronous reset).  Steering left or right starts a lane shift    *)
(* that runs by itself until the car sits in the middle of the next lane;  *)
(* from the outermost lanes the shift leaves the screen and, through the   *)
(* 11-bit wrap of the position, comes back on the other side.              *)
(***************************************************************************)
EXTENDS Integers, Word11, Nitrous

CONSTANTS
  Car_Y_Start,        \* row of the car after a reset (419 in the source)
  Car_Y_Max,          \* bottom row of the screen (479 in the source)
  Held                \* the keys the player uses

Car_Width   == 64
Car_Height  == 130
Car_X_Start == 288
Car_X_Max   == 639
Lane_Shift  == 128
FirstLane   == 32
LastLane    == 544

\* The car fits on the screen, and starts at or below the line where the
\* bottom edge pushes it up again.
ASSUME CarAssumption ==
  /\ Car_Y_Start \in Nat /\ Car_Y_Max \in Nat
  /\ Car_Height < Car_Y_Max
  /\ Car_Y_Max - Car_Height + 7 <= Car_Y_Start
  /\ Car_Y_Start + Car_Height <= 1023

Left  == 80
Right == 79
Down  == 81
Up    == 82
Space == 44
None  == 0            \* stands for every key the decoder does not know
Keys  == {Left, Right, Down, Up, Space, None}

ASSUME HeldAssumption == Held \subseteq Keys

VARIABLES
  Car_X_Pos, Car_Y_Pos, Car_X_Motion, Car_Y_Motion,
  New_Lane,           \* where the current shift ends
  shifting,           \* a lane shift is under way
  CopX, CopY          \* the police car behind

posVars   == <<Car_X_Pos, Car_Y_Pos, CopX, CopY>>
shiftVars == <<Car_X_Motion, New_Lane, shifting>>
carVars   == <<posVars, shiftVars, Car_Y_Motion, nosVars>>

Lanes == {32, 160, 288, 416, 544}

(* The edges of the screen, in the order in which the code tests them. *)

AtBottom == Unsigned(Wrap(Car_Y_Pos + Car_Height)) >= Car_Y_Max
AtTop    == ~AtBottom /\ Car_Y_Pos < 0
\* The assignments of the two side tests are overridden at the end of the
\* block; what is left of them is that they keep the keys from being read.
AtSide   == Unsigned(Car_X_Pos) >= Car_X_Max \/ Car_X_Pos = 0
OnRoad   == ~AtBottom /\ ~AtTop /\ ~AtSide

(* Lane shifts. *)

Centred == (Car_X_Pos - Car_Width \div 2) % Lane_Shift = 0

StartsShift(key, noShift) ==
  OnRoad /\ key \in {Left, Right} /\ ~shifting /\ ~noShift /\ Centred

NextLane_OffByOne(key) ==
  IF key = Left
    THEN IF Car_X_Pos >= FirstLane THEN Car_X_Pos - Lane_Shift
                                   ELSE Car_X_Pos + 4 * Lane_Shift
    ELSE IF Car_X_Pos <= LastLane  THEN Car_X_Pos + Lane_Shift
                                   ELSE Car_X_Pos - 4 * Lane_Shift

NextLane(key) ==
  IF key = Left
    THEN IF Car_X_Pos > FirstLane THEN Car_X_Pos - Lane_Shift
                                  ELSE Car_X_Pos + 4 * Lane_Shift
    ELSE IF Car_X_Pos < LastLane  THEN Car_X_Pos + Lane_Shift
                                  ELSE Car_X_Pos - 4 * Lane_Shift

ShiftMotion(key) ==
  IF key = Left
    THEN IF Car_X_Pos > FirstLane THEN -4 * nosMult ELSE -32 * nosMult
    ELSE IF Car_X_Pos < LastLane  THEN  4 * nosMult ELSE  32 * nosMult

Arrives_Late ==
  \/ Car_X_Motion > 0 /\ Car_X_Pos >= New_Lane /\ Car_X_Pos < LastLane
  \/ Car_X_Motion < 0 /\ Car_X_Pos <= New_Lane /\ Car_X_Pos > FirstLane

Arrives_RightOnly ==
  /\ Car_X_Motion > 0
  /\ Car_X_Pos >= Wrap(New_Lane - Car_X_Motion)
  /\ Car_X_Pos < LastLane

\* The last frame of a shift: the motion register still moves the car once
\* more, so the test looks one motion ahead.
Arrives ==
  \/ /\ Car_X_Motion > 0
     /\ Car_X_Pos >= Wrap(New_Lane - Car_X_Motion)
     /\ Car_X_Pos < LastLane
  \/ /\ Car_X_Motion < 0
     /\ Car_X_Pos <= Wrap(New_Lane - Car_X_Motion)
     /\ Car_X_Pos > FirstLane

BeginShift(key, noShift) ==
  /\ StartsShift(key, noShift)
  /\ New_Lane' = NextLane(key)
  /\ shifting' = IF Arrives THEN FALSE ELSE TRUE
  /\ Car_X_Motion' = IF Arrives THEN 0 ELSE ShiftMotion(key)

EndShift(key, noShift) ==
  /\ ~StartsShift(key, noShift)
  /\ Arrives
  /\ shifting' = FALSE
  /\ Car_X_Motion' = 0
  /\ UNCHANGED New_Lane

KeepLane(key, noShift) ==
  /\ ~StartsShift(key, noShift)
  /\ ~Arrives
  /\ UNCHANGED shiftVars

(* Speed along the road.  The left, right and space keys leave it alone. *)

KeySpeed(key) ==
  CASE key = Down -> 2 * nosMult
    [] key = Up   -> -2 * nosMult
    [] key = None -> 0
    [] OTHER      -> Car_Y_Motion

Throttle_NoBottomEdge(key) ==
  Car_Y_Motion' = IF AtTop THEN 1
                  ELSE IF OnRoad THEN KeySpeed(key) ELSE Car_Y_Motion

Throttle_NoTopEdge(key) ==
  Car_Y_Motion' = IF AtBottom THEN -1
                  ELSE IF OnRoad THEN KeySpeed(key) ELSE Car_Y_Motion

Throttle(key) ==
  Car_Y_Motion' = IF AtBottom THEN -1
                  ELSE IF AtTop THEN 1
                  ELSE IF OnRoad THEN KeySpeed(key) ELSE Car_Y_Motion

Move ==
  /\ Car_X_Pos' = Wrap(Car_X_Pos + Car_X_Motion)
  /\ Car_Y_Pos' = Wrap(Car_Y_Pos + Car_Y_Motion)
  /\ CopX' = Car_X_Pos
  /\ CopY' = Wrap(Car_Y_Pos + Car_Height + 50)

(* The whole block, with the four inputs it reads. *)

CarReset(x, y, xm, ym, lane, shift) ==
  /\ x = Car_X_Start /\ y = Car_Y_Start
  /\ xm = 0 /\ ym = 0
  /\ lane = Car_X_Start
  /\ shift = FALSE

CarFrame(key, noShift, nosLoadedOut) ==
  /\ BeginShift(key, noShift) \/ EndShift(key, noShift) \/ KeepLane(key, noShift)
  /\ Throttle(key)
  /\ NitrousFrame(OnRoad /\ key = Space /\ nosLoadedOut)
  /\ Move

CarInit ==
  /\ CarReset(Car_X_Pos, Car_Y_Pos, Car_X_Motion, Car_Y_Motion, New_Lane, shifting)
  /\ NitrousReset(nosCount, nosActive, nosLoadedIn, nosMult)
  /\ CopX = 0 /\ CopY = 0                \* power-up value: no reset drives them

Reset ==
  /\ CarReset(Car_X_Pos', Car_Y_Pos', Car_X_Motion', Car_Y_Motion', New_Lane', shifting')
  /\ NitrousReset(nosCount', nosActive', nosLoadedIn', nosMult')
  /\ UNCHANGED <<CopX, CopY>>

\* The car alone, in a world that chooses its inputs freely every frame.
Frame == \E key \in Held, noShift, nosLoadedOut \in BOOLEAN :
           CarFrame(key, noShift, nosLoadedOut)

CarNext == Frame \/ Reset

CarSpec == CarInit /\ [][CarNext]_carVars /\ WF_carVars(Frame)

-----------------------------------------------------------------------------
(* Properties. *)

CarTypeOK ==
  /\ Car_X_Pos \in Signed /\ Car_Y_Pos \in Signed
  /\ Car_X_Motion \in {-64, -32, -8, -4, 0, 4, 8, 32, 64}
  /\ Car_Y_Motion \in {-4, -2, -1, 0, 1, 2, 4}
  /\ New_Lane \in Lanes
  /\ shifting \in BOOLEAN /\ nosActive \in BOOLEAN /\ nosLoadedIn \in BOOLEAN
  /\ CopX \in Signed /\ CopY \in Signed

\* A car that is not shifting stands still in the middle of a lane, the one its
\* last shift was aimed at: car.sv stops a shift one motion early and relies on
\* the step size dividing the distance, at both speeds and across the wrap.
RestsInLane == ~shifting => Car_X_Motion = 0 /\ Car_X_Pos \in Lanes /\ New_Lane = Car_X_Pos

\* A shift between two lanes runs between them; a shift off the side of the
\* screen never passes over the lanes in between, whatever the 11-bit wrap does.
StaysOnItsWay ==
  shifting =>
    CASE Car_X_Motion \in {4, 8}     -> Car_X_Pos \in (New_Lane - Lane_Shift) .. New_Lane
      [] Car_X_Motion \in {-8, -4}   -> Car_X_Pos \in New_Lane .. (New_Lane + Lane_Shift)
      [] OTHER -> Car_X_Motion # 0 /\ ~(FirstLane < Car_X_Pos /\ Car_X_Pos < LastLane)

\* The inductive form of the two: while a shift is under way the car is a whole
\* number of motions away from the lane it is aimed at, with at least one to go.
OnWayRight(x, lane, v) == x \in (lane - Lane_Shift) .. (lane - v) /\ x % v = 0
OnWayLeft(x, lane, v)  == x \in (lane + v) .. (lane + Lane_Shift) /\ x % v = 0
OffRight(x, v) ==
  (x \in LastLane .. 1023 \/ x \in -1024 .. FirstLane - v) /\ (x - LastLane) % v = 0
OffLeft(x, v) ==
  (x \in LastLane + v .. 1023 \/ x \in -1024 .. FirstLane) /\ (x - FirstLane) % v = 0

InShift ==
  \/ /\ Car_X_Motion \in {4, 8} /\ New_Lane \in Lanes \ {FirstLane}
     /\ OnWayRight(Car_X_Pos, New_Lane, Car_X_Motion)
  \/ /\ Car_X_Motion \in {-8, -4} /\ New_Lane \in Lanes \ {LastLane}
     /\ OnWayLeft(Car_X_Pos, New_Lane, -Car_X_Motion)
  \/ /\ Car_X_Motion \in {32, 64} /\ New_Lane = FirstLane
     /\ OffRight(Car_X_Pos, Car_X_Motion)
  \/ /\ Car_X_Motion \in {-64, -32} /\ New_Lane = LastLane
     /\ OffLeft(Car_X_Pos, -Car_X_Motion)

LaneInv == RestsInLane /\ (shifting => InShift)

\* The vertical position overshoots the top edge by at most two frames of
\* boosted speed, and never goes below the row of the reset: the edge tests
\* read the position before it moves and the motion before it is corrected.
StaysOnScreen == Car_Y_Pos \in -8 .. Car_Y_Start

\* Its inductive form: past either edge by more than one frame's motion, the
\* motion already points back.
BottomLine == Car_Y_Max - Car_Height
RoadInv ==
  /\ Car_Y_Motion \in -4 .. 4
  /\ Car_Y_Pos \in -8 .. Car_Y_Start
  /\ Car_Y_Pos < -4 => Car_Y_Motion >= 1
  /\ Car_Y_Pos > BottomLine + 3 => Car_Y_Motion <= 0

\* Every shift ends while frames keep coming, oil on the wheels or not.
ShiftEnds == shifting ~> ~shifting

\* The bottom edge takes the keys away only for a while, unless the player
\* keeps resetting the game: from below the line the car is pushed up a pixel a
\* frame, and no key can stop it there.
LeavesBottom == <>[][Frame]_carVars => (AtBottom ~> ~AtBottom)
=============================================================================
