----------------------------- MODULE Car_proofs -----------------------------
(***************************************************************************)
(* Proofs about the car, for every length of the boost, every height of    *)
(* the screen and every choice of keys the player holds.                   *)
(***************************************************************************)
EXTENDS Car, TLAPS

(***************************************************************************)
(* The boost.                                                              *)
(***************************************************************************)

LEMMA NitrousInit ==
  ASSUME NitrousReset(nosCount, nosActive, nosLoadedIn, nosMult)
  PROVE  NitrousConsistent
  BY NosFullAssumption DEF NitrousReset, NitrousConsistent

LEMMA NitrousStep ==
  ASSUME NitrousConsistent, NEW fire \in BOOLEAN, NitrousFrame(fire)
  PROVE  NitrousConsistent'
<1>1. CASE Coast(fire)
  BY <1>1 DEF Coast, nosVars, NitrousConsistent
<1>2. CASE Ignite(fire)
  BY <1>2 DEF Ignite, NitrousConsistent
<1>3. CASE Burn(fire)
  BY <1>3, NosFullAssumption DEF Burn, NitrousConsistent
<1>4. CASE BurnOut
  BY <1>4, NosFullAssumption DEF BurnOut, NitrousConsistent
<1>5. QED
  BY <1>1, <1>2, <1>3, <1>4 DEF NitrousFrame

\* In every behaviour the boost registers agree: no bottle burns with the
\* handshake line high, and the steering is back to normal speed after a burn.
THEOREM BoostStaysConsistent == CarSpec => []NitrousConsistent
<1>1. CarInit => NitrousConsistent
  BY NitrousInit DEF CarInit
<1>2. NitrousConsistent /\ [CarNext]_carVars => NitrousConsistent'
  <2> SUFFICES ASSUME NitrousConsistent, [CarNext]_carVars
               PROVE  NitrousConsistent'
    OBVIOUS
  <2>1. CASE Frame
    <3>1. PICK key \in Held, noShift \in BOOLEAN, nosLoadedOut \in BOOLEAN :
            CarFrame(key, noShift, nosLoadedOut)
      BY <2>1 DEF Frame
    <3>2. NitrousFrame(OnRoad /\ key = Space /\ nosLoadedOut)
      BY <3>1 DEF CarFrame
    <3>3. (OnRoad /\ key = Space /\ nosLoadedOut) \in BOOLEAN
      OBVIOUS
    <3>4. QED
      BY <3>2, <3>3, NitrousStep
  <2>2. CASE Reset
    BY <2>2, NosFullAssumption DEF Reset, NitrousReset, NitrousConsistent
  <2>3. CASE UNCHANGED carVars
    BY <2>3 DEF carVars, nosVars, NitrousConsistent
  <2>4. QED
    BY <2>1, <2>2, <2>3 DEF CarNext
<1>3. QED
  BY <1>1, <1>2, PTL DEF CarSpec

(***************************************************************************)
(* Lane shifts.  First the arithmetic of one motion, for each of the eight *)
(* speeds a shift can have; off the screen, first on which side of the wrap *)
(* the motion ends.                                                        *)
(***************************************************************************)

LEMMA StepRight ==
  ASSUME NEW x \in Int, NEW lane \in Lanes \ {FirstLane}, NEW v \in {4, 8},
         OnWayRight(x, lane, v)
  PROVE  /\ x >= Wrap(lane - v) => x + v = lane
         /\ x < LastLane
         /\ Wrap(x + v) = x + v
         /\ x < Wrap(lane - v) => OnWayRight(x + v, lane, v)
<1>1. CASE v = 4
  BY <1>1 DEF Lanes, FirstLane, LastLane, Lane_Shift, OnWayRight, Wrap
<1>2. CASE v = 8
  BY <1>2 DEF Lanes, FirstLane, LastLane, Lane_Shift, OnWayRight, Wrap
<1>3. QED
  BY <1>1, <1>2

LEMMA StepLeft ==
  ASSUME NEW x \in Int, NEW lane \in Lanes \ {LastLane}, NEW v \in {4, 8},
         OnWayLeft(x, lane, v)
  PROVE  /\ x <= Wrap(lane + v) => x - v = lane
         /\ x > FirstLane
         /\ Wrap(x - v) = x - v
         /\ x > Wrap(lane + v) => OnWayLeft(x - v, lane, v)
<1>1. CASE v = 4
  BY <1>1 DEF Lanes, FirstLane, LastLane, Lane_Shift, OnWayLeft, Wrap
<1>2. CASE v = 8
  BY <1>2 DEF Lanes, FirstLane, LastLane, Lane_Shift, OnWayLeft, Wrap
<1>3. QED
  BY <1>1, <1>2

LEMMA StepOffRight ==
  ASSUME NEW x \in Int, NEW v \in {32, 64}, OffRight(x, v)
  PROVE  /\ x >= Wrap(FirstLane - v) /\ x < LastLane => Wrap(x + v) = FirstLane
         /\ ~(x >= Wrap(FirstLane - v) /\ x < LastLane) => OffRight(Wrap(x + v), v)
<1>1. CASE v = 32
  <2>. DEFINE k == (x - 544) \div 32
  <2>1. k \in Int /\ x = 544 + 32 * k
    BY <1>1 DEF FirstLane, LastLane, OffRight
  <2>. HIDE DEF k
  <2>2. CASE x + 32 > 1023
    BY <1>1, <2>1, <2>2 DEF FirstLane, LastLane, OffRight, Wrap
  <2>3. CASE ~(x + 32 > 1023)
    BY <1>1, <2>1, <2>3 DEF FirstLane, LastLane, OffRight, Wrap
  <2>4. QED
    BY <2>2, <2>3
<1>2. CASE v = 64
  <2>. DEFINE k == (x - 544) \div 64
  <2>1. k \in Int /\ x = 544 + 64 * k
    BY <1>2 DEF FirstLane, LastLane, OffRight
  <2>. HIDE DEF k
  <2>2. CASE x + 64 > 1023
    BY <1>2, <2>1, <2>2 DEF FirstLane, LastLane, OffRight, Wrap
  <2>3. CASE ~(x + 64 > 1023)
    BY <1>2, <2>1, <2>3 DEF FirstLane, LastLane, OffRight, Wrap
  <2>4. QED
    BY <2>2, <2>3
<1>3. QED
  BY <1>1, <1>2

LEMMA StepOffLeft ==
  ASSUME NEW x \in Int, NEW v \in {32, 64}, OffLeft(x, v)
  PROVE  /\ x <= Wrap(LastLane + v) /\ x > FirstLane => Wrap(x - v) = LastLane
         /\ ~(x <= Wrap(LastLane + v) /\ x > FirstLane) => OffLeft(Wrap(x - v), v)
<1>1. CASE v = 32
  <2>. DEFINE k == (x - 32) \div 32
  <2>1. k \in Int /\ x = 32 + 32 * k
    BY <1>1 DEF FirstLane, LastLane, OffLeft
  <2>. HIDE DEF k
  <2>2. CASE x - 32 < -1024
    BY <1>1, <2>1, <2>2 DEF FirstLane, LastLane, OffLeft, Wrap
  <2>3. CASE ~(x - 32 < -1024)
    BY <1>1, <2>1, <2>3 DEF FirstLane, LastLane, OffLeft, Wrap
  <2>4. QED
    BY <2>2, <2>3
<1>2. CASE v = 64
  <2>. DEFINE k == (x - 32) \div 64
  <2>1. k \in Int /\ x = 32 + 64 * k
    BY <1>2 DEF FirstLane, LastLane, OffLeft
  <2>. HIDE DEF k
  <2>2. CASE x - 64 < -1024
    BY <1>2, <2>1, <2>2 DEF FirstLane, LastLane, OffLeft, Wrap
  <2>3. CASE ~(x - 64 < -1024)
    BY <1>2, <2>1, <2>3 DEF FirstLane, LastLane, OffLeft, Wrap
  <2>4. QED
    BY <2>2, <2>3
<1>3. QED
  BY <1>1, <1>2

\* A shift under way either takes one more motion and is still on its way, or
\* arrives, and then the last motion puts the car exactly into the lane.
LEMMA ShiftAdvances ==
  ASSUME InShift, Car_X_Pos' = Wrap(Car_X_Pos + Car_X_Motion)
  PROVE  /\ Arrives => Car_X_Pos' = New_Lane /\ New_Lane \in Lanes
         /\ ~Arrives /\ UNCHANGED <<Car_X_Motion, New_Lane>> => InShift'
<1>1. CASE /\ Car_X_Motion \in {4, 8} /\ New_Lane \in Lanes \ {FirstLane}
           /\ OnWayRight(Car_X_Pos, New_Lane, Car_X_Motion)
  <2>1. Car_X_Pos \in Int
    BY <1>1 DEF OnWayRight, Lanes, Lane_Shift
  <2>2. Arrives <=> Car_X_Pos >= Wrap(New_Lane - Car_X_Motion)
    BY <1>1, <2>1, StepRight DEF Arrives
  <2>3. Arrives => Car_X_Pos' = New_Lane
    BY <1>1, <2>1, <2>2, StepRight
  <2>4. ~Arrives => OnWayRight(Car_X_Pos', New_Lane, Car_X_Motion)
    BY <1>1, <2>1, <2>2, StepRight DEF Wrap, Lanes
  <2>5. QED
    BY <1>1, <2>3, <2>4 DEF InShift
<1>2. CASE /\ Car_X_Motion \in {-8, -4} /\ New_Lane \in Lanes \ {LastLane}
           /\ OnWayLeft(Car_X_Pos, New_Lane, -Car_X_Motion)
  <2> DEFINE v == -Car_X_Motion
  <2>1. Car_X_Pos \in Int /\ v \in {4, 8} /\ Car_X_Motion = -v
    BY <1>2 DEF OnWayLeft, Lanes, Lane_Shift
  <2>2. /\ Car_X_Pos <= Wrap(New_Lane + v) => Car_X_Pos - v = New_Lane
        /\ Car_X_Pos > FirstLane
        /\ Wrap(Car_X_Pos - v) = Car_X_Pos - v
        /\ Car_X_Pos > Wrap(New_Lane + v) => OnWayLeft(Car_X_Pos - v, New_Lane, v)
    <3> HIDE DEF v
    <3>1. OnWayLeft(Car_X_Pos, New_Lane, v)
      BY <1>2 DEF v
    <3>2. QED
      BY <1>2, <2>1, <3>1, StepLeft
  <2>3. Arrives <=> Car_X_Pos <= Wrap(New_Lane + v)
    BY <1>2, <2>1, <2>2 DEF Arrives, Lanes
  <2>4. Car_X_Pos' = Car_X_Pos - v
    BY <2>1, <2>2
  <2>5. Arrives => Car_X_Pos' = New_Lane
    BY <2>2, <2>3, <2>4
  <2>6. ~Arrives => OnWayLeft(Car_X_Pos', New_Lane, v)
    BY <1>2, <2>1, <2>2, <2>3, <2>4 DEF Wrap, Lanes
  <2>7. QED
    BY <1>2, <2>5, <2>6 DEF InShift
<1>3. CASE /\ Car_X_Motion \in {32, 64} /\ New_Lane = FirstLane
           /\ OffRight(Car_X_Pos, Car_X_Motion)
  <2>1. Car_X_Pos \in Int
    BY <1>3 DEF OffRight, FirstLane, LastLane
  <2>2. Arrives <=> Car_X_Pos >= Wrap(FirstLane - Car_X_Motion) /\ Car_X_Pos < LastLane
    BY <1>3, <2>1 DEF Arrives
  <2>3. Arrives => Car_X_Pos' = New_Lane
    BY <1>3, <2>1, <2>2, StepOffRight
  <2>4. ~Arrives => OffRight(Car_X_Pos', Car_X_Motion)
    BY <1>3, <2>1, <2>2, StepOffRight
  <2>5. FirstLane \in Lanes
    BY DEF FirstLane, Lanes
  <2>6. QED
    BY <1>3, <2>3, <2>4, <2>5 DEF InShift
<1>4. CASE /\ Car_X_Motion \in {-64, -32} /\ New_Lane = LastLane
           /\ OffLeft(Car_X_Pos, -Car_X_Motion)
  <2> DEFINE v == -Car_X_Motion
  <2>1. Car_X_Pos \in Int /\ v \in {32, 64} /\ Car_X_Motion = -v
    BY <1>4 DEF OffLeft, FirstLane, LastLane
  <2>2. Car_X_Pos' = Wrap(Car_X_Pos - v)
    BY <2>1
  <2>3. Arrives <=> Car_X_Pos <= Wrap(LastLane + v) /\ Car_X_Pos > FirstLane
    BY <1>4, <2>1 DEF Arrives, LastLane, FirstLane, Wrap
  <2>4. /\ Arrives => Wrap(Car_X_Pos - v) = LastLane
        /\ ~Arrives => OffLeft(Wrap(Car_X_Pos - v), v)
    <3> HIDE DEF v
    <3>1. OffLeft(Car_X_Pos, v)
      BY <1>4 DEF v
    <3>2. QED
      BY <2>1, <2>3, <3>1, StepOffLeft
  <2>5. LastLane \in Lanes
    BY DEF LastLane, Lanes
  <2>6. QED
    BY <1>4, <2>2, <2>4, <2>5 DEF InShift
<1>5. QED
  BY <1>1, <1>2, <1>3, <1>4 DEF InShift

\* A shift that starts from the middle of a lane starts on its way.
LEMMA ShiftStarts ==
  ASSUME NEW key \in {Left, Right}, Car_X_Pos \in Lanes, nosMult \in {1, 2},
         Car_X_Pos' = Car_X_Pos, New_Lane' = NextLane(key),
         Car_X_Motion' = ShiftMotion(key)
  PROVE  InShift'
<1>1. CASE key = Left /\ Car_X_Pos > FirstLane
  <2>1. Car_X_Motion' = -4 * nosMult /\ New_Lane' = Car_X_Pos - Lane_Shift
    BY <1>1 DEF ShiftMotion, NextLane
  <2>2. CASE nosMult = 1
    BY <1>1, <2>1, <2>2 DEF InShift, OnWayLeft, Lanes, FirstLane, LastLane, Lane_Shift
  <2>3. CASE nosMult = 2
    BY <1>1, <2>1, <2>3 DEF InShift, OnWayLeft, Lanes, FirstLane, LastLane, Lane_Shift
  <2>4. QED
    BY <2>2, <2>3
<1>2. CASE key = Left /\ ~(Car_X_Pos > FirstLane)
  <2>1. Car_X_Pos = FirstLane
    BY <1>2 DEF Lanes, FirstLane
  <2>2. Car_X_Motion' = -32 * nosMult /\ New_Lane' = LastLane
    BY <1>2, <2>1 DEF ShiftMotion, NextLane, FirstLane, LastLane, Lane_Shift
  <2>3. CASE nosMult = 1
    BY <2>1, <2>2, <2>3 DEF InShift, OffLeft, FirstLane, LastLane
  <2>4. CASE nosMult = 2
    BY <2>1, <2>2, <2>4 DEF InShift, OffLeft, FirstLane, LastLane
  <2>5. QED
    BY <2>3, <2>4
<1>3. CASE key = Right /\ Car_X_Pos < LastLane
  <2>1. Car_X_Motion' = 4 * nosMult /\ New_Lane' = Car_X_Pos + Lane_Shift
    BY <1>3 DEF ShiftMotion, NextLane, Left, Right
  <2>2. CASE nosMult = 1
    BY <1>3, <2>1, <2>2 DEF InShift, OnWayRight, Lanes, FirstLane, LastLane, Lane_Shift
  <2>3. CASE nosMult = 2
    BY <1>3, <2>1, <2>3 DEF InShift, OnWayRight, Lanes, FirstLane, LastLane, Lane_Shift
  <2>4. QED
    BY <2>2, <2>3
<1>4. CASE key = Right /\ ~(Car_X_Pos < LastLane)
  <2>1. Car_X_Pos = LastLane
    BY <1>4 DEF Lanes, LastLane
  <2>2. Car_X_Motion' = 32 * nosMult /\ New_Lane' = FirstLane
    BY <1>4, <2>1 DEF ShiftMotion, NextLane, FirstLane, LastLane, Lane_Shift, Left, Right
  <2>3. CASE nosMult = 1
    BY <2>1, <2>2, <2>3 DEF InShift, OffRight, FirstLane, LastLane
  <2>4. CASE nosMult = 2
    BY <2>1, <2>2, <2>4 DEF InShift, OffRight, FirstLane, LastLane
  <2>5. QED
    BY <2>3, <2>4
<1>5. QED
  BY <1>1, <1>2, <1>3, <1>4

\* One frame keeps the lane invariant, whatever key is held.
LEMMA LaneFrame ==
  ASSUME LaneInv, nosMult \in {1, 2}, NEW key \in Keys, NEW noShift \in BOOLEAN,
         NEW nosLoadedOut \in BOOLEAN, CarFrame(key, noShift, nosLoadedOut)
  PROVE  LaneInv'
<1>1. Car_X_Pos' = Wrap(Car_X_Pos + Car_X_Motion)
  BY DEF CarFrame, Move
<1>2. CASE BeginShift(key, noShift)
  <2>1. ~shifting /\ key \in {Left, Right}
    BY <1>2 DEF BeginShift, StartsShift
  <2>2. Car_X_Motion = 0 /\ Car_X_Pos \in Lanes /\ nosMult \in {1, 2}
    BY <2>1 DEF LaneInv, RestsInLane
  <2>3. ~Arrives
    BY <2>2 DEF Arrives
  <2>4. Car_X_Pos' = Car_X_Pos
    BY <1>1, <2>2 DEF Lanes, Wrap
  <2>5. InShift'
    BY <1>2, <2>1, <2>2, <2>3, <2>4, ShiftStarts DEF BeginShift
  <2>6. shifting'
    BY <1>2, <2>3 DEF BeginShift
  <2>7. QED
    BY <2>5, <2>6 DEF LaneInv, RestsInLane
<1>3. CASE EndShift(key, noShift)
  <2>1. shifting
    <3>1. Arrives => Car_X_Motion # 0
      BY DEF Arrives
    <3>2. QED
      BY <1>3, <3>1 DEF EndShift, LaneInv, RestsInLane
  <2>2. Car_X_Pos' = New_Lane /\ New_Lane \in Lanes
    BY <1>1, <1>3, <2>1, ShiftAdvances DEF EndShift, LaneInv
  <2>3. QED
    BY <1>3, <2>2 DEF EndShift, LaneInv, RestsInLane, Lanes
<1>4. CASE KeepLane(key, noShift)
  <2>1. CASE shifting
    <3>1. InShift'
      BY <1>1, <1>4, <2>1, ShiftAdvances DEF KeepLane, shiftVars, LaneInv
    <3>2. QED
      BY <1>4, <2>1, <3>1 DEF KeepLane, shiftVars, LaneInv, RestsInLane
  <2>2. CASE ~shifting
    <3>1. Car_X_Motion = 0 /\ Car_X_Pos \in Lanes /\ New_Lane = Car_X_Pos
      BY <2>2 DEF LaneInv, RestsInLane
    <3>2. Car_X_Pos' = Car_X_Pos
      BY <1>1, <3>1 DEF Lanes, Wrap
    <3>3. QED
      BY <1>4, <2>2, <3>1, <3>2 DEF KeepLane, shiftVars, LaneInv, RestsInLane, Lanes
  <2>3. QED
    BY <2>1, <2>2
<1>5. QED
  BY <1>2, <1>3, <1>4 DEF CarFrame

\* In every behaviour the car is either in the middle of a lane or on its way
\* to one, at a distance its motion divides.
THEOREM LaneInvariant == CarSpec => []LaneInv
<1>1. CarInit => LaneInv
  BY DEF CarInit, CarReset, LaneInv, RestsInLane, Lanes, Car_X_Start
<1>2. LaneInv /\ NitrousConsistent /\ [CarNext]_carVars => LaneInv'
  <2> SUFFICES ASSUME LaneInv, NitrousConsistent, [CarNext]_carVars
               PROVE  LaneInv'
    OBVIOUS
  <2>1. nosMult \in {1, 2}
    BY DEF NitrousConsistent
  <2>2. CASE Frame
    BY <2>1, <2>2, HeldAssumption, LaneFrame DEF Frame
  <2>3. CASE Reset
    BY <2>3 DEF Reset, CarReset, LaneInv, RestsInLane, Lanes, Car_X_Start
  <2>4. CASE UNCHANGED carVars
    BY <2>4 DEF carVars, posVars, shiftVars, LaneInv, RestsInLane, InShift
  <2>5. QED
    BY <2>2, <2>3, <2>4 DEF CarNext
<1>3. QED
  BY <1>1, <1>2, BoostStaysConsistent, PTL DEF CarSpec

\* A car that is not shifting stands still in the middle of the lane it chose,
\* for every length of the boost and every height of the screen.
THEOREM RestsInLaneAlways == CarSpec => []RestsInLane
<1>1. LaneInv => RestsInLane
  BY DEF LaneInv
<1>2. QED
  BY <1>1, LaneInvariant, PTL

\* A shift never leaves its way: not the strip between two neighbouring lanes,
\* and, off the side of the screen, never over the lanes in between.
THEOREM StaysOnItsWayAlways == CarSpec => []StaysOnItsWay
<1>1. LaneInv => StaysOnItsWay
  <2> SUFFICES ASSUME InShift PROVE StaysOnItsWay
    BY DEF LaneInv, StaysOnItsWay
  <2>1. CASE Car_X_Motion \in {4, 8}
    BY <2>1 DEF InShift, StaysOnItsWay, OnWayRight, Lanes, Lane_Shift
  <2>2. CASE Car_X_Motion \in {-8, -4}
    BY <2>2 DEF InShift, StaysOnItsWay, OnWayLeft, Lanes, Lane_Shift
  <2>3. CASE Car_X_Motion \in {-64, -32, 32, 64}
    BY <2>3 DEF InShift, StaysOnItsWay, OffRight, OffLeft, FirstLane, LastLane
  <2>4. QED
    BY <2>1, <2>2, <2>3 DEF InShift
<1>2. QED
  BY <1>1, LaneInvariant, PTL

(***************************************************************************)
(* The edges of the road.                                                  *)
(***************************************************************************)

LEMMA RoadFrame ==
  ASSUME RoadInv, nosMult \in {1, 2}, NEW key \in Keys, Throttle(key), Move
  PROVE  RoadInv'
<1>1. Car_Y_Pos' = Car_Y_Pos + Car_Y_Motion
  BY CarAssumption DEF RoadInv, Move, Wrap, Car_Height
<1>2. AtBottom <=> Car_Y_Pos >= BottomLine
  BY CarAssumption DEF RoadInv, AtBottom, BottomLine, Wrap, Unsigned, Car_Height
<1>3. CASE AtBottom
  BY <1>1, <1>2, <1>3, CarAssumption DEF Throttle, RoadInv, BottomLine, Car_Height
<1>4. CASE AtTop
  <2>1. Car_Y_Motion' = 1 /\ Car_Y_Pos < 0
    BY <1>4 DEF Throttle, AtTop
  <2>2. QED
    BY <1>1, <2>1, CarAssumption DEF RoadInv, BottomLine, Car_Height
<1>5. CASE ~AtBottom /\ ~AtTop
  <2>1. Car_Y_Pos \in 0 .. BottomLine - 1
    BY <1>2, <1>5, CarAssumption DEF AtTop, RoadInv, BottomLine, Car_Height
  <2>2. Car_Y_Motion' \in -4 .. 4
    <3>1. KeySpeed(key) \in -4 .. 4
      <4>1. CASE nosMult = 1
        BY <4>1 DEF KeySpeed, RoadInv
      <4>2. CASE nosMult = 2
        BY <4>2 DEF KeySpeed, RoadInv
      <4>3. QED
        BY <4>1, <4>2
    <3>2. Car_Y_Motion' = KeySpeed(key) \/ Car_Y_Motion' = Car_Y_Motion
      BY <1>5 DEF Throttle
    <3>3. QED
      BY <3>1, <3>2 DEF RoadInv
  <2>3. QED
    BY <1>1, <2>1, <2>2, CarAssumption DEF RoadInv, BottomLine, Car_Height
<1>6. QED
  BY <1>3, <1>4, <1>5

\* The car overshoots the top edge by at most eight rows and never drops below
\* the row it starts from, at either speed.
THEOREM StaysOnScreenAlways == CarSpec => []StaysOnScreen
<1>1. CarInit => RoadInv
  BY CarAssumption DEF CarInit, CarReset, RoadInv, BottomLine
<1>2. RoadInv /\ NitrousConsistent /\ [CarNext]_carVars => RoadInv'
  <2> SUFFICES ASSUME RoadInv, NitrousConsistent, [CarNext]_carVars
               PROVE  RoadInv'
    OBVIOUS
  <2>1. nosMult \in {1, 2}
    BY DEF NitrousConsistent
  <2>2. CASE Frame
    BY <2>1, <2>2, HeldAssumption, RoadFrame DEF Frame, CarFrame
  <2>3. CASE Reset
    BY <2>3, CarAssumption DEF Reset, CarReset, RoadInv, BottomLine
  <2>4. CASE UNCHANGED carVars
    BY <2>4 DEF carVars, posVars, RoadInv, BottomLine
  <2>5. QED
    BY <2>2, <2>3, <2>4 DEF CarNext
<1>3. RoadInv => StaysOnScreen
  BY DEF RoadInv, StaysOnScreen
<1>4. QED
  BY <1>1, <1>2, <1>3, BoostStaysConsistent, PTL DEF CarSpec

(***************************************************************************)
(* The widths of the registers.                                            *)
(***************************************************************************)

\* One frame keeps every register within its width.
LEMMA TypeFrame ==
  ASSUME CarTypeOK, LaneInv, nosMult \in {1, 2}, NEW key \in Keys,
         NEW noShift \in BOOLEAN, NEW nosLoadedOut \in BOOLEAN,
         CarFrame(key, noShift, nosLoadedOut)
  PROVE  CarTypeOK'
<1>1. Car_X_Pos' \in Signed /\ Car_Y_Pos' \in Signed /\ CopX' \in Signed /\ CopY' \in Signed
  <2>1. /\ Car_X_Pos' = Wrap(Car_X_Pos + Car_X_Motion)
        /\ Car_Y_Pos' = Wrap(Car_Y_Pos + Car_Y_Motion)
        /\ CopX' = Car_X_Pos
        /\ CopY' = Wrap(Car_Y_Pos + Car_Height + 50)
    BY Zenon DEF CarFrame, Move
  <2>2. /\ Car_X_Pos \in -1024 .. 1023 /\ Car_X_Motion \in -64 .. 64
        /\ Car_Y_Pos \in -1024 .. 1023 /\ Car_Y_Motion \in -4 .. 4
    BY DEF CarTypeOK, Signed
  <2>3. Wrap(Car_X_Pos + Car_X_Motion) \in Signed
    BY <2>2 DEF Wrap, Signed
  <2>4. Wrap(Car_Y_Pos + Car_Y_Motion) \in Signed
    BY <2>2 DEF Wrap, Signed
  <2>5. Wrap(Car_Y_Pos + Car_Height + 50) \in Signed
    BY <2>2 DEF Wrap, Signed, Car_Height
  <2>6. Car_X_Pos \in Signed
    BY DEF CarTypeOK
  <2> QED BY <2>1, <2>3, <2>4, <2>5, <2>6, Zenon
<1>2. Car_X_Motion' \in {-64, -32, -8, -4, 0, 4, 8, 32, 64} /\ shifting' \in BOOLEAN
  <2>1. ShiftMotion(key) \in {-64, -32, -8, -4, 4, 8, 32, 64}
    BY DEF ShiftMotion
  <2> QED BY <2>1 DEF CarFrame, BeginShift, EndShift, KeepLane, shiftVars, CarTypeOK
<1>3. New_Lane' \in Lanes
  <2>1. CASE BeginShift(key, noShift)
    <3>1. Car_X_Pos \in Lanes
      BY <2>1 DEF BeginShift, StartsShift, LaneInv, RestsInLane
    <3> QED BY <2>1, <3>1 DEF BeginShift, NextLane, Lanes, FirstLane, LastLane, Lane_Shift
  <2>2. CASE EndShift(key, noShift) \/ KeepLane(key, noShift)
    BY <2>2 DEF EndShift, KeepLane, shiftVars, CarTypeOK
  <2> QED BY <2>1, <2>2 DEF CarFrame
<1>4. Car_Y_Motion' \in {-4, -2, -1, 0, 1, 2, 4}
  <2>1. KeySpeed(key) \in {-4, -2, -1, 0, 1, 2, 4}
    <3>1. CASE nosMult = 1
      BY <3>1 DEF KeySpeed, CarTypeOK
    <3>2. CASE nosMult = 2
      BY <3>2 DEF KeySpeed, CarTypeOK
    <3> QED BY <3>1, <3>2
  <2> QED BY <2>1 DEF CarFrame, Throttle, CarTypeOK
<1>5. nosActive' \in BOOLEAN /\ nosLoadedIn' \in BOOLEAN
  <2>1. NitrousFrame(OnRoad /\ key = Space /\ nosLoadedOut)
    BY DEF CarFrame
  <2> QED BY <2>1, Zenon DEF NitrousFrame, Coast, Ignite, Burn, BurnOut, nosVars, CarTypeOK
<1> QED BY <1>1, <1>2, <1>3, <1>4, <1>5 DEF CarTypeOK

\* In every behaviour every register of the car keeps to its width, and the motion
\* registers to the few speeds the steering knows.
THEOREM CarTypeCorrect == CarSpec => []CarTypeOK
<1>. DEFINE Speeds(x, y) == /\ x \in {-64, -32, -8, -4, 0, 4, 8, 32, 64}
                            /\ y \in {-4, -2, -1, 0, 1, 2, 4}
<1>0. /\ Car_X_Start \in Signed /\ Car_Y_Start \in Signed /\ 0 \in Signed
      /\ Speeds(0, 0) /\ Car_X_Start \in Lanes
  BY CarAssumption DEF Lanes, Signed, Car_X_Start, Car_Height
<1>1. CarInit => CarTypeOK
  BY <1>0, Zenon DEF CarInit, CarReset, NitrousReset, CarTypeOK
<1>2. CarTypeOK /\ LaneInv /\ NitrousConsistent /\ [CarNext]_carVars => CarTypeOK'
  <2> SUFFICES ASSUME CarTypeOK, LaneInv, NitrousConsistent, [CarNext]_carVars
               PROVE  CarTypeOK'
    OBVIOUS
  <2>1. nosMult \in {1, 2}
    BY DEF NitrousConsistent
  <2>2. CASE Frame
    BY <2>1, <2>2, HeldAssumption, TypeFrame DEF Frame
  <2>3. CASE Reset
    BY <1>0, <2>3, Zenon DEF Reset, CarReset, NitrousReset, CarTypeOK
  <2>4. CASE UNCHANGED carVars
    BY <2>4 DEF carVars, posVars, shiftVars, nosVars, CarTypeOK
  <2> QED BY <2>2, <2>3, <2>4 DEF CarNext
<1> QED BY <1>1, <1>2, LaneInvariant, BoostStaysConsistent, PTL DEF CarSpec
=============================================================================
