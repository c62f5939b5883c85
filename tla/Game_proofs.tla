----------------------------- MODULE Game_proofs ------------------------------
(***************************************************************************)
(* Proofs about the road: the objects and the star by themselves, for      *)
(* every screen, delay and choice of speeds, and then the whole game, in   *)
(* which the car, the objects, the star and the collision logic drive each *)
(* other: it plays by the rules and has one bottle of nitrous.             *)
(***************************************************************************)
EXTENDS Game, Car_proofs, ColorMapper_proofs

-----------------------------------------------------------------------------
(* The objects. *)

\* The speeds of the objects are those of a level, or none before the first frame.
SpeedsOK == Obj_Y_Motion \in [Objs -> 0 .. 3]

\* The generator keeps to its codes and the objects to their lanes and rows.
ObjInv ==
  /\ Obj_X_Pos \in [Objs -> Int] /\ Obj_Y_Pos \in [Objs -> Nat] /\ SpeedsOK
  /\ exprdObjs \subseteq Objs
  /\ genX \in BOOLEAN /\ code \in Codes
  /\ StaysInLane /\ CaughtAtBottom

\* The shift register runs through all codes but the one that feeds itself.
LEMMA LFSRCodes ==
  ASSUME NEW c \in Codes, c # 7
  PROVE  LFSRStep(c) \in Codes /\ LFSRStep(c) # 7
BY SMT DEF LFSRStep, Xnor, Codes

\* Every code names a lane.
LEMMA GenXLane ==
  ASSUME NEW c \in Codes
  PROVE  GenX(c) \in LaneCentres
<1>1. c \in {0, 1, 2, 3, 4, 5, 6, 7}
  BY SMT DEF Codes
<1> QED  BY <1>1, SMT DEF GenX, LaneCentres

\* The sizes of the objects.
LEMMA Sizes ==
  ASSUME NEW i \in Objs
  PROVE  /\ i \in 0 .. 7
         /\ Obj_Height(i) \in 19 .. 60 /\ Obj_Height(i) < Obj_Y_Max
         /\ Obj_Width(i) \in {32, 36, 40, 64} /\ Adjust(i) \in -2 .. 2
         /\ StartCentre(i) \in LaneCentres
<1>1. i \in 0 .. 7 /\ Obj_Height(i) < Obj_Y_Max
  BY ObjectsAssumption, Zenon
<1>2. i \in {0, 1, 2, 3, 4, 5, 6, 7}
  BY <1>1, SMT
<1>3. Obj_Height(i) \in 19 .. 60
  BY <1>2, SMT DEF Obj_Height, Rock, Tree, Barrel, Nos, Life, Cone, Oil, Shield
<1>4. Obj_Width(i) \in {32, 36, 40, 64} /\ Adjust(i) \in -2 .. 2
  BY <1>2, SMT DEF Obj_Width, Adjust, Rock, Tree, Barrel, Nos, Life, Cone, Oil, Shield
<1>5. StartCentre(i) \in LaneCentres
  BY <1>2, SMT DEF StartCentre, LaneCentres, Rock, Tree, Barrel, Nos, Life, Cone, Oil, Shield
<1> QED  BY <1>1, <1>3, <1>4, <1>5

\* An object in the middle of a lane is on the screen.
LEMMA LaneOnScreen ==
  ASSUME NEW i \in Objs, NEW c \in LaneCentres
  PROVE  SpawnX(i, c) \in 0 .. 639
<1>1. Obj_Width(i) \in {32, 36, 40, 64} /\ Adjust(i) \in -2 .. 2 /\ c \in 64 .. 576
  BY Sizes, SMT DEF LaneCentres
<1>2. Obj_Width(i) \div 2 \in 16 .. 32
  BY <1>1, SMT
<1> QED  BY <1>1, <1>2, SMTT(20) DEF SpawnX

\* What every object is like when it starts or is put back.
LEMMA ObjResetInv ==
  ASSUME NEW x, NEW y, NEW e, ObjReset(x, y, e)
  PROVE  /\ x \in [Objs -> Int] /\ y \in [Objs -> Nat] /\ e = {}
         /\ \A i \in Objs : /\ \E c \in LaneCentres : x[i] = SpawnX(i, c)
                            /\ y[i] + Obj_Height(i) < Obj_Y_Max + 3
<1>1. \A i \in Objs : SpawnX(i, StartCentre(i)) \in Int
  <2> TAKE i \in Objs
  <2>1. SpawnX(i, StartCentre(i)) \in 0 .. 639
    BY Sizes, LaneOnScreen
  <2> QED  BY <2>1, SMT
<1>2. /\ x = [i \in Objs |-> SpawnX(i, StartCentre(i))]
      /\ y = [i \in Objs |-> IF i < 5 THEN 0 ELSE Obj_Y_Start_1]
      /\ e = {}
  BY Zenon DEF ObjReset
<1>3. x \in [Objs -> Int]
  BY <1>1, <1>2, Zenon
<1>4. y \in [Objs -> Nat]
  BY <1>2, ObjectsAssumption, SMT
<1>5. ASSUME NEW i \in Objs
      PROVE  /\ \E c \in LaneCentres : x[i] = SpawnX(i, c)
             /\ y[i] + Obj_Height(i) < Obj_Y_Max + 3
  <2>1. x[i] = SpawnX(i, StartCentre(i)) /\ StartCentre(i) \in LaneCentres
    BY <1>2, Sizes, Zenon
  <2>2. y[i] \in {0, Obj_Y_Start_1}
    BY <1>2, Zenon
  <2>3. Obj_Height(i) \in 19 .. 60 /\ Obj_Height(i) < Obj_Y_Max
    BY Sizes
  <2>4. Obj_Y_Start_1 + Obj_Height(i) < Obj_Y_Max + 3 /\ Obj_Y_Max \in Nat /\ Obj_Y_Start_1 \in Nat
    BY ObjectsAssumption
  <2>5. y[i] + Obj_Height(i) < Obj_Y_Max + 3
    BY <2>2, <2>3, <2>4, SMT
  <2> QED  BY <2>1, <2>5, Zenon
<1> QED  BY <1>2, <1>3, <1>4, <1>5

LEMMA ObjInitInv ==
  ASSUME ObjInit
  PROVE  ObjInv
<1>1. ObjReset(Obj_X_Pos, Obj_Y_Pos, exprdObjs)
  BY Zenon DEF ObjInit
<1>2. /\ Obj_X_Pos \in [Objs -> Int] /\ Obj_Y_Pos \in [Objs -> Nat] /\ exprdObjs = {}
      /\ \A i \in Objs : /\ \E c \in LaneCentres : Obj_X_Pos[i] = SpawnX(i, c)
                         /\ Obj_Y_Pos[i] + Obj_Height(i) < Obj_Y_Max + 3
  BY <1>1, ObjResetInv
<1>3. SpeedsOK
  BY SMT DEF ObjInit, SpeedsOK
<1>4. genX \in BOOLEAN /\ code \in Codes /\ code # 7
  <2>1. genX = FALSE /\ code = 0
    BY Zenon DEF ObjInit
  <2>2. 0 \in Codes /\ 0 # 7
    BY SMT DEF Codes
  <2> QED  BY <2>1, <2>2, Zenon
<1>5. CaughtAtBottom
  BY <1>2, Zenon DEF CaughtAtBottom
<1> QED  BY <1>2, <1>3, <1>4, <1>5, Zenon DEF ObjInv, StaysInLane

LEMMA GenerateCode ==
  ASSUME ObjInv, Generate
  PROVE  code' \in Codes /\ code' # 7
<1>1. code \in Codes /\ code # 7
  BY Zenon DEF ObjInv, StaysInLane
<1>2. code' = code \/ code' = LFSRStep(code)
  BY Zenon DEF Generate
<1> QED  BY <1>1, <1>2, LFSRCodes, Zenon

LEMMA ObjResetStep ==
  ASSUME ObjInv, ResetObjects
  PROVE  ObjInv'
<1>1. ObjReset(Obj_X_Pos', Obj_Y_Pos', exprdObjs')
  BY Zenon DEF ResetObjects
<1>2. /\ Obj_X_Pos' \in [Objs -> Int] /\ Obj_Y_Pos' \in [Objs -> Nat] /\ exprdObjs' = {}
      /\ \A i \in Objs : /\ \E c \in LaneCentres : Obj_X_Pos'[i] = SpawnX(i, c)
                         /\ Obj_Y_Pos'[i] + Obj_Height(i) < Obj_Y_Max + 3
  BY <1>1, ObjResetInv
<1>3. code' \in Codes /\ code' # 7
  BY GenerateCode, Zenon DEF ResetObjects, ObjInv, StaysInLane
<1>4. SpeedsOK' /\ genX' \in BOOLEAN
  BY Zenon DEF ResetObjects, ObjInv, SpeedsOK
<1>5. CaughtAtBottom'
  BY <1>2, Zenon DEF CaughtAtBottom
<1> QED  BY <1>2, <1>3, <1>4, <1>5, Zenon DEF ObjInv, StaysInLane

\* One frame of the objects, with whatever object the collision logic puts back.
LEMMA ObjFrameStep ==
  ASSUME ObjInv, NEW trash, NEW diff \in 1 .. 3, ObjFrame(trash, diff)
  PROVE  ObjInv'
<1>1. /\ Obj_X_Pos \in [Objs -> Int] /\ Obj_Y_Pos \in [Objs -> Nat]
      /\ Obj_Y_Motion \in [Objs -> 0 .. 3]
      /\ exprdObjs \subseteq Objs
      /\ \A i \in Objs : \E c \in LaneCentres : Obj_X_Pos[i] = SpawnX(i, c)
      /\ \A i \in Objs : Obj_Y_Pos[i] + Obj_Height(i)
                           < Obj_Y_Max + (IF i \in exprdObjs THEN 6 ELSE 3)
  BY Zenon DEF ObjInv, SpeedsOK, StaysInLane, CaughtAtBottom
<1>2. code' \in Codes /\ code' # 7
  BY GenerateCode, Zenon DEF ObjFrame
<1>3. CASE /\ trash \cup exprdObjs = {}
           /\ Obj_Y_Motion' = [i \in Objs |-> diff]
           /\ Advance
  <2>1. /\ exprdObjs = {}
        /\ genX' = FALSE /\ Obj_X_Pos' = Obj_X_Pos
        /\ exprdObjs' = exprdObjs \cup {i \in Objs : PastBottom(i)}
        /\ Obj_Y_Pos' = [i \in Objs |-> Wrap(Obj_Y_Pos[i] + Obj_Y_Motion[i])]
    BY <1>3, Zenon DEF Advance
  <2>2. ASSUME NEW i \in Objs
        PROVE  /\ Wrap(Obj_Y_Pos[i] + Obj_Y_Motion[i]) \in Nat
               /\ Wrap(Obj_Y_Pos[i] + Obj_Y_Motion[i]) + Obj_Height(i)
                    < Obj_Y_Max + (IF PastBottom(i) THEN 6 ELSE 3)
    <3>1. /\ Obj_Y_Pos[i] \in Nat /\ Obj_Y_Motion[i] \in 0 .. 3
          /\ Obj_Y_Pos[i] + Obj_Height(i) < Obj_Y_Max + 3
      BY <1>1, <2>1, Zenon
    <3>2. Obj_Height(i) \in 19 .. 60 /\ Obj_Y_Max \in Nat /\ Obj_Y_Max <= 900
      BY Sizes, ObjectsAssumption
    <3>3. Wrap(Obj_Y_Pos[i] + Obj_Y_Motion[i]) = Obj_Y_Pos[i] + Obj_Y_Motion[i]
      BY <3>1, <3>2, SMT DEF Wrap
    <3>4. PastBottom(i) <=> Obj_Y_Pos[i] + Obj_Height(i) >= Obj_Y_Max
      BY Zenon DEF PastBottom
    <3> QED  BY <3>1, <3>2, <3>3, <3>4, SMT
  <2>3. Obj_Y_Pos' \in [Objs -> Nat]
    BY <2>1, <2>2, Zenon
  <2>4. SpeedsOK'
    BY <1>3, SMT DEF SpeedsOK
  <2>5. exprdObjs' \subseteq Objs /\ \A i \in Objs : i \in exprdObjs' <=> PastBottom(i)
    BY <2>1, Zenon
  <2>6. CaughtAtBottom'
    <3> SUFFICES ASSUME NEW i \in Objs
                 PROVE  Obj_Y_Pos'[i] + Obj_Height(i)
                          < Obj_Y_Max + (IF i \in exprdObjs' THEN 6 ELSE 3)
      BY Zenon DEF CaughtAtBottom
    <3> QED  BY <2>1, <2>2, <2>5, Zenon
  <2> QED
    BY <1>1, <1>2, <2>1, <2>3, <2>4, <2>5, <2>6, Zenon DEF ObjInv, StaysInLane
<1>4. CASE LET gone == trash \cup exprdObjs IN
           /\ gone # {}
           /\ Obj_Y_Motion' = [i \in Objs |-> IF i \in gone THEN diff ELSE Obj_Y_Motion[i]]
           /\ Respawn(gone)
  <2> DEFINE gone == trash \cup exprdObjs
  <2>1. /\ Obj_Y_Motion' = [i \in Objs |-> IF i \in gone THEN diff ELSE Obj_Y_Motion[i]]
        /\ genX' = TRUE
        /\ Obj_X_Pos' = [i \in Objs |-> IF i \in gone THEN SpawnX(i, GenX(code)) ELSE Obj_X_Pos[i]]
        /\ Obj_Y_Pos' = [i \in Objs |-> IF i \in gone THEN 0 ELSE Obj_Y_Pos[i]]
        /\ exprdObjs' = exprdObjs \ gone
    BY <1>4, Zenon DEF Respawn
  <2> HIDE DEF gone
  <2>2. GenX(code) \in LaneCentres
    BY GenXLane, Zenon DEF ObjInv
  <2>3. \A i \in Objs : SpawnX(i, GenX(code)) \in Int
    <3> TAKE i \in Objs
    <3>1. SpawnX(i, GenX(code)) \in 0 .. 639
      BY <2>2, LaneOnScreen
    <3> QED  BY <3>1, SMT
  <2>4. Obj_X_Pos' \in [Objs -> Int]
    BY <1>1, <2>1, <2>3, Zenon
  <2>5. Obj_Y_Pos' \in [Objs -> Nat] /\ SpeedsOK'
    BY <1>1, <2>1, SMT DEF SpeedsOK
  <2>6. \A i \in Objs : \E c \in LaneCentres : Obj_X_Pos'[i] = SpawnX(i, c)
    BY <1>1, <2>1, <2>2, Zenon
  <2>7. exprdObjs' = {}
    BY <2>1, Zenon DEF gone
  <2>8. CaughtAtBottom'
    <3> SUFFICES ASSUME NEW i \in Objs
                 PROVE  Obj_Y_Pos'[i] + Obj_Height(i)
                          < Obj_Y_Max + (IF i \in exprdObjs' THEN 6 ELSE 3)
      BY Zenon DEF CaughtAtBottom
    <3>1. CASE i \in gone
      <4>1. Obj_Y_Pos'[i] = 0
        BY <2>1, <3>1, Zenon
      <4>2. Obj_Height(i) \in 19 .. 60 /\ Obj_Height(i) < Obj_Y_Max /\ Obj_Y_Max \in Nat
        BY Sizes, ObjectsAssumption
      <4> QED  BY <2>7, <4>1, <4>2, SMT
    <3>2. CASE i \notin gone
      <4>1. Obj_Y_Pos'[i] = Obj_Y_Pos[i] /\ i \notin exprdObjs
        BY <2>1, <3>2, Zenon DEF gone
      <4> QED  BY <1>1, <2>7, <4>1, Zenon
    <3> QED  BY <3>1, <3>2
  <2> QED
    BY <1>2, <2>1, <2>4, <2>5, <2>6, <2>7, <2>8, Zenon DEF ObjInv, StaysInLane
<1> QED
  BY <1>3, <1>4, Zenon DEF ObjFrame

LEMMA ObjInvTypes ==
  ASSUME ObjInv
  PROVE  ObjTypeOK /\ StaysOnRoad
<1>1. ASSUME NEW i \in Objs  PROVE Obj_X_Pos[i] \in 0 .. 639 /\ Obj_Y_Pos[i] \in 0 .. 1023
  <2>1. PICK c \in LaneCentres : Obj_X_Pos[i] = SpawnX(i, c)
    BY Zenon DEF ObjInv, StaysInLane
  <2>2. /\ Obj_Y_Pos[i] \in Nat
        /\ Obj_Y_Pos[i] + Obj_Height(i) < Obj_Y_Max + (IF i \in exprdObjs THEN 6 ELSE 3)
    BY Zenon DEF ObjInv, CaughtAtBottom
  <2>3. Obj_Height(i) \in 19 .. 60 /\ Obj_Y_Max \in Nat /\ Obj_Y_Max <= 900
    BY Sizes, ObjectsAssumption
  <2>4. Obj_Y_Pos[i] \in 0 .. 1023
    BY <2>2, <2>3, SMTT(20)
  <2> QED  BY <2>1, <2>4, LaneOnScreen
<1>2. Obj_X_Pos \in [Objs -> 0 .. 639] /\ Obj_Y_Pos \in [Objs -> 0 .. 1023]
  <2>1. Obj_X_Pos \in [Objs -> Int] /\ Obj_Y_Pos \in [Objs -> Nat]
    BY Zenon DEF ObjInv
  <2>2. Obj_X_Pos \in [Objs -> 0 .. 639]
    BY <1>1, <2>1
  <2>3. Obj_Y_Pos \in [Objs -> 0 .. 1023]
    BY <1>1, <2>1
  <2> QED  BY <2>2, <2>3
<1> QED
  BY <1>2, Zenon DEF ObjInv, SpeedsOK, ObjTypeOK, StaysOnRoad

\* What the objects by themselves preserve, whatever is hit.
THEOREM ObjInvariant == ObjSpec => []ObjInv
<1>1. ASSUME ObjInv, [ObjStep \/ ResetObjects]_objVars  PROVE ObjInv'
  <2>1. CASE ObjStep
    <3>1. PICK diff \in Diffs, hit \in Hits : ObjFrame(hit, diff)
      BY <2>1, Zenon DEF ObjStep
    <3>2. diff \in 1 .. 3
      BY ObjectsAssumption
    <3> QED  BY <1>1, <3>1, <3>2, ObjFrameStep
  <2>2. CASE ResetObjects
    BY <1>1, <2>2, ObjResetStep
  <2>3. CASE UNCHANGED objVars
    BY <1>1, <2>3, Zenon DEF objVars, ObjInv, SpeedsOK, StaysInLane, CaughtAtBottom
  <2> QED  BY <1>1, <2>1, <2>2, <2>3
<1> QED  BY <1>1, ObjInitInv, PTL DEF ObjSpec

\* Every position, speed and code keeps to its width, whatever the screen and
\* whichever objects are in play.
THEOREM ObjTypes == ObjSpec => []ObjTypeOK
BY ObjInvariant, ObjInvTypes, PTL

\* Every object stays in the middle of a lane and is caught within a frame of
\* passing the bottom row; the generator never locks up.
THEOREM StaysOnRoadAlways == ObjSpec => []StaysOnRoad
BY ObjInvariant, ObjInvTypes, PTL

-----------------------------------------------------------------------------
(* The star. *)

\* A star that flies is on the screen or one motion off it; while a star is live
\* nothing has been waited yet.
StarInv ==
  /\ StarTypeOK
  /\ LiveOnScreen
  /\ starLive /\ ~expired => Star_X_Pos \in -3 .. 642 /\ Star_Y_Pos \in -2 .. 481
  /\ starLive => count = 0

\* Every path that the generator can name starts on the screen.
LEMMA NewStarPaths ==
  ASSUME NEW c, NEW p \in NewStars(c)
  PROVE  p[1] \in 0 .. 599 /\ p[2] \in 0 .. 441 /\ p[3] \in {-3, 0, 3} /\ p[4] \in {-2, 0, 2}
BY SMT DEF NewStars

\* A sum of a position and a motion is a position again, and nothing wraps near the
\* screen.
LEMMA StarWrap ==
  ASSUME NEW x \in Signed, NEW m \in -3 .. 3
  PROVE  Wrap(x + m) \in Signed /\ (x \in -10 .. 700 => Wrap(x + m) = x + m)
BY SMT DEF Wrap, Signed

LEMMA StarPathOK ==
  ASSUME NEW p, PathBecomes(p),
         p[1] \in 0 .. 599, p[2] \in 0 .. 441, p[3] \in {-3, 0, 3}, p[4] \in {-2, 0, 2}
  PROVE  /\ Star_X_Pos' \in Signed /\ Star_Y_Pos' \in Signed
         /\ Star_X_Motion' \in {-3, 0, 3} /\ Star_Y_Motion' \in {-2, 0, 2}
         /\ Star_X_Pos' \in 0 .. 599 /\ Star_Y_Pos' \in 0 .. 441
<1>1. /\ Star_X_Pos' = p[1] /\ Star_Y_Pos' = p[2]
      /\ Star_X_Motion' = p[3] /\ Star_Y_Motion' = p[4]
  BY Zenon DEF PathBecomes
<1>2. p[1] \in Signed /\ p[2] \in Signed
  BY SMT DEF Signed
<1> QED  BY <1>1, <1>2, Zenon

LEMMA StarInitInv ==
  ASSUME StarInit
  PROVE  StarInv
<1>1. PICK p \in NewStars(0) : /\ Star_X_Pos = p[1] /\ Star_Y_Pos = p[2]
                               /\ Star_X_Motion = p[3] /\ Star_Y_Motion = p[4]
  BY Zenon DEF StarInit
<1>2. /\ p[1] \in 0 .. 599 /\ p[2] \in 0 .. 441
      /\ p[3] \in {-3, 0, 3} /\ p[4] \in {-2, 0, 2}
  BY NewStarPaths
<1>3. p[1] \in Signed /\ p[2] \in Signed
  BY <1>2, SMT DEF Signed
<1>4. /\ starLive = FALSE /\ spawn = TRUE /\ expired = FALSE
      /\ count = 0 /\ starCode = 0
  BY Zenon DEF StarInit
<1>5. 0 \in 0 .. StarDelay /\ 0 \in Codes
  BY StarAssumption, SMT DEF Codes
<1> QED
  BY <1>1, <1>2, <1>3, <1>4, <1>5, Zenon DEF StarInv, StarTypeOK, LiveOnScreen

LEMMA StarResetStep ==
  ASSUME StarInv, ResetStar
  PROVE  StarInv'
<1>1. PICK p \in NewStars(starCode) : PathBecomes(p)
  BY Zenon DEF ResetStar, NewPath
<1>2. /\ p[1] \in 0 .. 599 /\ p[2] \in 0 .. 441
      /\ p[3] \in {-3, 0, 3} /\ p[4] \in {-2, 0, 2}
  BY NewStarPaths
<1>3. /\ Star_X_Pos' \in Signed /\ Star_Y_Pos' \in Signed
      /\ Star_X_Motion' \in {-3, 0, 3} /\ Star_Y_Motion' \in {-2, 0, 2}
  BY <1>1, <1>2, StarPathOK
<1>4. starLive' = FALSE /\ spawn' = TRUE /\ UNCHANGED <<expired, count, starCode>>
  BY Zenon DEF ResetStar
<1> QED
  BY <1>3, <1>4, Zenon DEF StarInv, StarTypeOK, LiveOnScreen

\* One frame of the star, gathered or not.
LEMMA StarFrameStep ==
  ASSUME StarInv, NEW gathered, StarFrame(gathered)
  PROVE  StarInv'
<1>1. /\ Star_X_Pos \in Signed /\ Star_Y_Pos \in Signed
      /\ Star_X_Motion \in {-3, 0, 3} /\ Star_Y_Motion \in {-2, 0, 2}
      /\ starLive \in BOOLEAN /\ expired \in BOOLEAN /\ spawn \in BOOLEAN
      /\ count \in 0 .. StarDelay
      /\ starCode \in Codes
  BY Zenon DEF StarInv, StarTypeOK
<1>2. starCode' \in Codes
  <2>1. LFSRStep(starCode) \in Codes
    BY <1>1, SMT DEF LFSRStep, Xnor, Codes
  <2> QED  BY <1>1, <2>1, Zenon DEF StarFrame, StarGenerate
<1>3. CASE Wait(gathered)
  <2>0. count < StarDelay
    BY <1>1, <1>3, StarAssumption, SMT DEF Wait, Waited
  <2>1. /\ count < StarDelay /\ count' = count + 1
        /\ starLive' = FALSE /\ UNCHANGED <<expired, spawn>>
        /\ Star_X_Pos' = -100 /\ Star_Y_Pos' = -100
        /\ Star_X_Motion' = 0 /\ Star_Y_Motion' = 0
    BY <1>3, <2>0, SMT DEF Wait, PathBecomes
  <2>2. count' \in 0 .. StarDelay /\ -100 \in Signed
    BY <1>1, <2>1, StarAssumption, SMT DEF Signed
  <2> QED
    BY <1>1, <1>2, <2>1, <2>2, Zenon DEF StarInv, StarTypeOK, LiveOnScreen
<1>4. CASE Launch(gathered)
  <2>1. /\ starLive' = TRUE /\ expired' = FALSE /\ spawn' = TRUE /\ count' = 0
    BY <1>4, Zenon DEF Launch
  <2>2. PICK p \in NewStars(starCode) : PathBecomes(p)
    BY <1>4, Zenon DEF Launch, NewPath
  <2>3. /\ p[1] \in 0 .. 599 /\ p[2] \in 0 .. 441
        /\ p[3] \in {-3, 0, 3} /\ p[4] \in {-2, 0, 2}
    BY NewStarPaths
  <2>4. /\ Star_X_Pos' \in Signed /\ Star_Y_Pos' \in Signed
        /\ Star_X_Motion' \in {-3, 0, 3} /\ Star_Y_Motion' \in {-2, 0, 2}
        /\ Star_X_Pos' \in 0 .. 599 /\ Star_Y_Pos' \in 0 .. 441
    BY <2>2, <2>3, StarPathOK
  <2>5. /\ Star_X_Pos' \in -3 .. 642 /\ Star_Y_Pos' \in -2 .. 481
        /\ Star_X_Pos' \in -6 .. 645 /\ Star_Y_Pos' \in -4 .. 483
    BY <2>4, SMT
  <2>6. 0 \in 0 .. StarDelay
    BY StarAssumption, SMT
  <2> QED
    BY <1>2, <2>1, <2>4, <2>5, <2>6, Zenon DEF StarInv, StarTypeOK, LiveOnScreen
<1>5. CASE Fly(gathered)
  <2>1. /\ ~expired /\ spawn' = FALSE /\ UNCHANGED <<starLive, count>>
        /\ (expired' <=> OffScreen) /\ expired' \in BOOLEAN
    BY <1>5, Zenon DEF Fly, OffScreen
  <2>2. /\ Star_X_Pos' = Wrap(Star_X_Pos + Star_X_Motion)
        /\ Star_Y_Pos' = Wrap(Star_Y_Pos + Star_Y_Motion)
        /\ Star_X_Motion' = Star_X_Motion /\ Star_Y_Motion' = Star_Y_Motion
    BY <1>5, SMT DEF Fly, PathBecomes
  <2>3. Star_X_Motion \in -3 .. 3 /\ Star_Y_Motion \in -2 .. 2 /\ Star_Y_Motion \in -3 .. 3
    BY <1>1, SMT
  <2>4. Star_X_Pos' \in Signed /\ Star_Y_Pos' \in Signed
    BY <1>1, <2>2, <2>3, StarWrap, Zenon
  <2>5. StarTypeOK'
    BY <1>1, <1>2, <2>1, <2>2, <2>4, Zenon DEF StarTypeOK
  <2>6. ASSUME starLive
        PROVE  /\ Star_X_Pos' \in -6 .. 645 /\ Star_Y_Pos' \in -4 .. 483
               /\ ~OffScreen => Star_X_Pos' \in -3 .. 642 /\ Star_Y_Pos' \in -2 .. 481
    <3>1. Star_X_Pos \in -3 .. 642 /\ Star_Y_Pos \in -2 .. 481
      BY <2>1, <2>6, Zenon DEF StarInv
    <3>2. Star_X_Pos \in -10 .. 700 /\ Star_Y_Pos \in -10 .. 700
      BY <3>1, SMT
    <3>3. /\ Star_X_Pos' = Star_X_Pos + Star_X_Motion
          /\ Star_Y_Pos' = Star_Y_Pos + Star_Y_Motion
      BY <1>1, <2>2, <2>3, <3>2, StarWrap, Zenon
    <3>4. ~OffScreen => Star_X_Pos \in 0 .. 639 /\ Star_Y_Pos \in 0 .. 479
      <4>1. OffScreen <=> Unsigned(Star_Y_Pos) > 479 \/ Unsigned(Star_X_Pos) > 639
        BY Zenon DEF OffScreen, Star_X_Max, Star_Y_Max
      <4>2. Unsigned(Star_X_Pos) <= 639 => Star_X_Pos \in 0 .. 639
        BY <3>1, SMT DEF Unsigned
      <4>3. Unsigned(Star_Y_Pos) <= 479 => Star_Y_Pos \in 0 .. 479
        BY <3>1, SMT DEF Unsigned
      <4>4. Unsigned(Star_X_Pos) \in Int /\ Unsigned(Star_Y_Pos) \in Int
        BY <3>1, SMT DEF Unsigned
      <4> QED  BY <4>1, <4>2, <4>3, <4>4
    <3> QED  BY <2>3, <3>1, <3>3, <3>4, SMT
  <2>7. LiveOnScreen' /\ (starLive' => count' = 0)
        /\ (starLive' /\ ~expired' => Star_X_Pos' \in -3 .. 642 /\ Star_Y_Pos' \in -2 .. 481)
    BY <2>1, <2>6, ZenonT(30) DEF StarInv, LiveOnScreen
  <2> QED  BY <2>5, <2>7, Zenon DEF StarInv
<1> QED
  BY <1>3, <1>4, <1>5, Zenon DEF StarFrame

LEMMA StarStands == StarInv /\ UNCHANGED starVars => StarInv'
<1> SUFFICES ASSUME StarInv, UNCHANGED starVars  PROVE StarInv'
  OBVIOUS
<1>1. /\ UNCHANGED <<Star_X_Pos, Star_Y_Pos, Star_X_Motion, Star_Y_Motion>>
      /\ UNCHANGED <<starLive, expired, spawn, count, starCode>>
  BY Zenon DEF starVars, starPath
<1>2. StarTypeOK'
  <2>1. StarTypeOK
    BY Zenon DEF StarInv
  <2> QED  BY <1>1, <2>1 DEF StarTypeOK
<1>3. LiveOnScreen'
  BY <1>1, Zenon DEF StarInv, LiveOnScreen
<1> QED  BY <1>1, <1>2, <1>3, Zenon DEF StarInv

\* What the star by itself preserves, whenever it is gathered.
THEOREM StarInvariant == StarSpec => []StarInv
<1>1. ASSUME StarInv, [StarStep \/ ResetStar]_starVars  PROVE StarInv'
  <2>1. CASE StarStep
    BY <1>1, <2>1, StarFrameStep, Zenon DEF StarStep
  <2>2. CASE ResetStar
    BY <1>1, <2>2, StarResetStep
  <2>3. CASE UNCHANGED starVars
    BY <1>1, <2>3, StarStands
  <2> QED  BY <1>1, <2>1, <2>2, <2>3
<1> QED  BY <1>1, StarInitInv, PTL DEF StarSpec

\* The star's registers keep to their widths, for every delay between two stars.
THEOREM StarTypes == StarSpec => []StarTypeOK
<1>1. StarInv => StarTypeOK
  BY Zenon DEF StarInv
<1> QED  BY <1>1, StarInvariant, PTL

\* A star that can be gathered is on the screen, or left it at most two motions ago.
THEOREM LiveOnScreenAlways == StarSpec => []LiveOnScreen
<1>1. StarInv => LiveOnScreen
  BY Zenon DEF StarInv
<1> QED  BY <1>1, StarInvariant, PTL

-----------------------------------------------------------------------------
(* The whole game. *)

CarInv == NitrousConsistent /\ LaneInv /\ RoadInv /\ CarTypeOK
RulesInv == MapperInv /\ SingleBits /\ FlagsBoolean /\ Timers

\* After the reset, which leaves old edges in the registers: the car is below every
\* object and the star is not there yet.
Home == Touched(Positions) = {} /\ ~starLive

\* From the first tick after a frame edge the comparators see where everything is, and
\* from the second one the flags say so.
ContactInv ==
  /\ phase \in 0 .. TicksPerFrame
  /\ phase >= 1 => edges = Positions \/ Home
  /\ phase >= 2 /\ Playing =>
       /\ Touched(Positions) # {} => col_on
       /\ Touched(Positions) = {} /\ StarTouched(Positions) => collect

\* Every part keeps in the game the invariant that it has alone.
PartsInv == CarInv /\ ObjInv /\ StarInv /\ RulesInv /\ difficulty \in Diffs

GameInv == PartsInv /\ ContactInv

\* The comparators only speak of the objects there are.
LEMMA TouchedObjs ==
  ASSUME NEW p
  PROVE  Touched(p) \in SUBSET AllObjs
BY ObjectsAssumption, Zenon DEF Touched, AllObjs

\* The car keeps its invariants under the keys of a player of the game.
LEMMA CarFrameStep ==
  ASSUME CarInv, NEW key \in Keys, NEW slippery \in BOOLEAN, NEW loaded \in BOOLEAN,
         CarFrame(key, slippery, loaded)
  PROVE  CarInv'
<1>1. NitrousConsistent /\ LaneInv /\ RoadInv /\ CarTypeOK /\ nosMult \in {1, 2}
  BY Zenon DEF CarInv, NitrousConsistent
<1>2. /\ NitrousFrame(OnRoad /\ key = Space /\ loaded)
      /\ Throttle(key) /\ Move
  BY Zenon DEF CarFrame
<1>3. (OnRoad /\ key = Space /\ loaded) \in BOOLEAN
  OBVIOUS
<1>4. NitrousConsistent'
  BY <1>1, <1>2, <1>3, NitrousStep
<1>5. LaneInv' /\ CarTypeOK'
  BY <1>1, LaneFrame, TypeFrame
<1>6. RoadInv'
  BY <1>1, <1>2, RoadFrame
<1> QED  BY <1>4, <1>5, <1>6, Zenon DEF CarInv

LEMMA CarStarts ==
  /\ CarInit => CarInv
  /\ CarInv /\ Reset => CarInv'
<1>1. /\ Car_X_Start \in Signed /\ Car_Y_Start \in Signed /\ 0 \in Signed
      /\ 0 \in {-64, -32, -8, -4, 0, 4, 8, 32, 64} /\ 0 \in {-4, -2, -1, 0, 1, 2, 4}
      /\ Car_X_Start \in Lanes
  BY CarAssumption, SMT DEF Lanes, Signed, Car_X_Start, Car_Height
<1>2. 0 \in -4 .. 4 /\ Car_Y_Start \in -8 .. Car_Y_Start /\ ~(Car_Y_Start < -4)
      /\ 0 <= 0
  BY CarAssumption, SMT
<1>3. ASSUME CarInit  PROVE CarInv
  <2>1. NitrousConsistent
    BY <1>3, NitrousInit, Zenon DEF CarInit
  <2>2. CarTypeOK
    BY <1>1, <1>3, Zenon DEF CarInit, CarReset, NitrousReset, CarTypeOK
  <2>3. LaneInv
    BY <1>1, <1>3, Zenon DEF CarInit, CarReset, LaneInv, RestsInLane
  <2>4. RoadInv
    BY <1>2, <1>3, Zenon DEF CarInit, CarReset, RoadInv
  <2> QED  BY <2>1, <2>2, <2>3, <2>4, Zenon DEF CarInv
<1>4. ASSUME CarInv, Reset  PROVE CarInv'
  <2>1. NitrousConsistent'
    BY <1>4, NosFullAssumption, SMT DEF Reset, NitrousReset, NitrousConsistent
  <2>2. CarTypeOK'
    BY <1>1, <1>4, Zenon DEF CarInv, Reset, CarReset, NitrousReset, CarTypeOK
  <2>3. LaneInv'
    BY <1>1, <1>4, Zenon DEF Reset, CarReset, LaneInv, RestsInLane
  <2>4. RoadInv'
    BY <1>2, <1>4, Zenon DEF Reset, CarReset, RoadInv
  <2> QED  BY <2>1, <2>2, <2>3, <2>4, Zenon DEF CarInv
<1> QED  BY <1>3, <1>4

LEMMA CarStands == CarInv /\ UNCHANGED carVars => CarInv'
<1> SUFFICES ASSUME CarInv, UNCHANGED carVars  PROVE CarInv'
  OBVIOUS
<1>1. /\ UNCHANGED <<Car_X_Pos, Car_Y_Pos, CopX, CopY, Car_X_Motion, New_Lane, shifting>>
      /\ UNCHANGED <<Car_Y_Motion, nosCount, nosActive, nosLoadedIn, nosMult>>
  BY Zenon DEF carVars, posVars, shiftVars, nosVars
<1>2. NitrousConsistent'
  BY <1>1, Zenon DEF CarInv, NitrousConsistent
<1>3. CarTypeOK'
  BY <1>1, Zenon DEF CarInv, CarTypeOK
<1>4. LaneInv'
  BY <1>1, Zenon DEF CarInv, LaneInv, RestsInLane, InShift
<1>5. RoadInv'
  BY <1>1, Zenon DEF CarInv, RoadInv, BottomLine
<1> QED  BY <1>2, <1>3, <1>4, <1>5, Zenon DEF CarInv

LEMMA ObjectsStand == ObjInv /\ UNCHANGED objVars => ObjInv'
BY Zenon DEF objVars, ObjInv, SpeedsOK, StaysInLane, CaughtAtBottom

LEMMA RulesStand == RulesInv /\ UNCHANGED mapperVars => RulesInv'
BY NextInv, NextWidths, NextFlags DEF RulesInv

LEMMA RulesReset == RulesInv /\ ResetMapper => RulesInv'
BY NextInv, NextWidths, NextFlags, Zenon DEF RulesInv, MapperNext

\* A tick of the collision logic, whatever the comparators say.
LEMMA RulesTick ==
  ASSUME RulesInv, NEW contact \in SUBSET AllObjs, NEW star \in BOOLEAN,
         NEW burning \in BOOLEAN, NEW key, Tick(contact, star, burning, key)
  PROVE  RulesInv'
<1>1. MapperInv /\ SingleBits /\ FlagsBoolean /\ Timers
  BY Zenon DEF RulesInv
<1>2. Damage(Hit(contact)) /\ SpillOil(Hit(contact)) /\ RaiseShield(Hit(contact)) /\ Win
  BY Zenon DEF Tick
<1>3. MapperInv'
  BY <1>1, TickInv
<1>4. SingleBits'
  BY <1>1, TickBits
<1>5. Timers'
  BY <1>1, <1>2, TickTimers
<1>6. FlagsBoolean'
  <2>1. lost' \in BOOLEAN
    BY <1>1, <1>2, DamageFlags
  <2> QED  BY <1>1, <1>2, <2>1, Zenon DEF FlagsBoolean, Win
<1> QED  BY <1>3, <1>4, <1>5, <1>6, Zenon DEF RulesInv

\* In the row it starts from the car is below every object that starts with it.
LEMMA HomeApart == Reset /\ ResetObjects => Touched(Positions)' = {}
<1>1. ASSUME NEW i \in Objs, NEW y, y \in {0, Obj_Y_Start_1}, NEW c, c = Car_Y_Start
      PROVE  ~(Unsigned(c) <= y + Obj_Height(i))
  <2>1. Obj_Height(i) \in 19 .. 60
    BY Sizes
  <2>2. /\ Obj_Y_Start_1 + Obj_Height(i) < Car_Y_Start
        /\ Obj_Y_Start_1 \in Nat /\ Car_Y_Start \in Nat
    BY GameAssumption, CarAssumption, ObjectsAssumption
  <2> QED  BY <1>1, <2>1, <2>2, SMT DEF Unsigned
<1>2. ASSUME NEW y, y = [i \in Objs |-> IF i < 5 THEN 0 ELSE Obj_Y_Start_1], NEW i \in Objs
      PROVE  y[i] \in {0, Obj_Y_Start_1}
  BY <1>2, Zenon
<1>3. ASSUME Reset, ResetObjects  PROVE Touched(Positions)' = {}
  <2>1. Car_Y_Pos' = Car_Y_Start /\ \A i \in Objs : Obj_Y_Pos'[i] \in {0, Obj_Y_Start_1}
    BY <1>2, <1>3, Zenon DEF Reset, CarReset, ResetObjects, ObjReset
  <2>2. Positions'.car[2] = Unsigned(Car_Y_Pos')
    BY Zenon DEF Positions, Unsigned
  <2>3. \A i \in Objs : ~(Positions'.car[2] <= Obj_Y_Pos'[i] + Obj_Height(i))
    BY <1>1, <2>1, <2>2, Zenon
  <2> QED  BY <2>3, Zenon DEF Touched
<1> QED  BY <1>3

\* While nothing moves the comparators of the next tick see what those of this one do.
LEMMA NothingMoves ==
  ASSUME UNCHANGED <<carVars, objVars, starVars>>
  PROVE  /\ Positions' = Positions
         /\ Touched(Positions)' = Touched(Positions)
         /\ StarTouched(Positions)' = StarTouched(Positions)
         /\ starLive' = starLive
<1>1. UNCHANGED <<Car_X_Pos, Car_Y_Pos, Obj_X_Pos, Obj_Y_Pos, Star_X_Pos, Star_Y_Pos, starLive>>
  BY Zenon DEF carVars, posVars, objVars, starVars, starPath
<1>2. Positions' = Positions
  BY <1>1, SMT DEF Positions, Unsigned
<1>3. carBottom' = carBottom
  BY <1>1, SMT DEF carBottom, Edge, Unsigned
<1>4. Touched(Positions)' = Touched(Positions)
  BY <1>1, <1>2, <1>3, Zenon DEF Touched
<1>5. StarTouched(Positions)' = StarTouched(Positions)
  BY <1>1, <1>2, <1>3, Zenon DEF StarTouched
<1> QED  BY <1>1, <1>2, <1>4, <1>5

\* The game starts with every part at its start, before the first tick.
LEMMA GameInitInv ==
  ASSUME GameInit
  PROVE  GameInv
<1>1. /\ CarInit /\ ObjInit /\ StarInit /\ MapperInit /\ difficulty \in Diffs
      /\ phase = 0
  BY Zenon DEF GameInit
<1>2. CarInv /\ ObjInv /\ StarInv
  BY <1>1, CarStarts, ObjInitInv, StarInitInv
<1>3. RulesInv
  <2>1. SingleBits /\ FlagsBoolean
    BY <1>1, Zenon DEF MapperInit, SingleBits, FlagsBoolean
  <2>2. Timers
    BY <1>1, MapperAssumption DEF MapperInit, Timers
  <2> QED  BY <1>1, <2>1, <2>2, NewGameInv, Zenon DEF RulesInv
<1>4. ~(phase >= 1) /\ ~(phase >= 2)
  BY <1>1, SMT
<1>5. phase \in 0 .. TicksPerFrame
  BY <1>1, GameAssumption, SMT
<1> QED
  BY <1>1, <1>2, <1>3, <1>4, <1>5, Zenon DEF GameInv, PartsInv, ContactInv

LEMMA GameTickStep ==
  ASSUME GameInv, FastTick
  PROVE  GameInv'
<1>1. CarInv /\ ObjInv /\ StarInv /\ RulesInv /\ difficulty \in Diffs /\ ContactInv
  BY Zenon DEF GameInv, PartsInv
<1>2. PICK key \in {KeyR, NoKey} :
        /\ Tick(Touched(edges), StarTouched(edges), nosLoadedIn, key)
        /\ difficulty' \in Levels(key)
  BY Zenon DEF FastTick
<1>3. /\ phase < TicksPerFrame /\ phase' = phase + 1 /\ edges' = Positions
      /\ UNCHANGED carVars /\ UNCHANGED objVars /\ UNCHANGED starVars
  BY Zenon DEF FastTick
<1>4. CarInv' /\ ObjInv' /\ StarInv'
  BY <1>1, <1>3, CarStands, ObjectsStand, StarStands
<1>5. RulesInv'
  <2>1. nosLoadedIn \in BOOLEAN /\ StarTouched(edges) \in BOOLEAN
    BY <1>1, Zenon DEF CarInv, CarTypeOK, StarTouched
  <2> QED  BY <1>1, <1>2, <2>1, TouchedObjs, RulesTick
<1>6. difficulty' \in Diffs
  BY <1>1, <1>2, Zenon DEF Levels
<1>7. /\ Positions' = Positions
      /\ Touched(Positions)' = Touched(Positions)
      /\ StarTouched(Positions)' = StarTouched(Positions)
      /\ starLive' = starLive
  BY <1>3, NothingMoves
<1>8. phase' \in 0 .. TicksPerFrame /\ (phase' >= 2 => phase >= 1)
  BY <1>1, <1>3, GameAssumption, SMT DEF ContactInv
<1>9. edges' = Positions'
  BY <1>3, <1>7, Zenon
<1>10. ASSUME phase' >= 2, Playing'
       PROVE  /\ Touched(Positions)' # {} => col_on'
              /\ Touched(Positions)' = {} /\ StarTouched(Positions)' => collect'
  <2>1. edges = Positions \/ Home
    BY <1>1, <1>8, <1>10, Zenon DEF ContactInv
  <2>2. CASE edges = Positions
    <3>1. /\ Touched(edges) # {} => col_on'
          /\ Touched(edges) = {} /\ StarTouched(edges) => collect'
      BY <1>1, <1>2, <1>10, TouchedObjs, TickNotices DEF RulesInv, Playing
    <3> QED  BY <1>7, <2>2, <3>1, Zenon
  <2>3. CASE Home
    BY <1>7, <2>3, Zenon DEF Home, StarTouched
  <2> QED  BY <2>1, <2>2, <2>3
<1>11. ContactInv'
  BY <1>8, <1>9, <1>10, Zenon DEF ContactInv
<1> QED
  BY <1>4, <1>5, <1>6, <1>11, Zenon DEF GameInv, PartsInv

LEMMA GameFrameStep ==
  ASSUME GameInv, FrameEdge
  PROVE  GameInv'
<1>1. CarInv /\ ObjInv /\ StarInv /\ RulesInv /\ difficulty \in Diffs /\ ContactInv
  BY Zenon DEF GameInv, PartsInv
<1>2. /\ ObjFrame(trshdObjs, difficulty) /\ StarFrame(collect)
      /\ phase' = 0
      /\ UNCHANGED mapperVars /\ difficulty' = difficulty
  BY Zenon DEF FrameEdge
<1>3. CarInv'
  <2>1. CASE menuLive
    <3>1. UNCHANGED carVars
      BY <2>1, Zenon DEF FrameEdge
    <3> QED  BY <1>1, <3>1, CarStands
  <2>2. CASE ~menuLive
    <3>1. PICK key \in Keys : CarFrame(key, noShift, nosLoadedOut)
      <4>1. Held \cup {None} \subseteq Keys /\ {None} \subseteq Keys
        BY HeldAssumption, Zenon DEF Keys
      <4> QED  BY <2>2, <4>1, Zenon DEF FrameEdge
    <3>2. noShift \in BOOLEAN /\ nosLoadedOut \in BOOLEAN
      BY <1>1, Zenon DEF RulesInv, SingleBits
    <3> QED  BY <1>1, <3>1, <3>2, CarFrameStep
  <2> QED  BY <2>1, <2>2
<1>4. ObjInv'
  <2>1. difficulty \in 1 .. 3
    BY <1>1, ObjectsAssumption, Zenon
  <2> QED  BY <1>1, <1>2, <2>1, ObjFrameStep
<1>5. StarInv' /\ RulesInv'
  BY <1>1, <1>2, StarFrameStep, RulesStand
<1>6. ContactInv'
  <2>1. 0 \in 0 .. TicksPerFrame /\ ~(0 >= 1) /\ ~(0 >= 2)
    BY GameAssumption, SMT
  <2> QED  BY <1>2, <2>1, Zenon DEF ContactInv
<1> QED
  BY <1>1, <1>2, <1>3, <1>4, <1>5, <1>6, Zenon DEF GameInv, PartsInv

LEMMA GameReplayStep ==
  ASSUME GameInv, Replay
  PROVE  GameInv'
<1>1. CarInv /\ ObjInv /\ StarInv /\ RulesInv /\ difficulty \in Diffs
  BY Zenon DEF GameInv, PartsInv
<1>2. /\ Reset /\ ResetObjects /\ ResetStar /\ ResetMapper
      /\ phase' = TicksPerFrame - 1 /\ difficulty' = difficulty
  BY Zenon DEF Replay
<1>3. CarInv' /\ ObjInv' /\ StarInv' /\ RulesInv'
  BY <1>1, <1>2, CarStarts, ObjResetStep, StarResetStep, RulesReset
<1>4. Touched(Positions)' = {} /\ ~starLive' /\ ~StarTouched(Positions)'
  <2>1. starLive' = FALSE
    BY <1>2, Zenon DEF ResetStar
  <2> QED  BY <1>2, <2>1, HomeApart, Zenon DEF StarTouched
<1>5. phase' \in 0 .. TicksPerFrame
  BY <1>2, GameAssumption, SMT
<1>6. ContactInv'
  BY <1>4, <1>5, Zenon DEF ContactInv, Home
<1> QED
  BY <1>1, <1>2, <1>3, <1>6, Zenon DEF GameInv, PartsInv

LEMMA GameStep == GameInv /\ [GameNext]_gameVars => GameInv'
<1> SUFFICES ASSUME GameInv, [GameNext]_gameVars  PROVE GameInv'
  OBVIOUS
<1>1. CASE UNCHANGED gameVars
  <2>1. /\ UNCHANGED carVars /\ UNCHANGED objVars /\ UNCHANGED starVars
        /\ UNCHANGED mapperVars /\ UNCHANGED <<difficulty, edges, phase, col_on, collect, lost, won>>
    BY <1>1, Zenon DEF gameVars, mapperVars
  <2>2. CarInv' /\ ObjInv' /\ StarInv' /\ RulesInv' /\ difficulty' \in Diffs
    BY <2>1, CarStands, ObjectsStand, StarStands, RulesStand, Zenon DEF GameInv, PartsInv
  <2>3. ContactInv'
    <3>1. /\ Positions' = Positions
          /\ Touched(Positions)' = Touched(Positions)
          /\ StarTouched(Positions)' = StarTouched(Positions)
          /\ starLive' = starLive
      BY <2>1, NothingMoves
    <3> QED  BY <2>1, <3>1, Zenon DEF GameInv, ContactInv, Home, Playing, menuLive
  <2> QED  BY <2>2, <2>3, Zenon DEF GameInv, PartsInv
<1> QED
  BY <1>1, GameTickStep, GameFrameStep, GameReplayStep, Zenon DEF GameNext

THEOREM GameInvariant == GameSpec => []GameInv
BY GameInitInv, GameStep, PTL DEF GameSpec

\* Before every frame edge each contact there really is has been noticed, however
\* many ticks a frame has and whatever the old edges said in the first of them.
THEOREM ContactsAlwaysNoticed == GameSpec => []ContactsNoticed
<1>1. ASSUME GameInv  PROVE ContactsNoticed
  <2>1. phase = TicksPerFrame => phase >= 2
    BY GameAssumption, SMT
  <2> QED  BY <1>1, <2>1, Zenon DEF GameInv, ContactInv, ContactsNoticed
<1> QED  BY <1>1, GameInvariant, PTL

\* What each part promises alone it keeps in the game, in which the others drive it:
\* the car its lanes and the screen, the objects the road, the star the screen, and the
\* collision logic the status bar and one object put back at a time.
THEOREM PartsKeepPromises ==
  GameSpec => [](/\ RestsInLane /\ StaysOnScreen /\ StaysOnRoad /\ LiveOnScreen
                 /\ DamageWithinBar /\ OneTrashed)
<1>1. ASSUME GameInv
      PROVE  /\ RestsInLane /\ StaysOnScreen /\ StaysOnRoad /\ LiveOnScreen
             /\ DamageWithinBar /\ OneTrashed
  <2>1. RestsInLane /\ StaysOnScreen
    BY <1>1, Zenon DEF GameInv, PartsInv, CarInv, LaneInv, RoadInv, StaysOnScreen
  <2>2. StaysOnRoad
    BY <1>1, Zenon DEF GameInv, PartsInv, ObjInv, StaysOnRoad
  <2>3. LiveOnScreen
    BY <1>1, Zenon DEF GameInv, PartsInv, StarInv
  <2>4. DamageWithinBar /\ OneTrashed
    BY <1>1, Zenon DEF GameInv, PartsInv, RulesInv, MapperInv
  <2> QED  BY <2>1, <2>2, <2>3, <2>4
<1> QED  BY <1>1, GameInvariant, PTL

\* A gathered star is gone with the next frame: the delay counter is at zero while a
\* star is live, however often stars came and the game was started again.
THEOREM StarAlwaysGone == GameSpec => StarGoneOnceGathered
<1>1. ASSUME GameInv, FrameEdge, collect, starLive  PROVE ~starLive'
  <2>1. count = 0
    BY <1>1, Zenon DEF GameInv, PartsInv, StarInv
  <2>2. ~(count >= StarDelay)
    BY <2>1, StarAssumption, SMT
  <2>3. StarFrame(collect)
    BY <1>1, Zenon DEF FrameEdge
  <2> QED  BY <1>1, <2>2, <2>3, Zenon DEF StarFrame, Wait, Waited, Launch, Fly
<1>2. GameInv /\ [GameNext]_gameVars
        => [FrameEdge /\ collect /\ starLive => ~starLive']_gameVars
  BY <1>1
<1> QED
  BY <1>2, GameInvariant, PTL DEF GameSpec, StarGoneOnceGathered

-----------------------------------------------------------------------------
(* The rules and the bottle, in the game. *)

\* In the game the contacts that the rules are told of are the ones the comparators
\* find in the pixels.
GameByTheRules ==
  /\ Rules!RulesSpec
  /\ [][FastTick => Rules!Turn(Touched(edges), StarTouched(edges))]_gameVars

LEMMA GameTickOfRules ==
  ASSUME GameInv, FastTick
  PROVE  Rules!Turn(Touched(edges), StarTouched(edges))
<1>1. MapperInv /\ FlagsBoolean
  BY Zenon DEF GameInv, PartsInv, RulesInv
<1>2. PICK key \in {KeyR, NoKey} : Tick(Touched(edges), StarTouched(edges), nosLoadedIn, key)
  BY Zenon DEF FastTick
<1>3. starLive \in BOOLEAN
  BY Zenon DEF GameInv, PartsInv, StarInv, StarTypeOK
<1>4. StarTouched(edges) \in BOOLEAN
  BY <1>3, Zenon DEF StarTouched
<1> QED  BY <1>1, <1>2, <1>4, TouchedObjs, TickOfRules

\* The whole game plays by the rules: what the comparators make of the pixels in a
\* tick costs what it should and once, and what is over stays so until the next game.
THEOREM GamePlaysByTheRules == GameSpec => GameByTheRules
<1>1. GameInit => Rules!RulesInit
  BY NewGameOfRules, Zenon DEF GameInit
<1>2. GameInv /\ [GameNext]_gameVars
        => /\ [Rules!RulesNext]_Rules!rulesVars
           /\ [FastTick => Rules!Turn(Touched(edges), StarTouched(edges))]_gameVars
  <2> SUFFICES ASSUME GameInv, [GameNext]_gameVars
               PROVE  Rules!RulesNext \/ UNCHANGED Rules!rulesVars
    BY GameTickOfRules, Zenon
  <2>1. CASE FastTick
    <3>1. Rules!Turn(Touched(edges), StarTouched(edges))
      BY <2>1, GameTickOfRules
    <3>2. Touched(edges) \in SUBSET Rules!AllObjs
      BY TouchedObjs, SameKinds
    <3>3. StarTouched(edges) \in BOOLEAN
      BY Zenon DEF StarTouched, GameInv, PartsInv, StarInv, StarTypeOK
    <3> QED  BY <3>1, <3>2, <3>3, Zenon DEF Rules!RulesNext
  <2>2. CASE FrameEdge \/ UNCHANGED gameVars
    <3>1. UNCHANGED mapperVars
      BY <2>2, Zenon DEF FrameEdge, gameVars
    <3> QED  BY <3>1, Zenon DEF mapperVars, Rules!rulesVars
  <2>3. CASE Replay
    <3>1. ResetMapper
      BY <2>3, Zenon DEF Replay
    <3> QED  BY <3>1, ResetOfRules
  <2> QED  BY <2>1, <2>2, <2>3, Zenon DEF GameNext
<1> QED
  BY <1>1, <1>2, GameInvariant, PTL DEF GameSpec, GameByTheRules, Rules!RulesSpec

\* What NitrousTank promises the player, of the bottle in the game.
Bottle == INSTANCE NitrousTank WITH
            tank <- IF nosActive THEN "burning"
                    ELSE IF nosLoadedOut THEN "loaded" ELSE "empty"

OneBottleInGame ==
  Bottle!TankInit /\ [][Bottle!TankNext \/ UNCHANGED Bottle!TankVar \/ Replay]_gameVars

\* While a bottle burns the edges are stale in the first tick of a frame only, and the
\* pulse of a second bottle is over before the frame ends.
BottleInv ==
  /\ nosActive /\ phase >= 1 => edges = Positions
  /\ nosActive /\ nosLoadedOut => phase <= 2

\* From the second tick of a frame on nothing is hit while a bottle burns.
LEMMA NothingHitLater ==
  ASSUME GameInv, BottleInv, nosActive, phase >= 2
  PROVE  Hit(Touched(edges)) = {}
<1>1. ContactInv /\ phase >= 1
  BY SMT DEF GameInv, ContactInv
<1>2. edges = Positions
  BY <1>1 DEF BottleInv
<1>3. CASE menuLive
  BY <1>3, Zenon DEF Hit
<1>4. CASE ~menuLive /\ Touched(Positions) # {}
  <2>1. col_on
    BY <1>1, <1>4, Zenon DEF ContactInv, Playing
  <2> QED  BY <2>1, Zenon DEF Hit
<1>5. CASE Touched(Positions) = {}
  BY <1>2, <1>5, Zenon DEF Hit
<1> QED  BY <1>3, <1>4, <1>5

LEMMA BottleTick ==
  ASSUME GameInv, BottleInv, FastTick
  PROVE  BottleInv' /\ (Bottle!Fill \/ UNCHANGED Bottle!TankVar)
<1>1. PICK key \in {KeyR, NoKey} : Tick(Touched(edges), StarTouched(edges), nosLoadedIn, key)
  BY Zenon DEF FastTick
<1>2. /\ LoadNitrous(Hit(Touched(edges)), nosLoadedIn)
      /\ phase' = phase + 1 /\ edges' = Positions
      /\ UNCHANGED carVars /\ UNCHANGED objVars /\ UNCHANGED starVars
  BY <1>1, Zenon DEF Tick, FastTick
<1>3. nosActive' = nosActive
  BY <1>2, Zenon DEF carVars, nosVars
<1>4. /\ nosActive <=> ~nosLoadedIn
      /\ nosActive \in BOOLEAN /\ nosLoadedOut \in BOOLEAN
  BY Zenon DEF GameInv, PartsInv, CarInv, RulesInv, NitrousConsistent, CarTypeOK, SingleBits
<1>5. phase \in Nat
  BY GameAssumption, SMT DEF GameInv, ContactInv
<1>6. edges' = Positions'
  <2>1. Positions' = Positions
    BY <1>2, NothingMoves
  <2> QED  BY <1>2, <2>1, Zenon
<1>7. ASSUME nosActive', nosLoadedOut'  PROVE phase' <= 2
  <2>1. Hit(Touched(edges)) # {}
    BY <1>2, <1>3, <1>4, <1>7, Zenon DEF LoadNitrous
  <2>2. ~(phase >= 2)
    BY <1>3, <1>7, <2>1, NothingHitLater
  <2> QED  BY <1>2, <1>5, <2>2, SMT
<1>8. BottleInv'
  BY <1>6, <1>7, Zenon DEF BottleInv
<1>9. CASE nosActive
  BY <1>3, <1>8, <1>9, Zenon DEF Bottle!TankVar
<1>10. CASE ~nosActive /\ nosLoadedOut
  <2>1. nosLoadedOut'
    BY <1>2, <1>4, <1>10, Zenon DEF LoadNitrous
  <2> QED  BY <1>3, <1>8, <1>10, <2>1, Zenon DEF Bottle!TankVar
<1>11. CASE ~nosActive /\ ~nosLoadedOut
  BY <1>3, <1>8, <1>11, Zenon DEF Bottle!Fill, Bottle!TankVar
<1> QED  BY <1>4, <1>8, <1>9, <1>10, <1>11, Zenon

LEMMA BottleFrame ==
  ASSUME GameInv, BottleInv, FrameEdge
  PROVE  /\ BottleInv'
         /\ Bottle!Light \/ Bottle!RunDry \/ UNCHANGED Bottle!TankVar
<1>1. phase = TicksPerFrame /\ phase' = 0 /\ nosLoadedOut' = nosLoadedOut
  BY Zenon DEF FrameEdge, mapperVars
<1>2. BottleInv'
  BY <1>1, SMT DEF BottleInv
<1>3. CASE menuLive
  <2>1. nosActive' = nosActive
    BY <1>3, Zenon DEF FrameEdge, carVars, nosVars
  <2> QED  BY <1>1, <1>2, <2>1, Zenon DEF Bottle!TankVar
<1>4. CASE ~menuLive
  <2>1. PICK key : CarFrame(key, noShift, nosLoadedOut)
    BY <1>4, Zenon DEF FrameEdge
  <2> DEFINE fire == OnRoad /\ key = Space /\ nosLoadedOut
  <2>2. NitrousFrame(fire)
    BY <2>1, Zenon DEF CarFrame
  <2>3. fire => nosLoadedOut
    OBVIOUS
  <2> HIDE DEF fire
  <2>4. CASE Coast(fire)
    BY <1>1, <1>2, <2>4, Zenon DEF Coast, nosVars, Bottle!TankVar
  <2>5. CASE Ignite(fire)
    BY <1>1, <1>2, <2>3, <2>5, Zenon DEF Ignite, Bottle!Light
  <2>6. CASE Burn(fire)
    BY <1>1, <1>2, <2>6, Zenon DEF Burn, Bottle!TankVar
  <2>7. CASE BurnOut
    <3>1. ~(phase <= 2)
      BY <1>1, GameAssumption, SMT
    <3>2. ~nosLoadedOut
      BY <2>7, <3>1, Zenon DEF BottleInv, BurnOut
    <3> QED  BY <1>1, <1>2, <2>7, <3>2, Zenon DEF BurnOut, Bottle!RunDry
  <2> QED  BY <2>2, <2>4, <2>5, <2>6, <2>7, Zenon DEF NitrousFrame
<1> QED  BY <1>3, <1>4

\* In the whole game too there is room for one bottle, filled once and lit once: a
\* bottle that the car passes while another burns is lost, at every number of ticks
\* between two frames from three on.
THEOREM OneBottleInGameAlways == GameSpec => OneBottleInGame
<1>1. GameInit => Bottle!TankInit /\ BottleInv
  <2> SUFFICES ASSUME GameInit  PROVE Bottle!TankInit /\ BottleInv
    OBVIOUS
  <2>1. nosActive = FALSE /\ nosLoadedOut = FALSE
    BY Zenon DEF GameInit, CarInit, CarReset, NitrousReset, MapperInit
  <2> QED  BY <2>1, Zenon DEF Bottle!TankInit, BottleInv
<1>2. ASSUME GameInv, BottleInv, Replay  PROVE BottleInv'
  <2>1. nosActive' = FALSE
    BY <1>2, Zenon DEF Replay, Reset, CarReset, NitrousReset
  <2> QED  BY <2>1, Zenon DEF BottleInv
<1>3. ASSUME GameInv, BottleInv, UNCHANGED gameVars  PROVE BottleInv'
  <2>1. /\ UNCHANGED <<carVars, objVars, starVars>> /\ UNCHANGED mapperVars
        /\ UNCHANGED <<edges, phase>>
    BY <1>3, Zenon DEF gameVars
  <2>2. UNCHANGED <<nosActive, nosLoadedOut, edges, phase>> /\ Positions' = Positions
    BY <2>1, NothingMoves, Zenon DEF carVars, nosVars, mapperVars
  <2> QED  BY <1>3, <2>2, Zenon DEF BottleInv
<1>4. GameInv /\ BottleInv /\ [GameNext]_gameVars => BottleInv'
  BY <1>2, <1>3, BottleTick, BottleFrame, Zenon DEF GameNext
<1>5. GameInv /\ BottleInv /\ [GameNext]_gameVars
        => [Bottle!TankNext \/ UNCHANGED Bottle!TankVar \/ Replay]_gameVars
  BY BottleTick, BottleFrame, Zenon DEF GameNext, Bottle!TankNext
<1> QED
  BY <1>1, <1>4, <1>5, GameInvariant, PTL DEF GameSpec, OneBottleInGame
=============================================================================
