------------------------------ MODULE Objects -------------------------------
(***************************************************************************)
(* The eight objects that come down the road: objects.sv.  One step is one *)
(* edge of the frame clock.  An object leaves the road when it runs past   *)
(* the bottom (exprdObjs, kept here) or when the car hit it (trshdObjs,    *)
(* raised by the collision logic); it is then put back at the top, in the  *)
(* lane that the generator names.                                          *)
(***************************************************************************)
EXTENDS Integers, FiniteSets, Word11, LaneGenerator, RoadObjects

CONSTANTS
  Objs,               \* the objects in play: 0..7 in the source
  Diffs,              \* the speeds in play: 1..3 in the source
  Obj_Y_Max,          \* bottom row (479 in the source)
  Obj_Y_Start_1,      \* row in which objects 5 to 7 start (160 in the source)
  Trash               \* may the car hit objects?

ASSUME ObjectsAssumption ==
  /\ Objs \subseteq 0 .. 7 /\ IsFiniteSet(Objs)
  /\ Diffs \subseteq 1 .. 3
  /\ Obj_Y_Start_1 \in Nat /\ Obj_Y_Max \in Nat
  /\ Trash \in BOOLEAN
  /\ Obj_Y_Max <= 900
  /\ \A i \in Objs : Obj_Height(i) < Obj_Y_Max /\ Obj_Y_Start_1 + Obj_Height(i) < Obj_Y_Max + 3

VARIABLES
  Obj_X_Pos, Obj_Y_Pos, Obj_Y_Motion,    \* functions on Objs
  exprdObjs,          \* the set of objects past the bottom
  genX,               \* enables the generator at the next frame
  code                \* the generator's register

objVars == <<Obj_X_Pos, Obj_Y_Pos, Obj_Y_Motion, exprdObjs, genX, code>>

PastBottom_TopRow(i) == Obj_Y_Pos[i] >= Obj_Y_Max

PastBottom(i) == Obj_Y_Pos[i] + Obj_Height(i) >= Obj_Y_Max

\* The generator's own flip-flops: it sees the enable of the frame before.
Generate == code' = IF genX THEN LFSRStep(code) ELSE code

Advance ==
  /\ genX' = FALSE
  /\ exprdObjs' = exprdObjs \cup {i \in Objs : PastBottom(i)}
  /\ Obj_Y_Pos' = [i \in Objs |-> Wrap(Obj_Y_Pos[i] + Obj_Y_Motion[i])]
  /\ UNCHANGED Obj_X_Pos

Respawn_KeepsFlags(gone) ==
  /\ genX' = TRUE
  /\ Obj_X_Pos' = [i \in Objs |-> IF i \in gone THEN SpawnX(i, GenX(code)) ELSE Obj_X_Pos[i]]
  /\ Obj_Y_Pos' = [i \in Objs |-> IF i \in gone THEN 0 ELSE Obj_Y_Pos[i]]
  /\ UNCHANGED exprdObjs

Respawn(gone) ==
  /\ genX' = TRUE
  /\ Obj_X_Pos' = [i \in Objs |-> IF i \in gone THEN SpawnX(i, GenX(code)) ELSE Obj_X_Pos[i]]
  /\ Obj_Y_Pos' = [i \in Objs |-> IF i \in gone THEN 0 ELSE Obj_Y_Pos[i]]
  /\ exprdObjs' = exprdObjs \ gone

\* While anything is being put back, everything else stands still.
ObjFrame(trshdObjs, diff) ==
  /\ Generate
  /\ \/ /\ trshdObjs \cup exprdObjs = {}
        /\ Obj_Y_Motion' = [i \in Objs |-> diff]
        /\ Advance
     \/ LET gone == trshdObjs \cup exprdObjs IN
        /\ gone # {}
        /\ Obj_Y_Motion' = [i \in Objs |-> IF i \in gone THEN diff ELSE Obj_Y_Motion[i]]
        /\ Respawn(gone)

ObjReset(x, y, exprd) ==
  /\ x = [i \in Objs |-> SpawnX(i, StartCentre(i))]
  /\ y = [i \in Objs |-> IF i < 5 THEN 0 ELSE Obj_Y_Start_1]
  /\ exprd = {}

ObjInit ==
  /\ ObjReset(Obj_X_Pos, Obj_Y_Pos, exprdObjs)
  /\ Obj_Y_Motion = [i \in Objs |-> 0]     \* power-up values: no reset drives
  /\ genX = FALSE /\ code = 0              \* these three

\* The reset may be held over a frame edge, which still clocks the generator.
ResetObjects ==
  /\ ObjReset(Obj_X_Pos', Obj_Y_Pos', exprdObjs')
  /\ code' = code \/ Generate
  /\ UNCHANGED <<Obj_Y_Motion, genX>>

\* The objects alone: the collision logic raises at most one bit at a time.
Hits == {{}} \cup (IF Trash THEN {{i} : i \in Objs} ELSE {})

ObjStep == \E diff \in Diffs, hit \in Hits : ObjFrame(hit, diff)

ObjSpec == ObjInit /\ [][ObjStep \/ ResetObjects]_objVars /\ WF_objVars(ObjStep)

-----------------------------------------------------------------------------
(* Properties. *)

ObjTypeOK ==
  /\ Obj_X_Pos \in [Objs -> 0 .. 639]
  /\ Obj_Y_Pos \in [Objs -> 0 .. 1023]
  /\ Obj_Y_Motion \in [Objs -> 0 .. 3]
  /\ exprdObjs \subseteq Objs
  /\ genX \in BOOLEAN /\ code \in Codes

\* The generator never reaches the code from which it could not leave, and every
\* object stays in the middle of one of the five lanes, give or take its pixels.
StaysInLane ==
  /\ code # 7
  /\ \A i \in Objs : \E c \in LaneCentres : Obj_X_Pos[i] = SpawnX(i, c)

\* An object is caught within one frame of passing the bottom, though other
\* objects being put back may hold the frame up, and though a reset leaves the
\* speeds of the last game behind.
CaughtAtBottom ==
  \A i \in Objs : Obj_Y_Pos[i] + Obj_Height(i) < Obj_Y_Max + (IF i \in exprdObjs THEN 6 ELSE 3)

\* Both at once: an object is in a lane of the road at every row it can have.
StaysOnRoad == StaysInLane /\ CaughtAtBottom

\* Unless hits keep coming, every object keeps coming back to the top.
Circulates ==
  <>[][\E diff \in Diffs : ObjFrame({}, diff)]_objVars
    => \A i \in Objs : []<>(Obj_Y_Pos[i] = 0)
=============================================================================
