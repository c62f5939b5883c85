---------------------------- MODULE RoadObjects -----------------------------
(***************************************************************************)
(* The eight kinds of objects on the road, by the index that objects.sv    *)
(* and Color_Mapper.sv give them, with their sizes and places.             *)
(***************************************************************************)
EXTENDS Integers

Rock   == 0
Tree   == 1
Barrel == 2
Nos    == 3
Life   == 4
Cone   == 5
Oil    == 6
Shield == 7

AllObjs == 0 .. 7

Obj_Width(i) ==
  CASE i = Rock -> 32
    [] i \in {Tree, Oil} -> 64
    [] i \in {Barrel, Life, Cone, Shield} -> 40
    [] i = Nos -> 36

Obj_Height(i) ==
  CASE i = Rock -> 19 [] i = Tree -> 57 [] i = Barrel -> 42 [] i = Nos -> 60
    [] i = Life -> 39 [] i = Cone -> 54 [] i = Oil -> 27    [] i = Shield -> 52

\* An object is centred in its lane, then moved aside by a pixel or two.
Adjust(i) ==
  CASE i \in {Tree, Barrel} -> 1
    [] i \in {Life, Oil} -> -1
    [] i = Cone -> 2
    [] i = Shield -> -2
    [] OTHER -> 0

SpawnX(i, centre) == centre - Obj_Width(i) \div 2 + Adjust(i)

StartCentre(i) ==
  CASE i \in {Rock, Cone}      -> 64
    [] i = Tree                -> 192
    [] i \in {Barrel, Shield}  -> 320
    [] i = Nos                 -> 448
    [] i \in {Life, Oil}       -> 576
=============================================================================
