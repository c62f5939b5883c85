--------------------------- MODULE LaneGenerator ----------------------------
(***************************************************************************)
(* generateX.sv: the three-bit shift register of LFSR.sv, whose feedback   *)
(* is the XNOR of its two upper bits, and the lane centre each code names. *)
(***************************************************************************)
EXTENDS Integers

Codes == 0 .. 7

Xnor(a, b) == IF a = b THEN 1 ELSE 0

\* {r[2:1], r[3] xnor r[2]} for a code whose bits are r[3:1].
LFSRStep(code) == ((2 * code) % 8) + Xnor(code \div 4, (code \div 2) % 2)

LaneCentres == {64, 192, 320, 448, 576}

GenX_SixthLane(code) ==
  CASE code \in {0, 5} -> 64
    [] code = 1        -> 192
    [] code \in {2, 6} -> 320
    [] code = 3        -> 448
    [] code \in {4, 7} -> 704

\* generateX's table: two lanes have two codes each.
GenX(code) ==
  CASE code \in {0, 5} -> 64
    [] code = 1        -> 192
    [] code \in {2, 6} -> 320
    [] code = 3        -> 448
    [] code \in {4, 7} -> 576
=============================================================================
