---------------------------- MODULE NitrousTank -----------------------------
(***************************************************************************)
(* What the nitrous handshake between the collision logic and the car      *)
(* promises the player: room for one bottle, filled by a pick-up, lit once,*)
(* and empty again when it has burnt out.                                  *)
(***************************************************************************)
VARIABLE tank

TankVar == tank

Fill    == tank = "empty"   /\ tank' = "loaded"
Light   == tank = "loaded"  /\ tank' = "burning"
RunDry  == tank = "burning" /\ tank' = "empty"

TankInit == tank = "empty"
TankNext == Fill \/ Light \/ RunDry
TankSpec == TankInit /\ [][TankNext]_tank
=============================================================================
