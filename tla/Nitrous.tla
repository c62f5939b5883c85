------------------------------ MODULE Nitrous -------------------------------
(***************************************************************************)
(* The nitrous boost of car.sv.  The collision logic (Color_Mapper.sv)     *)
(* raises nosLoadedOut when the car picks up a bottle; the driver lights   *)
(* it with the space bar; while it burns nosLoadedIn is low, which makes   *)
(* the collision logic drop nosLoadedOut again.                            *)
(***************************************************************************)
EXTENDS Integers

CONSTANT NosFull      \* frames one bottle burns (200 in the source)

ASSUME NosFullAssumption == NosFull \in 1 .. 255     \* nosCount has 8 bits

VARIABLES
  nosCount,           \* frames left in the burning bottle
  nosActive,          \* a bottle is burning
  nosLoadedIn,        \* tells the collision logic that no bottle is in use
  nosMult             \* speed multiplier of the steering

nosVars == <<nosCount, nosActive, nosLoadedIn, nosMult>>

NitrousReset(count, active, loadedIn, mult) ==
  /\ count = NosFull
  /\ active = FALSE
  /\ loadedIn = TRUE
  /\ mult = 1

Coast(fire) ==
  /\ ~nosActive
  /\ ~fire
  /\ UNCHANGED nosVars

Ignite(fire) ==
  /\ ~nosActive
  /\ fire
  /\ nosActive' = TRUE
  /\ nosLoadedIn' = FALSE
  /\ UNCHANGED <<nosCount, nosMult>>

Burn(fire) ==
  /\ nosActive
  /\ nosCount > 0
  /\ nosMult' = 2
  /\ nosCount' = nosCount - 1
  /\ nosLoadedIn' = IF fire THEN FALSE ELSE nosLoadedIn
  /\ UNCHANGED nosActive

\* The multiplier is not put back.
BurnOut_KeepsMultiplier ==
  /\ nosActive
  /\ nosCount = 0
  /\ nosCount' = NosFull
  /\ nosActive' = FALSE
  /\ nosLoadedIn' = TRUE
  /\ UNCHANGED nosMult

BurnOut ==
  /\ nosActive
  /\ nosCount = 0
  /\ nosMult' = 1
  /\ nosCount' = NosFull
  /\ nosActive' = FALSE
  /\ nosLoadedIn' = TRUE

\* One frame of the boost; "fire" is the space bar reaching the key decoder
\* while a bottle is loaded.
NitrousFrame(fire) == Coast(fire) \/ Ignite(fire) \/ Burn(fire) \/ BurnOut

\* The four registers agree: the handshake line mirrors the burning state, and
\* outside a burn the counter is full and the steering runs at normal speed.
NitrousConsistent ==
  /\ nosActive <=> ~nosLoadedIn
  /\ nosCount \in 0 .. NosFull
  /\ nosMult \in {1, 2}
  /\ ~nosActive => nosCount = NosFull /\ nosMult = 1
  /\ nosCount < NosFull => nosMult = 2
=============================================================================
