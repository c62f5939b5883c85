---------------------------- MODULE ColorMapper -----------------------------
(***************************************************************************)
(* The rules of the game as Color_Mapper.sv keeps them: which object the   *)
(* car hit, the damage, the stars, the pick-ups and their timers, and the  *)
(* end of the game.  One step is one edge of the 50 MHz clock, hundreds of *)
(* thousands of which pass between two frames.                             *)
(*                                                                         *)
(* What the comparators say is an input: "contact" is the set of objects   *)
(* whose rectangle meets the car's, "star" whether a live star's does.     *)
(* trshdObjs, eight bits in the source, is the set of its raised bits.     *)
(***************************************************************************)
EXTENDS Integers, RoadObjects

CONSTANTS
  OilFull,            \* ticks an oil spill lasts (100000000 in the source)
  InvFull,            \* reload of the shield's timer (400000000 in the source)
  Contacts            \* the sets of objects the car may touch at once

KeyR == 21            \* the replay key
NoKey == 0

ASSUME MapperAssumption ==
  /\ OilFull \in Nat /\ InvFull \in Nat
  /\ Contacts \subseteq SUBSET AllObjs

VARIABLES
  col_on,             \* the car is in a contact that has been dealt with
  trshdObjs,          \* the object that objects.sv has to put back
  damage,             \* damage taken: 4 is the last life
  lost, won,          \* the end of the game
  stars,              \* stars gathered, two bits
  collect,            \* the star in contact has been gathered
  nosLoadedOut,       \* a bottle is ready
  noShift, oilCount,  \* the car is on oil, and for how long still
  inv, invCount,      \* the shield is up; invCount runs all the time
  replay              \* the player asked for another game

mapperVars == <<col_on, trshdObjs, damage, lost, won, stars, collect,
                nosLoadedOut, noShift, oilCount, inv, invCount, replay>>

menuLive == lost \/ won

-----------------------------------------------------------------------------
(* The priority chain of the collision tests.                              *)

Hit_InMenu(contact) ==
  {i \in contact : /\ \A j \in contact : i <= j
                   /\ ~col_on
                   /\ trshdObjs = {}}

\* The contact that is dealt with: the first of the chain, when the last one is
\* over.  While an earlier object of the chain is in contact, later ones wait.
Hit(contact) ==
  {i \in contact : /\ \A j \in contact : i <= j
                   /\ ~col_on
                   /\ trshdObjs = {}
                   /\ ~menuLive}

Strike(hit) ==
  /\ hit # {}
  /\ col_on' = TRUE
  /\ trshdObjs' = hit
  /\ UNCHANGED <<collect, stars>>

Hold_Releases(contact, hit) ==
  /\ contact # {}
  /\ hit = {}
  /\ col_on' = FALSE /\ trshdObjs' = {}
  /\ UNCHANGED <<collect, stars>>

\* A contact already dealt with, or one that the end of the game disarms.
Hold(contact, hit) ==
  /\ contact # {}
  /\ hit = {}
  /\ UNCHANGED <<col_on, trshdObjs, collect, stars>>

Gather_EveryTick(contact, star) ==
  /\ contact = {}
  /\ star
  /\ ~menuLive
  /\ collect' = TRUE
  /\ stars' = (stars + 1) % 4
  /\ UNCHANGED <<col_on, trshdObjs>>

Gather(contact, star) ==
  /\ contact = {}
  /\ star
  /\ ~menuLive
  /\ collect' = TRUE
  /\ stars' = IF collect THEN stars ELSE (stars + 1) % 4
  /\ UNCHANGED <<col_on, trshdObjs>>

Release(contact, star) ==
  /\ contact = {}
  /\ ~(star /\ ~menuLive)
  /\ collect' = FALSE
  /\ col_on' = FALSE
  /\ trshdObjs' = {}
  /\ UNCHANGED stars

Collide(contact, star, hit) ==
  Strike(hit) \/ Hold(contact, hit) \/ Gather(contact, star) \/ Release(contact, star)

-----------------------------------------------------------------------------
(* Damage.  The last life is lost whether or not the shield is up.         *)

Hurt_NoLimit(points, last) ==
  /\ damage' = IF inv THEN damage ELSE damage + points
  /\ UNCHANGED lost

Hurt(points, last) ==
  IF damage >= last
    THEN lost' = TRUE /\ UNCHANGED damage
    ELSE damage' = (IF inv THEN damage ELSE damage + points) /\ UNCHANGED lost

Heal == damage' = (IF damage > 0 THEN damage - 1 ELSE 0) /\ UNCHANGED lost

Damage(hit) ==
  \/ hit \cap {Rock, Tree, Cone} # {} /\ Hurt(1, 4)
  \/ Barrel \in hit /\ Hurt(2, 3)
  \/ Life \in hit /\ Heal
  \/ hit \cap {Rock, Tree, Cone, Barrel, Life} = {} /\ UNCHANGED <<damage, lost>>

-----------------------------------------------------------------------------
(* Pick-ups and their timers.  In each block the later assignment wins.    *)

LoadNitrous_NotCleared(hit, nosLoadedIn) ==
  nosLoadedOut' = (Nos \in hit \/ nosLoadedOut)

\* A bottle picked up while one is loaded or burning is lost: the line is
\* lowered in every tick in which the car is burning, but for the one in which
\* the second bottle raises it.
LoadNitrous(hit, nosLoadedIn) ==
  nosLoadedOut' = IF Nos \in hit /\ ~nosLoadedOut THEN TRUE
                  ELSE nosLoadedOut /\ nosLoadedIn

SpillOil_NoReload(hit) ==
  IF noShift
    THEN /\ noShift' = (oilCount > 0)
         /\ oilCount' = IF oilCount > 0 THEN oilCount - 1 ELSE oilCount
    ELSE /\ noShift' = (Oil \in hit)
         /\ UNCHANGED oilCount

SpillOil_Forever(hit) ==
  /\ noShift' = (noShift \/ Oil \in hit)
  /\ oilCount' = IF noShift THEN (IF oilCount > 0 THEN oilCount - 1 ELSE OilFull) ELSE oilCount

\* A second spill does not prolong the first, and one met in the very tick in
\* which the first wears off has no effect.
SpillOil(hit) ==
  IF noShift
    THEN /\ noShift' = (oilCount > 0)
         /\ oilCount' = IF oilCount > 0 THEN oilCount - 1 ELSE OilFull
    ELSE /\ noShift' = (Oil \in hit)
         /\ UNCHANGED oilCount

\* The timer is never set by a pick-up: it runs round, and lowers whatever
\* shield is up when it comes to zero.
RaiseShield(hit) ==
  IF invCount > 0
    THEN inv' = (Shield \in hit \/ inv) /\ invCount' = invCount - 1
    ELSE inv' = FALSE /\ invCount' = InvFull

Win_Never == UNCHANGED won

Win == won' = IF stars >= 3 THEN TRUE ELSE won

AskReplay(key) == replay' = ((key = KeyR /\ menuLive) \/ replay)

-----------------------------------------------------------------------------

Tick(contact, star, nosLoadedIn, key) ==
  LET hit == Hit(contact) IN
  /\ Collide(contact, star, hit)
  /\ Damage(hit)
  /\ LoadNitrous(hit, nosLoadedIn)
  /\ SpillOil(hit)
  /\ RaiseShield(hit)
  /\ Win
  /\ AskReplay(key)

MapperInit ==
  /\ col_on = FALSE /\ trshdObjs = {} /\ damage = 0 /\ lost = FALSE /\ won = FALSE
  /\ stars = 0 /\ collect = FALSE /\ nosLoadedOut = FALSE
  /\ noShift = FALSE /\ oilCount = OilFull
  /\ inv = FALSE /\ invCount = InvFull /\ replay = FALSE

\* The asynchronous reset: the push button, or replay, which clears itself so.
ResetMapper ==
  /\ col_on' = FALSE /\ trshdObjs' = {} /\ damage' = 0 /\ lost' = FALSE /\ won' = FALSE
  /\ stars' = 0 /\ collect' = FALSE /\ nosLoadedOut' = FALSE
  /\ noShift' = FALSE /\ oilCount' = OilFull
  /\ inv' = FALSE /\ invCount' = InvFull /\ replay' = FALSE

\* The logic alone, with comparators that may say anything at every tick.
TickOn(contact, star) ==
  \E nosLoadedIn \in BOOLEAN, key \in {KeyR, NoKey} : Tick(contact, star, nosLoadedIn, key)

MapperTick ==
  /\ ~replay
  /\ \E contact \in Contacts, star \in BOOLEAN : TickOn(contact, star)

MapperNext == MapperTick \/ ResetMapper

MapperSpec == MapperInit /\ [][MapperNext]_mapperVars /\ WF_mapperVars(MapperTick)
                         /\ WF_mapperVars(replay /\ ResetMapper)

-----------------------------------------------------------------------------
(* Properties. *)

MapperTypeOK ==
  /\ col_on \in BOOLEAN /\ trshdObjs \subseteq AllObjs
  /\ damage \in 0 .. 7 /\ lost \in BOOLEAN /\ won \in BOOLEAN
  /\ stars \in 0 .. 3 /\ collect \in BOOLEAN
  /\ nosLoadedOut \in BOOLEAN
  /\ noShift \in BOOLEAN /\ oilCount \in 0 .. OilFull
  /\ inv \in BOOLEAN /\ invCount \in 0 .. InvFull
  /\ replay \in BOOLEAN

\* The three-bit damage counter, raised by one or by two and lowered by one,
\* stays within the five pictures of the status bar: the larger step of a barrel
\* is taken only from the damage that leaves room for it.
DamageWithinBar == damage \in 0 .. 4

\* At most one object is being put back, and exactly while the contact with it
\* is latched; objects.sv holds every other object still meanwhile.
OneTrashed ==
  /\ \A i, j \in trshdObjs : i = j
  /\ col_on <=> trshdObjs # {}

\* The two-bit star counter never wraps: the third star ends the game before a
\* fourth one can be counted.
StarsNeverWrap ==
  [][stars' >= stars \/ ResetMapper]_mapperVars

\* The inductive form of it: a third star wins, or it was counted only now, still
\* latched and in a game that was not lost before.
ThirdStarLatched == stars = 3 => won \/ (collect /\ ~lost)

\* Once the game is over nothing the car touches counts, until the next game.
OverIsOver ==
  [][menuLive => UNCHANGED <<damage, stars>> \/ ResetMapper]_mapperVars

\* Oil: the timer is full whenever no oil is on the wheels, so that every spill
\* lasts its full time.
OilTimerReady == ~noShift => oilCount = OilFull

\* What every step preserves.
MapperInv ==
  /\ DamageWithinBar
  /\ OneTrashed
  /\ ThirdStarLatched
  /\ OilTimerReady
  /\ stars \in 0 .. 3

\* The wheels come clean and the shield goes down, however often both are met.
TimersRunOut ==
  /\ noShift ~> ~noShift
  /\ inv ~> ~inv

\* Three stars win, unless the player resets the game.
ThreeStarsWin == (stars = 3) ~> (won \/ stars = 0)

\* The tick-by-tick logic plays by the rules: with what the comparators say in a
\* tick, the tick is a turn of the rules.  The object that counts costs what its kind
\* costs, it counts once until the car is clear of everything, a contact is never
\* passed over, a star and a contact never count in the same tick, the tick that sees
\* three stars wins even when the last life is lost in it, and what is over stays so.
\* (The priority chain of Color_Mapper.sv, col_on and trshdObjs, damage and its two
\* thresholds, inv, collect, the two-bit stars.)
Rules == INSTANCE GameRules WITH
           lives     <- IF lost THEN 0 ELSE 5 - damage,
           starsHeld <- stars,
           gameLost  <- lost,
           gameWon   <- won,
           struck    <- trshdObjs,
           gathering <- collect,
           shielded  <- inv

PlaysByTheRules ==
  /\ Rules!RulesSpec
  /\ [][\A contact \in Contacts, star \in BOOLEAN :
          TickOn(contact, star) => Rules!Turn(contact, star)]_mapperVars

=============================================================================
