------------------------- MODULE ColorMapper_proofs --------------------------
(***************************************************************************)
(* The collision logic keeps its promises for every set of contacts the    *)
(* comparators may report and for every length of the two timers.          *)
(***************************************************************************)
EXTENDS ColorMapper, TLAPS

\* The priority chain picks at most one object, and none while a contact is
\* latched or the game is over.
LEMMA HitOne ==
  ASSUME NEW contact \in SUBSET AllObjs
  PROVE  /\ Hit(contact) \subseteq AllObjs
         /\ \A i, j \in Hit(contact) : i = j
         /\ Hit(contact) # {} => ~menuLive /\ ~col_on /\ contact # {}
<1>1. \A i \in Hit(contact) :
        i \in contact /\ (\A j \in contact : i <= j) /\ ~col_on /\ ~menuLive
  BY Zenon DEF Hit
<1>2. \A i, j \in AllObjs : i <= j /\ j <= i => i = j
  BY DEF AllObjs
<1> QED BY <1>1, <1>2, Zenon

\* A new game satisfies the invariant.
LEMMA NewGameInv == MapperInit => MapperInv
<1>1. 0 \in 0 .. 4 /\ 0 \in 0 .. 3 /\ 0 # 3
  OBVIOUS
<1> QED
  BY <1>1, Zenon DEF MapperInit, MapperInv, DamageWithinBar, OneTrashed, ThirdStarLatched, OilTimerReady

\* So does a game after a reset, whatever came before.
LEMMA ResetInv == ResetMapper => MapperInv'
<1>1. 0 \in 0 .. 4 /\ 0 \in 0 .. 3 /\ 0 # 3
  OBVIOUS
<1> QED
  BY <1>1, Zenon DEF ResetMapper, MapperInv, DamageWithinBar, OneTrashed, ThirdStarLatched, OilTimerReady

\* An obstacle takes its points only where they fit.
LEMMA HurtBounded ==
  ASSUME damage \in 0 .. 4,
         NEW points \in Nat, NEW last \in Nat, points + last <= 5, Hurt(points, last)
  PROVE  damage' \in 0 .. 4
<1>1. CASE damage >= last
  BY <1>1 DEF Hurt
<1>2. CASE ~(damage >= last)
  <2>1. damage' = IF inv THEN damage ELSE damage + points
    BY <1>2, Zenon DEF Hurt
  <2>2. damage \in 0 .. 4 /\ damage + points \in 0 .. 4
    BY <1>2
  <2> QED BY <2>1, <2>2, Zenon
<1> QED BY <1>1, <1>2

\* Damage stays within the bar, and without a hit nothing happens to it.
LEMMA TickDamage ==
  ASSUME damage \in 0 .. 4, NEW hit, Damage(hit)
  PROVE  /\ damage' \in 0 .. 4
         /\ hit = {} => UNCHANGED <<damage, lost>>
<1>1. CASE hit \cap {Rock, Tree, Cone} # {} /\ Hurt(1, 4)
  <2>1. damage' \in 0 .. 4
    BY <1>1, HurtBounded
  <2> QED BY <1>1, <2>1
<1>2. CASE Barrel \in hit /\ Hurt(2, 3)
  <2>1. damage' \in 0 .. 4
    BY <1>2, HurtBounded
  <2> QED BY <1>2, <2>1
<1>3. CASE Life \in hit /\ Heal
  BY <1>3 DEF Heal
<1>4. CASE hit \cap {Rock, Tree, Cone, Barrel, Life} = {} /\ UNCHANGED <<damage, lost>>
  BY <1>4
<1> QED BY <1>1, <1>2, <1>3, <1>4, Zenon DEF Damage

\* A tick preserves the invariant.
LEMMA TickInv ==
  ASSUME MapperInv, NEW contact \in SUBSET AllObjs, NEW star, NEW nosLoadedIn, NEW key,
         Tick(contact, star, nosLoadedIn, key)
  PROVE  MapperInv'
<1> DEFINE hit == Hit(contact)
<1>1. /\ hit \subseteq AllObjs
      /\ \A i, j \in hit : i = j
      /\ hit # {} => ~menuLive /\ ~col_on /\ contact # {}
  BY HitOne
<1>2. Collide(contact, star, hit) /\ Damage(hit) /\ SpillOil(hit) /\ Win
  BY DEF Tick
<1>3. /\ damage' \in 0 .. 4
      /\ hit = {} => UNCHANGED <<damage, lost>>
  <2>1. damage \in 0 .. 4
    BY DEF MapperInv, DamageWithinBar
  <2> QED BY <1>2, <2>1, TickDamage, Zenon
<1>4. /\ stars \in 0 .. 3 
      /\ stars = 3 => won \/ (collect /\ ~lost)
      /\ \A i, j \in trshdObjs : i = j
      /\ col_on <=> trshdObjs # {}
      /\ ~noShift => oilCount = OilFull
  BY DEF MapperInv, OneTrashed, ThirdStarLatched, OilTimerReady
<1>5. /\ stars = 3 => won'
      /\ won => won'
  <2>1. CASE stars >= 3
    BY <1>2, <2>1, Zenon DEF Win
  <2>2. CASE ~(stars >= 3)
    <3>1. stars # 3
      BY <2>2, <1>4
    <3>2. won' = won
      BY <1>2, <2>2, Zenon DEF Win
    <3> QED BY <3>1, <3>2, Zenon
  <2> QED BY <2>1, <2>2
<1>6. OneTrashed' /\ stars' \in 0 .. 3 /\ ThirdStarLatched'
  <2>1. CASE Strike(hit)
    BY <1>1, <1>4, <1>5, <2>1 DEF Strike, OneTrashed, ThirdStarLatched
  <2>2. CASE Hold(contact, hit)
    BY <1>3, <1>4, <1>5, <2>2 DEF Hold, OneTrashed, ThirdStarLatched
  <2>3. CASE Gather(contact, star)
    <3>1. hit = {}
      BY <1>1, <2>3 DEF Gather
    <3>2. stars' \in 0 .. 3 /\ collect' /\ ~lost'
      BY <1>3, <1>4, <2>3, <3>1 DEF Gather, menuLive
    <3> QED BY <1>4, <2>3, <3>2 DEF Gather, OneTrashed, ThirdStarLatched
  <2>4. CASE Release(contact, star)
    BY <1>4, <1>5, <2>4 DEF Release, OneTrashed, ThirdStarLatched
  <2> QED BY <1>2, <2>1, <2>2, <2>3, <2>4 DEF Collide
<1>7. OilTimerReady'
  <2>1. CASE noShift /\ oilCount > 0
    <3>1. noShift'
      BY <1>2, <2>1, Zenon DEF SpillOil
    <3> QED BY <3>1, Zenon DEF OilTimerReady
  <2>2. CASE noShift /\ ~(oilCount > 0)
    <3>1. oilCount' = OilFull
      BY <1>2, <2>2, Zenon DEF SpillOil
    <3> QED BY <3>1, Zenon DEF OilTimerReady
  <2>3. CASE ~noShift
    BY <1>2, <1>4, <2>3 DEF SpillOil, OilTimerReady
  <2> QED BY <2>1, <2>2, <2>3
<1> QED BY <1>3, <1>5, <1>6, <1>7 DEF MapperInv, DamageWithinBar

\* Every step preserves the invariant.
LEMMA NextInv == MapperInv /\ [MapperNext]_mapperVars => MapperInv'
<1> SUFFICES ASSUME MapperInv, [MapperNext]_mapperVars
             PROVE  MapperInv'
  OBVIOUS
<1>1. CASE MapperTick
  <2>1. PICK contact \in Contacts, star \in BOOLEAN, nosLoaded \in BOOLEAN, key \in {KeyR, NoKey} :
          Tick(contact, star, nosLoaded, key)
    BY <1>1, Zenon DEF MapperTick, TickOn
  <2>2. contact \in SUBSET AllObjs
    BY MapperAssumption
  <2> QED BY <2>1, <2>2, TickInv, Zenon
<1>2. CASE ResetMapper
  BY <1>2, ResetInv
<1>3. CASE UNCHANGED mapperVars
  BY <1>3 DEF mapperVars, MapperInv, DamageWithinBar, OneTrashed, ThirdStarLatched, OilTimerReady
<1> QED BY <1>1, <1>2, <1>3 DEF MapperNext

THEOREM MapperInvariant == MapperSpec => []MapperInv
BY NewGameInv, NextInv, PTL DEF MapperSpec

\* The damage stays within the five pictures of the status bar: lines 312-411 of
\* Color_Mapper.sv never drive the three-bit counter past four or below zero.
THEOREM DamageStaysWithinBar == MapperSpec => []DamageWithinBar
BY MapperInvariant, PTL DEF MapperInv

\* One object at a time is put back, exactly while the contact is latched.
THEOREM OneTrashedAlways == MapperSpec => []OneTrashed
BY MapperInvariant, PTL DEF MapperInv

\* A third star is won with, or was counted in the tick before.
THEOREM ThirdStarLatchedAlways == MapperSpec => []ThirdStarLatched
BY MapperInvariant, PTL DEF MapperInv

\* Every oil spill lasts its full time.
THEOREM OilTimerReadyAlways == MapperSpec => []OilTimerReady
BY MapperInvariant, PTL DEF MapperInv

-----------------------------------------------------------------------------

\* Stars are counted one by one, at most three, and only in a running game.
LEMMA TickStars ==
  ASSUME MapperInv, NEW contact, NEW star, Collide(contact, star, Hit(contact))
  PROVE  \/ stars' = stars
         \/ /\ contact = {} /\ ~menuLive /\ stars < 3 /\ stars' = stars + 1
<1>1. stars \in 0 .. 3 /\ (stars = 3 => won \/ (collect /\ ~lost))
  BY DEF MapperInv, ThirdStarLatched
<1>2. CASE Strike(Hit(contact))
  BY <1>2 DEF Strike
<1>3. CASE Hold(contact, Hit(contact))
  BY <1>3 DEF Hold
<1>4. CASE Gather(contact, star)
  <2>1. CASE collect
    BY <1>4, <2>1, Zenon DEF Gather
  <2>2. CASE ~collect
    <3>1. contact = {} /\ ~menuLive /\ stars' = (stars + 1) % 4
      BY <1>4, <2>2, Zenon DEF Gather
    <3>2. stars # 3
      BY <1>1, <2>2, <3>1, Zenon DEF menuLive
    <3> QED BY <1>1, <3>1, <3>2
  <2> QED BY <2>1, <2>2
<1>5. CASE Release(contact, star)
  BY <1>5 DEF Release
<1> QED BY <1>2, <1>3, <1>4, <1>5 DEF Collide

\* The two-bit star counter never wraps in a running game.
THEOREM StarsNeverWrapEver == MapperSpec => StarsNeverWrap
<1>1. MapperInv /\ [MapperNext]_mapperVars => [stars' >= stars \/ ResetMapper]_mapperVars
  <2> SUFFICES ASSUME MapperInv, MapperNext
               PROVE  stars' >= stars \/ ResetMapper
    BY Zenon
  <2>1. CASE MapperTick
    <3>1. PICK contact \in Contacts, star \in BOOLEAN, nosLoaded \in BOOLEAN, key \in {KeyR, NoKey} :
            Tick(contact, star, nosLoaded, key)
      BY <2>1, Zenon DEF MapperTick, TickOn
    <3>2. Collide(contact, star, Hit(contact))
      BY <3>1, Zenon DEF Tick
    <3>3. stars' = stars \/ (stars < 3 /\ stars' = stars + 1)
      BY <3>2, TickStars, Zenon
    <3> QED BY <3>3 DEF MapperInv
  <2> QED BY <2>1 DEF MapperNext
<1> QED BY <1>1, MapperInvariant, PTL DEF MapperSpec, StarsNeverWrap

\* Once the game is over nothing the car touches counts.
THEOREM OverIsOverEver == MapperSpec => OverIsOver
<1>1. MapperInv /\ [MapperNext]_mapperVars
        => [menuLive => UNCHANGED <<damage, stars>> \/ ResetMapper]_mapperVars
  <2> SUFFICES ASSUME MapperInv, MapperNext, menuLive
               PROVE  UNCHANGED <<damage, stars>> \/ ResetMapper
    BY Zenon
  <2>1. CASE MapperTick
    <3>1. PICK contact \in Contacts, star \in BOOLEAN, nosLoaded \in BOOLEAN, key \in {KeyR, NoKey} :
            Tick(contact, star, nosLoaded, key)
      BY <2>1, Zenon DEF MapperTick, TickOn
    <3>2. Collide(contact, star, Hit(contact)) /\ Damage(Hit(contact))
      BY <3>1, Zenon DEF Tick
    <3>3. stars' = stars
      BY <3>2, TickStars, Zenon
    <3>4. Hit(contact) = {}
      BY <3>1, MapperAssumption, HitOne
    <3>5. damage' = damage
      BY <3>2, <3>4, TickDamage, Zenon DEF MapperInv, DamageWithinBar
    <3> QED BY <3>3, <3>5, Zenon
  <2> QED BY <2>1 DEF MapperNext
<1> QED BY <1>1, MapperInvariant, PTL DEF MapperSpec, OverIsOver

-----------------------------------------------------------------------------
(* The tick-by-tick logic implements the rules of the game. *)

FlagsBoolean == lost \in BOOLEAN /\ won \in BOOLEAN

\* The two ends of the game are single bits.
LEMMA DamageFlags ==
  ASSUME FlagsBoolean, NEW hit, Damage(hit)
  PROVE  lost' \in BOOLEAN
BY Zenon DEF FlagsBoolean, Damage, Hurt, Heal

LEMMA NextFlags == FlagsBoolean /\ [MapperNext]_mapperVars => FlagsBoolean'
<1> SUFFICES ASSUME FlagsBoolean, [MapperNext]_mapperVars
             PROVE  FlagsBoolean'
  OBVIOUS
<1>1. CASE MapperTick
  <2>1. PICK contact \in Contacts, star \in BOOLEAN, nosLoaded \in BOOLEAN, key \in {KeyR, NoKey} :
          Tick(contact, star, nosLoaded, key)
    BY <1>1, Zenon DEF MapperTick, TickOn
  <2>2. lost' \in BOOLEAN
    BY <2>1, DamageFlags, Zenon DEF Tick
  <2>3. won' \in BOOLEAN
    BY <2>1, Zenon DEF Tick, Win, FlagsBoolean
  <2> QED BY <2>2, <2>3, Zenon DEF FlagsBoolean
<1>2. CASE ResetMapper
  BY <1>2, Zenon DEF ResetMapper, FlagsBoolean
<1>3. CASE UNCHANGED mapperVars
  BY <1>3, Zenon DEF mapperVars, FlagsBoolean
<1> QED BY <1>1, <1>2, <1>3, Zenon DEF MapperNext

\* Of the objects in contact one comes first in the chain.
LEMMA FirstOfChain ==
  ASSUME NEW contact \in SUBSET AllObjs, contact # {}
  PROVE  \E i \in contact : \A j \in contact : i <= j
<1>1. \A i \in contact : i \in 0 .. 7
  BY SMT DEF AllObjs
<1>2. PICK k \in contact : TRUE
  OBVIOUS
<1>3. CASE 0 \in contact
  BY <1>1, <1>3, SMT
<1>4. CASE 0 \notin contact /\ 1 \in contact
  BY <1>1, <1>4, SMT
<1>5. CASE 0 \notin contact /\ 1 \notin contact /\ 2 \in contact
  BY <1>1, <1>5, SMT
<1>6. CASE 0 \notin contact /\ 1 \notin contact /\ 2 \notin contact /\ 3 \in contact
  BY <1>1, <1>6, SMT
<1>7. CASE /\ 0 \notin contact /\ 1 \notin contact /\ 2 \notin contact /\ 3 \notin contact
           /\ 4 \in contact
  BY <1>1, <1>7, SMT
<1>8. CASE /\ 0 \notin contact /\ 1 \notin contact /\ 2 \notin contact /\ 3 \notin contact
           /\ 4 \notin contact /\ 5 \in contact
  BY <1>1, <1>8, SMT
<1>9. CASE /\ 0 \notin contact /\ 1 \notin contact /\ 2 \notin contact /\ 3 \notin contact
           /\ 4 \notin contact /\ 5 \notin contact /\ 6 \in contact
  BY <1>1, <1>9, SMT
<1>10. CASE /\ 0 \notin contact /\ 1 \notin contact /\ 2 \notin contact /\ 3 \notin contact
            /\ 4 \notin contact /\ 5 \notin contact /\ 6 \notin contact
  <2>1. \A i \in contact : i = 7
    BY <1>1, <1>10, SMT
  <2> QED  BY <1>2, <2>1, SMT
<1> QED
  BY <1>3, <1>4, <1>5, <1>6, <1>7, <1>8, <1>9, <1>10, Zenon

\* The lives of a running game, and the kinds of objects, as the rules name them.
LEMMA LivesLeft == lost = FALSE => (IF lost THEN 0 ELSE 5 - damage) = 5 - damage
OBVIOUS

LEMMA SameKinds ==
  /\ Rules!Rock = Rock /\ Rules!Tree = Tree /\ Rules!Barrel = Barrel /\ Rules!Life = Life
  /\ Rules!Cone = Cone /\ Rules!Shield = Shield /\ Rules!AllObjs = AllObjs
BY Zenon DEF Rules!Rock, Rules!Tree, Rules!Barrel, Rules!Life, Rules!Cone, Rules!Shield,
   Rules!AllObjs, Rock, Tree, Barrel, Life, Cone, Shield, AllObjs

\* An obstacle of n points costs n lives, but none under the shield, and the last
\* ones in any case.
LEMMA HurtSuffers ==
  ASSUME damage \in 0 .. 4, lost = FALSE, NEW i \in AllObjs, i # Life,
         NEW n \in {1, 2}, Rules!Price(i) = n, Hurt(n, 5 - n)
  PROVE  Rules!Suffer(i)
<1>1. Rules!Survives(i) <=> 5 - damage > n
  BY LivesLeft, Zenon DEF Rules!Survives
<1>2. CASE damage >= 5 - n
  <2>1. lost' = TRUE
    BY <1>2, Zenon DEF Hurt
  <2>2. ~Rules!Survives(i)
    <3>1. ~(5 - damage > n)
      BY <1>2, SMT
    <3> QED  BY <1>1, <3>1
  <2> QED  BY <2>1, <2>2, Zenon DEF Rules!Suffer
<1>3. CASE ~(damage >= 5 - n)
  <2>1. lost' = lost /\ damage' = IF inv THEN damage ELSE damage + n
    BY <1>3, Zenon DEF Hurt
  <2>2. Rules!Survives(i)
    <3>1. 5 - damage > n
      BY <1>3, SMT
    <3> QED  BY <1>1, <3>1
  <2>3. (IF lost' THEN 0 ELSE 5 - damage') = 5 - damage'
    BY <2>1, Zenon
  <2>4. 5 - damage' = IF inv THEN 5 - damage ELSE (5 - damage) - n
    <3>1. CASE inv
      BY <2>1, <3>1, Zenon
    <3>2. CASE ~inv
      <4>1. damage' = damage + n
        BY <2>1, <3>2, Zenon
      <4>2. 5 - damage' = (5 - damage) - n
        BY <4>1, SMT
      <4> QED  BY <3>2, <4>2, Zenon
    <3> QED  BY <3>1, <3>2
  <2>5. i # Rules!Life
    BY SameKinds
  <2> QED
    BY <2>1, <2>2, <2>3, <2>4, <2>5, LivesLeft, Zenon DEF Rules!Suffer
<1> QED  BY <1>2, <1>3

\* What is free gives at most a life back.
LEMMA FreeSuffers ==
  ASSUME damage \in 0 .. 4, lost = FALSE, lost' = FALSE, NEW i \in AllObjs,
         Rules!Price(i) = 0,
         damage' = IF i = Life /\ damage > 0 THEN damage - 1 ELSE damage
  PROVE  Rules!Suffer(i)
<1>1. Rules!Survives(i)
  <2>1. 5 - damage > 0
    BY SMT
  <2> QED  BY <2>1, LivesLeft, Zenon DEF Rules!Survives
<1>2. (IF lost' THEN 0 ELSE 5 - damage') = 5 - damage'
  BY Zenon
<1>3. CASE i = Life
  <2>1. 5 - damage' = IF 5 - damage < 5 THEN (5 - damage) + 1 ELSE 5 - damage
    BY <1>3, SMT
  <2> QED
    BY <1>1, <1>2, <1>3, <2>1, LivesLeft, SameKinds, Zenon DEF Rules!Suffer, Rules!AllLives
<1>4. CASE i # Life
  <2>1. damage' = damage
    BY <1>4, Zenon
  <2>2. (5 - damage) - 0 = 5 - damage
    BY SMT
  <2>3. (IF i = Rules!Life THEN (IF 5 - damage < 5 THEN (5 - damage) + 1 ELSE 5 - damage)
         ELSE IF inv THEN 5 - damage ELSE (5 - damage) - Rules!Price(i)) = 5 - damage
    BY <1>4, <2>2, SameKinds, Zenon
  <2> QED
    BY <1>1, <1>2, <2>1, <2>3, LivesLeft, Zenon DEF Rules!Suffer, Rules!AllLives
<1> QED  BY <1>3, <1>4

\* What the object that counts does to the lives is what its kind does.
LEMMA HitSuffers ==
  ASSUME damage \in 0 .. 4, lost = FALSE, NEW i \in AllObjs, Damage({i})
  PROVE  Rules!Suffer(i)
<1>0. /\ i \in {Rock, Tree, Cone} => Rules!Price(i) = 1
      /\ i = Barrel => Rules!Price(i) = 2
      /\ i \notin {Rock, Tree, Cone, Barrel} => Rules!Price(i) = 0
  BY SameKinds, SMT DEF Rules!Price, Rock, Tree, Cone, Barrel
<1>1. CASE i \in {Rock, Tree, Cone}
  <2>1. Hurt(1, 4) /\ i # Life
    <3>1. i # Barrel /\ i # Life
      BY <1>1, SMT DEF Rock, Tree, Cone, Barrel, Life
    <3> QED  BY <1>1, <3>1, Zenon DEF Damage
  <2>2. 5 - 1 = 4
    OBVIOUS
  <2>3. Hurt(1, 5 - 1)
    BY <2>1, <2>2, Zenon
  <2> QED  BY <1>0, <1>1, <2>1, <2>3, HurtSuffers
<1>2. CASE i = Barrel
  <2>1. Hurt(2, 3) /\ i # Life
    <3>1. i # Rock /\ i # Tree /\ i # Cone /\ i # Life
      BY <1>2, SMT DEF Rock, Tree, Cone, Barrel, Life
    <3> QED  BY <1>2, <3>1, Zenon DEF Damage
  <2>2. 5 - 2 = 3
    OBVIOUS
  <2>3. Hurt(2, 5 - 2)
    BY <2>1, <2>2, Zenon
  <2> QED  BY <1>0, <1>2, <2>1, <2>3, HurtSuffers
<1>3. CASE i = Life
  <2>1. Heal /\ i \notin {Rock, Tree, Cone, Barrel}
    <3>1. i # Rock /\ i # Tree /\ i # Cone /\ i # Barrel
      BY <1>3, SMT DEF Rock, Tree, Cone, Barrel, Life
    <3> QED  BY <1>3, <3>1, Zenon DEF Damage
  <2>2. lost' = FALSE /\ damage' = IF damage > 0 THEN damage - 1 ELSE 0
    BY <2>1, Zenon DEF Heal
  <2>3. damage' = IF i = Life /\ damage > 0 THEN damage - 1 ELSE damage
    BY <1>3, <2>2, SMT
  <2> QED  BY <1>0, <2>1, <2>2, <2>3, FreeSuffers
<1>4. CASE i \notin {Rock, Tree, Cone, Barrel, Life}
  <2>1. UNCHANGED <<damage, lost>>
    BY <1>4, Zenon DEF Damage
  <2>2. damage' = IF i = Life /\ damage > 0 THEN damage - 1 ELSE damage
    BY <1>4, <2>1, Zenon
  <2> QED  BY <1>0, <1>4, <2>1, <2>2, FreeSuffers
<1> QED  BY <1>1, <1>2, <1>3, <1>4, Zenon

\* A tick is a turn of the rules, with what the comparators say in it.
LEMMA TickOfRules ==
  ASSUME MapperInv, FlagsBoolean, NEW contact \in SUBSET AllObjs, NEW star \in BOOLEAN,
         NEW nosLoaded, NEW key, Tick(contact, star, nosLoaded, key)
  PROVE  Rules!Turn(contact, star)
<1> DEFINE hit == Hit(contact)
<1>1. /\ Collide(contact, star, hit) /\ Damage(hit) /\ Win
      /\ inv' = (Shield \in hit \/ inv) \/ inv' = FALSE
  BY Zenon DEF Tick, RaiseShield
<1>2. /\ hit \subseteq AllObjs /\ \A i, j \in hit : i = j
      /\ hit # {} => ~menuLive /\ ~col_on /\ contact # {}
  BY HitOne
<1>3. /\ damage \in 0 .. 4 /\ stars \in 0 .. 3 /\ (stars = 3 => won \/ (collect /\ ~lost))
      /\ (col_on <=> trshdObjs # {})
  BY Zenon DEF MapperInv, DamageWithinBar, OneTrashed, ThirdStarLatched
<1>4. hit = {} => damage' = damage /\ lost' = lost
  BY <1>1, <1>3, TickDamage
<1>5. won' = IF stars = 3 THEN TRUE ELSE won
  <2>1. stars >= 3 <=> stars = 3
    BY <1>3, SMT
  <2> QED  BY <1>1, <2>1, Zenon DEF Win
<1>6. hit = {} => (IF lost' THEN 0 ELSE 5 - damage') = (IF lost THEN 0 ELSE 5 - damage)
  BY <1>4
<1>7. Rules!Over <=> menuLive
  BY Zenon DEF Rules!Over, menuLive
<1> SUFFICES
      /\ \/ Rules!Strike(contact) \/ Rules!Stay(contact)
         \/ Rules!Gather(contact, star) \/ Rules!ComeClear(contact, star)
      /\ inv' => inv \/ (trshdObjs = {} /\ trshdObjs' = {Shield})
  BY <1>5, SameKinds, Zenon DEF Rules!Turn, Rules!AllStars
<1> HIDE DEF hit
<1>8. CASE Strike(hit)
  <2>1. PICK i \in hit : hit = {i}
    BY <1>2, <1>8, Zenon DEF Strike
  <2>2. i \in contact /\ i \in AllObjs /\ ~menuLive /\ trshdObjs = {}
    BY <1>2, <1>3, <2>1, Zenon DEF hit, Hit
  <2>3. lost = FALSE
    BY <2>2, Zenon DEF menuLive, FlagsBoolean
  <2>4. Rules!Suffer(i)
    BY <1>1, <1>3, <2>1, <2>2, <2>3, HitSuffers
  <2>5. Rules!Strike(contact)
    BY <1>7, <1>8, <2>1, <2>2, <2>4, Zenon DEF Strike, Rules!Strike
  <2>6. inv' => inv \/ trshdObjs' = {Shield}
    BY <1>1, <1>8, <2>1, Zenon DEF Strike
  <2> QED  BY <2>2, <2>5, <2>6
<1>9. ASSUME hit = {}  PROVE inv' => inv
  BY <1>1, <1>9, Zenon
<1>10. CASE Hold(contact, hit)
  <2>1. PICK i \in contact : \A j \in contact : i <= j
    BY <1>10, FirstOfChain, Zenon DEF Hold
  <2>2. menuLive \/ trshdObjs # {}
    BY <1>3, <1>10, <2>1, Zenon DEF Hold, hit, Hit
  <2>3. Rules!Stay(contact)
    BY <1>6, <1>4, <1>7, <1>10, <2>2, Zenon DEF Hold, Rules!Stay
  <2> QED  BY <1>9, <1>10, <2>3, Zenon DEF Hold
<1>11. CASE Gather(contact, star)
  <2>1. hit = {} /\ ~menuLive /\ contact = {} /\ star
    BY <1>2, <1>11, Zenon DEF Gather
  <2>2. stars' = (IF collect THEN stars ELSE stars + 1) /\ stars' <= 3
    <3>1. CASE collect
      <4>1. stars' = stars
        BY <1>11, <3>1, Zenon DEF Gather
      <4> QED  BY <1>3, <3>1, <4>1, SMT
    <3>2. CASE ~collect
      <4>1. stars' = (stars + 1) % 4
        BY <1>11, <3>2, Zenon DEF Gather
      <4>2. stars # 3
        BY <1>3, <2>1, <3>2, Zenon DEF menuLive
      <4>3. stars' = stars + 1 /\ stars' <= 3
        BY <1>3, <4>1, <4>2, SMT
      <4> QED  BY <3>2, <4>3, Zenon
    <3> QED  BY <3>1, <3>2
  <2>3. Rules!Gather(contact, star)
    BY <1>4, <1>6, <1>7, <1>11, <2>1, <2>2, Zenon DEF Gather, Rules!Gather, Rules!AllStars
  <2> QED  BY <1>9, <2>1, <2>3
<1>12. CASE Release(contact, star)
  <2>1. hit = {}
    BY <1>2, <1>12, Zenon DEF Release
  <2>2. stars' = stars /\ trshdObjs' = {} /\ collect' = FALSE /\ contact = {}
    BY <1>12, Zenon DEF Release
  <2>3. star => menuLive
    BY <1>12, Zenon DEF Release
  <2>4. Rules!ComeClear(contact, star)
    BY <1>4, <1>6, <1>7, <2>1, <2>2, <2>3, Zenon DEF Rules!ComeClear
  <2> QED  BY <1>9, <2>1, <2>4
<1> QED  BY <1>1, <1>8, <1>10, <1>11, <1>12, Zenon DEF Collide

\* A new game is one of the rules, at power-up and after a reset.
LEMMA NewGameOfRules == MapperInit => Rules!RulesInit
BY DEF MapperInit, Rules!RulesInit, Rules!NewGame, Rules!Clear, Rules!AllLives

LEMMA ResetOfRules == ResetMapper => Rules!RulesNext
BY DEF ResetMapper, Rules!RulesNext, Rules!Restart, Rules!NewGame, Rules!Clear, Rules!AllLives

\* Color_Mapper.sv implements the rules of the game: for every set of contacts and
\* every timer, each tick is the turn that the rules take on what the comparators
\* say in it: what is struck costs what it should, and once.
THEOREM PlaysByTheRulesAlways == MapperSpec => PlaysByTheRules
<1>1. ASSUME MapperInv, FlagsBoolean, NEW contact \in Contacts, NEW star \in BOOLEAN,
             TickOn(contact, star)
      PROVE  Rules!Turn(contact, star) /\ contact \in SUBSET AllObjs
  <2>1. contact \in SUBSET AllObjs
    BY MapperAssumption
  <2>2. PICK nosLoaded \in BOOLEAN, key \in {KeyR, NoKey} : Tick(contact, star, nosLoaded, key)
    BY <1>1, Zenon DEF TickOn
  <2> QED  BY <1>1, <2>1, <2>2, TickOfRules
<1>2. MapperInv /\ FlagsBoolean /\ [MapperNext]_mapperVars => [Rules!RulesNext]_Rules!rulesVars
  <2> SUFFICES ASSUME MapperInv, FlagsBoolean, [MapperNext]_mapperVars
               PROVE  Rules!RulesNext \/ UNCHANGED Rules!rulesVars
    BY Zenon
  <2>1. CASE MapperTick
    <3>1. PICK contact \in Contacts, star \in BOOLEAN : TickOn(contact, star)
      BY <2>1, Zenon DEF MapperTick
    <3> QED  BY <1>1, <3>1, SameKinds, Zenon DEF Rules!RulesNext
  <2>2. CASE ResetMapper
    BY <2>2, ResetOfRules
  <2>3. CASE UNCHANGED mapperVars
    BY <2>3, Zenon DEF mapperVars, Rules!rulesVars
  <2> QED BY <2>1, <2>2, <2>3, Zenon DEF MapperNext
<1>3. MapperInv /\ FlagsBoolean /\ [MapperNext]_mapperVars
        => [\A contact \in Contacts, star \in BOOLEAN :
              TickOn(contact, star) => Rules!Turn(contact, star)]_mapperVars
  BY <1>1, Zenon
<1>4. MapperInit => FlagsBoolean
  BY Zenon DEF MapperInit, FlagsBoolean
<1> QED
  BY NewGameOfRules, <1>2, <1>3, <1>4, NextFlags, MapperInvariant, PTL
     DEF MapperSpec, PlaysByTheRules, Rules!RulesSpec

-----------------------------------------------------------------------------
(* The widths of the registers. *)

\* What MapperInv does not say of them.
SingleBits ==
  /\ col_on \in BOOLEAN /\ collect \in BOOLEAN /\ nosLoadedOut \in BOOLEAN
  /\ noShift \in BOOLEAN /\ inv \in BOOLEAN /\ replay \in BOOLEAN
  /\ trshdObjs \subseteq AllObjs
Timers == oilCount \in 0 .. OilFull /\ invCount \in 0 .. InvFull

LEMMA TickTimers ==
  ASSUME Timers, NEW hit, SpillOil(hit), RaiseShield(hit)
  PROVE  Timers'
<1>1. oilCount' \in 0 .. OilFull
  BY MapperAssumption DEF Timers, SpillOil
<1>2. invCount' \in 0 .. InvFull
  BY MapperAssumption DEF Timers, RaiseShield
<1> QED BY <1>1, <1>2 DEF Timers

LEMMA TickBits ==
  ASSUME SingleBits, NEW contact \in SUBSET AllObjs, NEW star \in BOOLEAN,
         NEW nosLoadedIn \in BOOLEAN, NEW key, Tick(contact, star, nosLoadedIn, key)
  PROVE  SingleBits'
<1> DEFINE hit == Hit(contact)
<1>1. hit \subseteq AllObjs
  BY HitOne
<1>2. /\ Collide(contact, star, hit) /\ LoadNitrous(hit, nosLoadedIn)
      /\ SpillOil(hit) /\ RaiseShield(hit) /\ AskReplay(key)
  BY Zenon DEF Tick
<1> HIDE DEF hit
<1>3. col_on' \in BOOLEAN /\ collect' \in BOOLEAN /\ trshdObjs' \subseteq AllObjs
  BY <1>1, <1>2, Zenon DEF Collide, Strike, Hold, Gather, Release, SingleBits
<1>4. nosLoadedOut' \in BOOLEAN
  BY <1>2, Zenon DEF LoadNitrous, SingleBits
<1>5. noShift' \in BOOLEAN
  <2>1. (oilCount > 0) \in BOOLEAN /\ (Oil \in hit) \in BOOLEAN
    OBVIOUS
  <2> QED BY <1>2, <2>1, Zenon DEF SpillOil
<1>6. inv' \in BOOLEAN
  BY <1>2, Zenon DEF RaiseShield, SingleBits
<1>7. replay' \in BOOLEAN
  BY <1>2, Zenon DEF AskReplay, SingleBits
<1> QED BY <1>3, <1>4, <1>5, <1>6, <1>7, Zenon DEF SingleBits

LEMMA NextWidths == SingleBits /\ Timers /\ [MapperNext]_mapperVars => SingleBits' /\ Timers'
<1> SUFFICES ASSUME SingleBits, Timers, [MapperNext]_mapperVars
             PROVE  SingleBits' /\ Timers'
  OBVIOUS
<1>1. CASE MapperTick
  <2>1. PICK contact \in Contacts, star \in BOOLEAN, nosLoaded \in BOOLEAN, key \in {KeyR, NoKey} :
          Tick(contact, star, nosLoaded, key)
    BY <1>1, Zenon DEF MapperTick, TickOn
  <2>2. contact \in SUBSET AllObjs
    BY MapperAssumption
  <2>3. SpillOil(Hit(contact)) /\ RaiseShield(Hit(contact))
    BY <2>1, Zenon DEF Tick
  <2>4. SingleBits'
    BY <2>1, <2>2, TickBits, Zenon
  <2>5. Timers'
    BY <2>3, TickTimers, Zenon
  <2> QED BY <2>4, <2>5
<1>2. CASE ResetMapper
  <2>1. SingleBits'
    BY <1>2, Zenon DEF ResetMapper, SingleBits
  <2>2. Timers'
    BY <1>2, MapperAssumption DEF ResetMapper, Timers
  <2> QED BY <2>1, <2>2
<1>3. CASE UNCHANGED mapperVars
  BY <1>3 DEF mapperVars, SingleBits, Timers
<1> QED BY <1>1, <1>2, <1>3 DEF MapperNext

\* Every register keeps to its width, for every length of the two timers.
THEOREM MapperTypeCorrect == MapperSpec => []MapperTypeOK
<1>1. MapperInit => SingleBits /\ Timers /\ FlagsBoolean
  <2>1. MapperInit => SingleBits /\ FlagsBoolean
    BY Zenon DEF MapperInit, SingleBits, FlagsBoolean
  <2>2. MapperInit => Timers
    BY MapperAssumption DEF MapperInit, Timers
  <2> QED BY <2>1, <2>2
<1>2. MapperInv /\ FlagsBoolean /\ SingleBits /\ Timers => MapperTypeOK
  <2> SUFFICES ASSUME MapperInv, FlagsBoolean, SingleBits, Timers PROVE MapperTypeOK
    OBVIOUS
  <2>1. damage \in 0 .. 7 /\ stars \in 0 .. 3
    BY DEF MapperInv, DamageWithinBar
  <2> QED BY <2>1, Zenon DEF FlagsBoolean, SingleBits, Timers, MapperTypeOK
<1> QED BY <1>1, <1>2, MapperInvariant, NextWidths, NextFlags, PTL DEF MapperSpec

-----------------------------------------------------------------------------
(* What a tick makes of what the comparators say. *)

\* A tick that sees a contact leaves it latched, and one that sees a star and no
\* contact leaves the star gathered, unless the game is over.
LEMMA TickNotices ==
  ASSUME MapperInv, FlagsBoolean, NEW contact \in SUBSET AllObjs, NEW star, NEW burning, NEW key,
         Tick(contact, star, burning, key), ~menuLive'
  PROVE  /\ contact # {} => col_on'
         /\ contact = {} /\ star => collect'
<1>1. Collide(contact, star, Hit(contact)) /\ Damage(Hit(contact)) /\ Win
  BY Zenon DEF Tick
<1>2. ~menuLive
  <2>1. lost => lost'
    BY <1>1, Zenon DEF Damage, Hurt, Heal
  <2>2. won => won'
    BY <1>1, Zenon DEF Win
  <2> QED  BY <2>1, <2>2, Zenon DEF menuLive
<1>3. ASSUME contact # {}  PROVE col_on'
  <2>1. CASE Strike(Hit(contact))
    BY <2>1, Zenon DEF Strike
  <2>2. CASE Hold(contact, Hit(contact))
    <3>1. PICK i \in contact : \A j \in contact : i <= j
      BY <1>3, FirstOfChain
    <3>2. col_on \/ trshdObjs # {}
      BY <1>2, <2>2, <3>1, Zenon DEF Hold, Hit
    <3>3. col_on
      BY <3>2, Zenon DEF MapperInv, OneTrashed
    <3> QED  BY <2>2, <3>3, Zenon DEF Hold
  <2> QED  BY <1>1, <1>3, <2>1, <2>2, Zenon DEF Collide, Gather, Release
<1>4. ASSUME contact = {}, star  PROVE collect'
  <2>1. Hit(contact) = {}
    BY <1>4, Zenon DEF Hit
  <2> QED  BY <1>1, <1>2, <1>4, <2>1, Zenon DEF Collide, Strike, Hold, Gather, Release
<1> QED  BY <1>3, <1>4

\* A tick that sees neither releases everything.
LEMMA TickReleases ==
  ASSUME NEW contact, contact = {}, NEW star, ~star, Collide(contact, star, Hit(contact))
  PROVE  ~collect' /\ ~col_on'
<1>1. Hit(contact) = {}
  BY Zenon DEF Hit
<1> QED  BY <1>1, Zenon DEF Collide, Strike, Hold, Gather, Release

\* While the flags say what the comparators say, or the game is over, a tick hits
\* nothing; and in a running game it then changes no flag and no score.
LEMMA QuietTick ==
  ASSUME MapperInv, SingleBits, NEW contact, NEW star, NEW burning, NEW key,
         Tick(contact, star, burning, key),
         \/ menuLive
         \/ /\ contact # {} => col_on
            /\ contact = {} /\ star => collect
            /\ contact = {} /\ ~star => ~collect /\ ~col_on
  PROVE  /\ Hit(contact) = {}
         /\ ~menuLive => UNCHANGED <<col_on, trshdObjs, collect, stars, damage, lost>>
<1>1. Collide(contact, star, Hit(contact)) /\ Damage(Hit(contact))
  BY Zenon DEF Tick
<1>2. Hit(contact) = {}
  BY Zenon DEF Hit
<1>3. damage' = damage /\ lost' = lost
  BY <1>1, <1>2, TickDamage, Zenon DEF MapperInv, DamageWithinBar
<1>4. ASSUME ~menuLive
      PROVE  UNCHANGED <<col_on, trshdObjs, collect, stars>>
  <2>1. col_on \in BOOLEAN /\ collect \in BOOLEAN /\ (col_on <=> trshdObjs # {})
    BY Zenon DEF SingleBits, MapperInv, OneTrashed
  <2>2. CASE Hold(contact, Hit(contact))
    BY <2>2, Zenon DEF Hold
  <2>3. CASE Gather(contact, star)
    <3>1. collect
      BY <1>4, <2>3, Zenon DEF Gather
    <3>2. collect' = collect /\ stars' = stars /\ UNCHANGED <<col_on, trshdObjs>>
      BY <2>1, <2>3, <3>1, Zenon DEF Gather
    <3> QED  BY <3>2
  <2>4. CASE Release(contact, star)
    <3>1. ~collect /\ ~col_on
      BY <1>4, <2>4, Zenon DEF Release
    <3>2. collect' = collect /\ col_on' = col_on /\ trshdObjs' = trshdObjs /\ stars' = stars
      BY <2>1, <2>4, <3>1, Zenon DEF Release
    <3> QED  BY <3>2
  <2> QED  BY <1>1, <1>2, <2>2, <2>3, <2>4, Zenon DEF Collide, Strike
<1> QED  BY <1>2, <1>3, <1>4

=============================================================================
