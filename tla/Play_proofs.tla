---------------------------- MODULE Play_proofs -----------------------------
(***************************************************************************)
(* What the flags between the two clocks are worth, for every set of       *)
(* contacts, every length of the boost and of the timers, and every number *)
(* of ticks between two frames from three on.                              *)
(***************************************************************************)
EXTENDS Play, ColorMapper_proofs

-----------------------------------------------------------------------------
(* The invariant. *)

PlayTypes ==
  /\ SingleBits /\ FlagsBoolean
  /\ nosActive \in BOOLEAN /\ nosLoadedIn \in BOOLEAN
  /\ contact \in SUBSET AllObjs /\ star \in BOOLEAN
  /\ age \in 0 .. 2 /\ phase \in 0 .. MinTicks

\* The handshake line mirrors the burning state.
LineMirrors == nosActive <=> ~nosLoadedIn

\* But for the time after power-up or a reset, what moved last moved at the last frame edge.
Aged == phase < MinTicks => age = IF phase < 2 THEN phase ELSE 2

\* After either nothing is in contact, and at most one star is counted, by the old
\* edges of the first tick.
Fresh ==
  phase = MinTicks /\ age < 2 => contact = {} /\ ~star /\ ~nosActive /\ stars <= age

\* Two ticks after a move the flags say what the comparators say.
Settled ==
  age = 2 /\ ~menuLive =>
    /\ contact # {} => col_on
    /\ contact = {} /\ star => collect
    /\ contact = {} /\ ~star => ~collect /\ ~col_on

\* The pulse of a bottle that is lost is over before the third tick of a frame.
PulseOver == nosActive /\ nosLoadedOut => phase <= 2

\* A third star that is not yet won with was counted in one of the first two ticks
\* of a frame, and that tick was the last one.
ThirdStarNew == stars = 3 /\ ~won => phase = age /\ age \in {1, 2}

PlayInv ==
  /\ PlayTypes /\ MapperInv /\ LineMirrors
  /\ Aged /\ Fresh /\ Settled /\ PulseOver /\ ThirdStarNew

-----------------------------------------------------------------------------
(* A tick of the collision logic. *)

\* What the comparators say in a tick is something, and from the second tick after
\* a move on it is the case.
LEMMA FastTickSees ==
  ASSUME PlayInv, FastTick
  PROVE  \E c \in SUBSET AllObjs, s \in BOOLEAN, key \in {KeyR, NoKey} :
           /\ Tick(c, s, nosLoadedIn, key)
           /\ age # 0 => c = contact /\ s = star
<1>1. contact \in SUBSET AllObjs /\ star \in BOOLEAN
  BY Zenon DEF PlayInv, PlayTypes
<1>2. PICK key \in {KeyR, NoKey} :
        \/ /\ age = 0
           /\ \E c \in Contacts, s \in BOOLEAN : Tick(c, s, nosLoadedIn, key)
        \/ /\ age > 0
           /\ Tick(contact, star, nosLoadedIn, key)
  BY Zenon DEF FastTick
<1>3. CASE age = 0 /\ \E c \in Contacts, s \in BOOLEAN : Tick(c, s, nosLoadedIn, key)
  <2>1. PICK c \in Contacts, s \in BOOLEAN : Tick(c, s, nosLoadedIn, key)
    BY <1>3
  <2>2. c \in SUBSET AllObjs
    BY MapperAssumption
  <2> QED  BY <1>3, <2>1, <2>2, Zenon
<1>4. CASE age > 0 /\ Tick(contact, star, nosLoadedIn, key)
  BY <1>1, <1>4, Zenon
<1> QED  BY <1>2, <1>3, <1>4, Zenon

\* The registers of the collision logic keep their types and their invariant.
LEMMA TickKeeps ==
  ASSUME MapperInv, SingleBits, FlagsBoolean,
         NEW c \in SUBSET AllObjs, NEW s \in BOOLEAN, NEW loaded \in BOOLEAN, NEW key,
         Tick(c, s, loaded, key)
  PROVE  MapperInv' /\ SingleBits' /\ FlagsBoolean'
<1>1. MapperInv'
  BY TickInv, Zenon
<1>2. SingleBits'
  BY TickBits, Zenon
<1>3. lost' \in BOOLEAN
  BY DamageFlags, Zenon DEF Tick
<1>4. won' \in BOOLEAN
  BY Zenon DEF Tick, Win, FlagsBoolean
<1> QED  BY <1>1, <1>2, <1>3, <1>4, Zenon DEF FlagsBoolean

\* A tick keeps the invariant.
LEMMA FastTickKeeps ==
  ASSUME PlayInv, FastTick
  PROVE  PlayInv'
<1>1. PICK c \in SUBSET AllObjs, s \in BOOLEAN, key \in {KeyR, NoKey} :
        /\ Tick(c, s, nosLoadedIn, key)
        /\ age # 0 => c = contact /\ s = star
  BY FastTickSees
<1>2. /\ age' = (IF age < 2 THEN age + 1 ELSE 2)
      /\ phase' = (IF phase < MinTicks THEN phase + 1 ELSE phase)
      /\ UNCHANGED <<contact, star, nosActive, nosLoadedIn>>
  BY Zenon DEF FastTick, nosVars
<1>3. /\ age \in 0 .. 2 /\ phase \in 0 .. MinTicks /\ MinTicks \in Nat /\ MinTicks >= 3
      /\ phase < MinTicks => age = IF phase < 2 THEN phase ELSE 2
  BY PlayAssumption DEF PlayInv, PlayTypes, Aged
<1>4. /\ MapperInv /\ SingleBits /\ FlagsBoolean /\ LineMirrors /\ Fresh /\ Settled
      /\ nosActive \in BOOLEAN /\ nosLoadedIn \in BOOLEAN
      /\ contact \in SUBSET AllObjs /\ star \in BOOLEAN
  BY Zenon DEF PlayInv, PlayTypes
<1>5. MapperInv' /\ SingleBits' /\ FlagsBoolean'
  BY <1>1, <1>4, TickKeeps
<1>6. age' \in 0 .. 2 /\ phase' \in 0 .. MinTicks /\ Aged'
  BY <1>2, <1>3 DEF Aged
<1>7. PlayTypes' /\ LineMirrors'
  BY <1>2, <1>4, <1>5, <1>6, Zenon DEF PlayTypes, LineMirrors
<1>8. /\ Collide(c, s, Hit(c)) /\ LoadNitrous(Hit(c), nosLoadedIn) /\ Win
      /\ stars' = stars \/ (c = {} /\ ~menuLive /\ stars < 3 /\ stars' = stars + 1)
      /\ stars \in 0 .. 3
  <2>1. Collide(c, s, Hit(c)) /\ LoadNitrous(Hit(c), nosLoadedIn) /\ Win
    BY <1>1, Zenon DEF Tick
  <2>2. stars' = stars \/ (c = {} /\ ~menuLive /\ stars < 3 /\ stars' = stars + 1)
    BY <2>1, <1>4, TickStars, Zenon
  <2> QED  BY <2>1, <2>2, <1>4, Zenon DEF MapperInv
<1>9. ASSUME age = 2
      PROVE  Hit(c) = {} /\ stars' = stars
  <2>1. c = contact /\ s = star
    BY <1>1, <1>9
  <2>2. /\ Hit(c) = {}
        /\ ~menuLive => stars' = stars
    BY <1>1, <1>4, <1>9, <2>1, QuietTick, Zenon DEF Settled
  <2> QED  BY <1>8, <2>2, Zenon
<1>10. Fresh'
  <2> SUFFICES ASSUME phase' = MinTicks, age' < 2
               PROVE  contact' = {} /\ ~star' /\ ~nosActive' /\ stars' <= age'
    BY DEF Fresh
  <2>1. age = 0 /\ age' = 1 /\ phase = MinTicks
    BY <1>2, <1>3
  <2>2. contact = {} /\ ~star /\ ~nosActive /\ stars <= 0
    BY <1>4, <2>1 DEF Fresh
  <2>3. stars' <= 1
    BY <1>8, <2>2
  <2> QED  BY <1>2, <2>1, <2>2, <2>3
<1>11. Settled'
  <2> SUFFICES ASSUME age' = 2, ~menuLive'
               PROVE  /\ contact' # {} => col_on'
                      /\ contact' = {} /\ star' => collect'
                      /\ contact' = {} /\ ~star' => ~collect' /\ ~col_on'
    BY Zenon DEF Settled
  <2>1. c = contact /\ s = star
    BY <1>1, <1>2, <1>3
  <2>2. /\ c # {} => col_on'
        /\ c = {} /\ s => collect'
    BY <1>1, <1>4, TickNotices
  <2>3. c = {} /\ ~s => ~collect' /\ ~col_on'
    BY <1>8, TickReleases
  <2> QED  BY <1>2, <2>1, <2>2, <2>3, Zenon
<1>12. PulseOver'
  <2> SUFFICES ASSUME nosActive', nosLoadedOut'
               PROVE  phase' <= 2
    BY Zenon DEF PulseOver
  <2>1. Hit(c) # {}
    BY <1>2, <1>4, <1>8, Zenon DEF LineMirrors, LoadNitrous
  <2>2. age < 2
    BY <1>3, <1>9, <2>1
  <2>3. phase # MinTicks
    BY <1>2, <1>4, <2>2, Zenon DEF Fresh
  <2> QED  BY <1>2, <1>3, <2>2, <2>3
<1>13. ThirdStarNew'
  <2> SUFFICES ASSUME stars' = 3, ~won'
               PROVE  phase' = age' /\ age' \in {1, 2}
    BY Zenon DEF ThirdStarNew
  <2>1. stars = 2
    <3>1. stars # 3
      <4>1. 3 >= 3
        OBVIOUS
      <4> QED  BY <1>8, <4>1, Zenon DEF Win
    <3> QED  BY <1>8, <3>1
  <2>2. age < 2
    BY <1>3, <1>9, <2>1
  <2>3. phase # MinTicks
    BY <1>4, <2>1, <2>2, <1>3 DEF Fresh
  <2> QED  BY <1>2, <1>3, <2>2, <2>3
<1> QED
  BY <1>5, <1>6, <1>7, <1>10, <1>11, <1>12, <1>13, Zenon DEF PlayInv

-----------------------------------------------------------------------------
(* The other steps. *)

\* What does not move keeps its invariant.
LEMMA MapperStill ==
  ASSUME UNCHANGED mapperVars, MapperInv, SingleBits, FlagsBoolean
  PROVE  MapperInv' /\ SingleBits' /\ FlagsBoolean' /\ stars' = stars /\ won' = won
<1>1. MapperInv'
  BY DEF mapperVars, MapperInv, DamageWithinBar, OneTrashed, ThirdStarLatched, OilTimerReady
<1>2. SingleBits' /\ FlagsBoolean'
  BY DEF mapperVars, SingleBits, FlagsBoolean
<1> QED  BY <1>1, <1>2 DEF mapperVars

\* The boost keeps its handshake line in step with what it does.
LEMMA BoostMirrors ==
  ASSUME LineMirrors, nosActive \in BOOLEAN, nosLoadedIn \in BOOLEAN,
         NEW fire \in BOOLEAN, NitrousFrame(fire)
  PROVE  LineMirrors' /\ nosActive' \in BOOLEAN /\ nosLoadedIn' \in BOOLEAN
<1>1. CASE Coast(fire)
  BY <1>1, Zenon DEF Coast, nosVars, LineMirrors
<1>2. CASE Ignite(fire)
  BY <1>2, Zenon DEF Ignite, LineMirrors
<1>3. CASE Burn(fire)
  BY <1>3, Zenon DEF Burn, LineMirrors
<1>4. CASE BurnOut
  BY <1>4, Zenon DEF BurnOut, LineMirrors
<1> QED  BY <1>1, <1>2, <1>3, <1>4, Zenon DEF NitrousFrame

\* A frame edge keeps the invariant: it comes too late for a third star that is not
\* won with yet.
LEMMA FrameEdgeKeeps ==
  ASSUME PlayInv, FrameEdge
  PROVE  PlayInv'
<1>1. /\ phase >= MinTicks /\ contact' \in Contacts /\ star' \in BOOLEAN
      /\ age' = 0 /\ phase' = 0 /\ UNCHANGED mapperVars
  BY Zenon DEF FrameEdge
<1>2. MinTicks \in Nat /\ MinTicks >= 3 /\ contact' \in SUBSET AllObjs
  BY <1>1, PlayAssumption, MapperAssumption
<1>3. MapperInv' /\ SingleBits' /\ FlagsBoolean' /\ stars' = stars /\ won' = won
  BY <1>1, MapperStill, Zenon DEF PlayInv, PlayTypes
<1>4. LineMirrors' /\ nosActive' \in BOOLEAN /\ nosLoadedIn' \in BOOLEAN
  <2>1. CASE UNCHANGED nosVars
    BY <2>1, Zenon DEF nosVars, PlayInv, PlayTypes, LineMirrors
  <2>2. CASE \E space \in BOOLEAN : NitrousFrame(space /\ nosLoadedOut)
    <3>1. PICK space \in BOOLEAN : NitrousFrame(space /\ nosLoadedOut)
      BY <2>2
    <3>2. (space /\ nosLoadedOut) \in BOOLEAN
      OBVIOUS
    <3> QED  BY <3>1, <3>2, BoostMirrors, Zenon DEF PlayInv, PlayTypes
  <2> QED  BY <2>1, <2>2, Zenon DEF FrameEdge
<1>5. age' \in 0 .. 2 /\ phase' \in 0 .. MinTicks
  BY <1>1, <1>2
<1>6. PlayTypes'
  BY <1>1, <1>2, <1>3, <1>4, <1>5, Zenon DEF PlayTypes
<1>7. Aged' /\ Fresh' /\ Settled' /\ PulseOver'
  BY <1>1, <1>2 DEF Aged, Fresh, Settled, PulseOver
<1>8. ThirdStarNew'
  BY <1>1, <1>2, <1>3 DEF PlayInv, PlayTypes, ThirdStarNew
<1> QED
  BY <1>3, <1>4, <1>6, <1>7, <1>8, Zenon DEF PlayInv

\* Every game starts with the invariant.
LEMMA PlayStarts ==
  ASSUME PlayInit
  PROVE  PlayInv
<1>1. /\ MapperInit /\ nosActive = FALSE /\ nosLoadedIn = TRUE
      /\ contact = {} /\ star = FALSE /\ age = 0 /\ phase = MinTicks
  BY Zenon DEF PlayInit, NitrousReset
<1>2. MapperInv
  BY <1>1, NewGameInv
<1>3. SingleBits /\ FlagsBoolean
  BY <1>1, Zenon DEF MapperInit, SingleBits, FlagsBoolean
<1>4. age \in 0 .. 2 /\ phase \in 0 .. MinTicks
  BY <1>1, PlayAssumption
<1>5. PlayTypes /\ LineMirrors
  BY <1>1, <1>3, <1>4, Zenon DEF PlayTypes, LineMirrors
<1>6. stars = 0
  BY <1>1, Zenon DEF MapperInit
<1>7. Aged /\ Settled
  BY <1>1, PlayAssumption DEF Aged, Settled
<1>8. Fresh /\ PulseOver
  <2>1. 0 <= 0
    OBVIOUS
  <2> QED  BY <1>1, <1>6, <2>1, Zenon DEF Fresh, PulseOver
<1>9. ThirdStarNew
  BY <1>6 DEF ThirdStarNew
<1> QED
  BY <1>2, <1>5, <1>7, <1>8, <1>9, Zenon DEF PlayInv

\* And so does the next one, whatever came before.
LEMMA ResetPlayKeeps ==
  ASSUME ResetPlay
  PROVE  PlayInv'
<1>1. /\ ResetMapper /\ nosActive' = FALSE /\ nosLoadedIn' = TRUE
      /\ contact' = {} /\ star' = FALSE /\ age' = 0 /\ phase' = MinTicks
  BY Zenon DEF ResetPlay, NitrousReset
<1>2. MapperInv'
  BY <1>1, ResetInv
<1>3. SingleBits' /\ FlagsBoolean' /\ stars' = 0
  BY <1>1, Zenon DEF ResetMapper, SingleBits, FlagsBoolean
<1>4. age' \in 0 .. 2 /\ phase' \in 0 .. MinTicks
  BY <1>1, PlayAssumption
<1>5. PlayTypes' /\ LineMirrors'
  BY <1>1, <1>3, <1>4, Zenon DEF PlayTypes, LineMirrors
<1>6. Aged' /\ Settled'
  BY <1>1, PlayAssumption DEF Aged, Settled
<1>7. 0 <= 0 /\ 0 # 3
  OBVIOUS
<1>8. Fresh' /\ PulseOver' /\ ThirdStarNew'
  BY <1>1, <1>3, <1>7, Zenon DEF Fresh, PulseOver, ThirdStarNew
<1> QED
  BY <1>2, <1>5, <1>6, <1>8, Zenon DEF PlayInv

\* Every step keeps the invariant.
LEMMA PlaySteps ==
  ASSUME PlayInv, [PlayNext]_playVars
  PROVE  PlayInv'
<1>1. CASE FastTick
  BY <1>1, FastTickKeeps
<1>2. CASE FrameEdge
  BY <1>2, FrameEdgeKeeps
<1>3. CASE ResetPlay
  BY <1>3, ResetPlayKeeps
<1>4. CASE UNCHANGED playVars
  <2>1. /\ UNCHANGED mapperVars
        /\ UNCHANGED <<nosActive, nosLoadedIn, contact, star, age, phase>>
    BY <1>4, Zenon DEF playVars, nosVars, envVars
  <2>2. MapperInv' /\ SingleBits' /\ FlagsBoolean'
    BY <2>1, MapperStill, Zenon DEF PlayInv, PlayTypes
  <2>3. PlayTypes' /\ LineMirrors' /\ Aged'
    BY <2>1, <2>2, Zenon DEF PlayInv, PlayTypes, LineMirrors, Aged
  <2>4. UNCHANGED <<stars, won, lost, col_on, collect, nosLoadedOut>>
    BY <2>1, Zenon DEF mapperVars
  <2>5. Fresh' /\ Settled' /\ PulseOver' /\ ThirdStarNew'
    BY <2>1, <2>4, Zenon DEF PlayInv, Fresh, Settled, PulseOver, ThirdStarNew, menuLive
  <2> QED  BY <2>2, <2>3, <2>5, Zenon DEF PlayInv
<1> QED  BY <1>1, <1>2, <1>3, <1>4, Zenon DEF PlayNext

\* In every behaviour the flags and what they report agree from the third tick after
\* a move on, and the lines of the nitrous handshake agree with the boost.
THEOREM PlayInvariant == PlaySpec => []PlayInv
<1>1. PlayInit => PlayInv
  BY PlayStarts
<1>2. PlayInv /\ [PlayNext]_playVars => PlayInv'
  BY PlaySteps
<1> QED  BY <1>1, <1>2, PTL DEF PlaySpec

-----------------------------------------------------------------------------
(* What the flags are worth. *)

\* No frame handler ever sees a flag that is about to change: two ticks after a move
\* a tick of a running game changes none.
THEOREM FlagsAlwaysSettle == PlaySpec => FlagsSettle
<1>1. ASSUME PlayInv, age = 2, ~menuLive, FastTick
      PROVE  UNCHANGED <<col_on, trshdObjs, collect, stars, damage, lost>>
  <2>1. PICK c \in SUBSET AllObjs, s \in BOOLEAN, key \in {KeyR, NoKey} :
          /\ Tick(c, s, nosLoadedIn, key)
          /\ age # 0 => c = contact /\ s = star
    BY <1>1, FastTickSees
  <2>2. c = contact /\ s = star
    BY <1>1, <2>1
  <2> QED  BY <1>1, <2>1, <2>2, QuietTick, Zenon DEF PlayInv, PlayTypes, Settled
<1>2. PlayInv /\ [PlayNext]_playVars
        => [age = 2 /\ ~menuLive /\ FastTick
              => UNCHANGED <<col_on, trshdObjs, collect, stars, damage, lost>>]_playVars
  BY <1>1, Zenon
<1> QED  BY <1>2, PlayInvariant, PTL DEF PlaySpec, FlagsSettle

\* A game is both lost and won only when the tick after a star's sees an obstacle,
\* in the same frame.
THEOREM BothOnlyInOneFrameEver == PlaySpec => BothOnlyInOneFrame
<1>1. ASSUME PlayInv, PlayNext, lost', won', ~(lost /\ won)
      PROVE  age = 1 /\ phase = 1
  <2>1. FastTick
    <3>1. ~ResetPlay
      BY <1>1, Zenon DEF ResetPlay, ResetMapper
    <3>2. ~FrameEdge
      BY <1>1, Zenon DEF FrameEdge, mapperVars
    <3> QED  BY <1>1, <3>1, <3>2, Zenon DEF PlayNext
  <2>2. PICK c \in SUBSET AllObjs, s \in BOOLEAN, key \in {KeyR, NoKey} :
          /\ Tick(c, s, nosLoadedIn, key)
          /\ age # 0 => c = contact /\ s = star
    BY <1>1, <2>1, FastTickSees
  <2>3. Damage(Hit(c)) /\ Win /\ damage \in 0 .. 4 /\ stars \in 0 .. 3
    BY <1>1, <2>2, Zenon DEF Tick, PlayInv, MapperInv, DamageWithinBar
  <2>4. lost' = lost \/ (~lost /\ ~won /\ Hit(c) # {})
    <3>1. CASE Hit(c) = {}
      BY <2>3, <3>1, TickDamage, Zenon
    <3>2. CASE Hit(c) # {}
      BY <2>2, <3>2, HitOne, Zenon DEF menuLive
    <3> QED  BY <3>1, <3>2
  <2>5. ~won
    BY <1>1, <2>4, Zenon
  <2>6. stars = 3
    <3>1. stars >= 3
      BY <1>1, <2>3, <2>5, Zenon DEF Win
    <3> QED  BY <2>3, <3>1
  <2>7. ~lost
    BY <1>1, <2>5, <2>6, Zenon DEF PlayInv, MapperInv, ThirdStarLatched
  <2>8. Hit(c) # {}
    BY <1>1, <2>4, <2>7, Zenon
  <2>9. age # 2
    <3>1. SUFFICES ASSUME age = 2 PROVE FALSE
      OBVIOUS
    <3>2. c = contact /\ s = star
      BY <2>2, <3>1
    <3> QED  BY <1>1, <2>2, <2>8, <3>1, <3>2, QuietTick, Zenon DEF PlayInv, PlayTypes, Settled
  <2> QED  BY <1>1, <2>5, <2>6, <2>9, Zenon DEF PlayInv, ThirdStarNew
<1>2. PlayInv /\ [PlayNext]_playVars
        => [lost' /\ won' /\ ~(lost /\ won) => age = 1 /\ phase = 1]_playVars
  BY <1>1, Zenon
<1> QED  BY <1>2, PlayInvariant, PTL DEF PlaySpec, BothOnlyInOneFrame

-----------------------------------------------------------------------------
(* The nitrous handshake implements the tank of one bottle. *)

\* A tick fills the tank or leaves it: what is loaded stays so until it is lit.
LEMMA TickOfTank ==
  ASSUME PlayInv, FastTick
  PROVE  Tank!Fill \/ UNCHANGED Tank!TankVar
<1>1. PICK c \in SUBSET AllObjs, s \in BOOLEAN, key \in {KeyR, NoKey} :
        Tick(c, s, nosLoadedIn, key)
  BY FastTickSees
<1>2. LoadNitrous(Hit(c), nosLoadedIn) /\ nosActive' = nosActive
  BY <1>1, Zenon DEF Tick, FastTick, nosVars
<1>3. CASE nosActive
  BY <1>2, <1>3, Zenon DEF Tank!TankVar
<1>4. CASE ~nosActive /\ nosLoadedOut
  <2>1. nosLoadedOut'
    BY <1>2, <1>4, Zenon DEF LoadNitrous, PlayInv, LineMirrors
  <2> QED  BY <1>2, <1>4, <2>1, Zenon DEF Tank!TankVar
<1>5. CASE ~nosActive /\ ~nosLoadedOut
  BY <1>2, <1>5, Zenon DEF Tank!Fill, Tank!TankVar
<1> QED  BY <1>3, <1>4, <1>5, Zenon

\* A frame lights a bottle that is loaded, or finds the burning one dry with no
\* second one to be seen.
LEMMA FrameOfTank ==
  ASSUME PlayInv, FrameEdge
  PROVE  Tank!Light \/ Tank!RunDry \/ UNCHANGED Tank!TankVar
<1>1. nosLoadedOut' = nosLoadedOut
  BY Zenon DEF FrameEdge, mapperVars
<1>2. CASE UNCHANGED nosVars
  BY <1>1, <1>2, Zenon DEF nosVars, Tank!TankVar
<1>3. CASE \E space \in BOOLEAN : NitrousFrame(space /\ nosLoadedOut)
  <2>1. PICK space \in BOOLEAN : NitrousFrame(space /\ nosLoadedOut)
    BY <1>3
  <2>2. CASE Coast(space /\ nosLoadedOut)
    BY <1>1, <2>2, Zenon DEF Coast, nosVars, Tank!TankVar
  <2>3. CASE Ignite(space /\ nosLoadedOut)
    BY <1>1, <2>3, Zenon DEF Ignite, Tank!Light
  <2>4. CASE Burn(space /\ nosLoadedOut)
    BY <1>1, <2>4, Zenon DEF Burn, Tank!TankVar
  <2>5. CASE BurnOut
    <3>1. ~(phase <= 2)
      BY PlayAssumption DEF FrameEdge, PlayInv, PlayTypes
    <3>2. ~nosLoadedOut
      BY <2>5, <3>1, Zenon DEF PlayInv, PulseOver, BurnOut
    <3> QED  BY <1>1, <2>5, <3>2, Zenon DEF BurnOut, Tank!RunDry
  <2> QED  BY <2>1, <2>2, <2>3, <2>4, <2>5, Zenon DEF NitrousFrame
<1> QED  BY <1>2, <1>3, Zenon DEF FrameEdge

\* One bottle, filled once, lit once: the handshake between the collision logic and
\* the car implements the tank.
THEOREM OneBottleAlways == PlaySpec => OneBottle
<1>1. PlayInit => Tank!TankInit
  BY Zenon DEF PlayInit, MapperInit, NitrousReset, Tank!TankInit
<1>2. PlayInv /\ [PlayNext]_playVars
        => [Tank!TankNext \/ UNCHANGED Tank!TankVar \/ ResetPlay]_playVars
  BY TickOfTank, FrameOfTank, Zenon DEF PlayNext, Tank!TankNext
<1> QED  BY <1>1, <1>2, PlayInvariant, PTL DEF PlaySpec, OneBottle
=============================================================================
