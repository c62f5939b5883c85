----------------------------- MODULE GameRules ------------------------------
(***************************************************************************)
(* The rules a player of Hot Pursuit knows: five lives, three stars.  An   *)
(* obstacle costs a life, an oil barrel two, a heart gives one back; the   *)
(* game is over when the lives are used up or the stars complete.  What    *)
(* the car drives into counts once, and nothing else counts before the car *)
(* is clear of everything.                                                 *)
(*                                                                         *)
(* A turn is told what the car touches: the set of things, and whether a   *)
(* star.  How often turns are taken, and which of several things touched   *)
(* at once is the one that counts, the rules leave open.                   *)
(***************************************************************************)
EXTENDS RoadObjects

VARIABLES
  lives, starsHeld, gameLost, gameWon,
  struck,             \* the thing that counted, while the car is not clear: {} or {i}
  gathering,          \* the star under the car has been counted
  shielded            \* the car carries a shield

rulesVars == <<lives, starsHeld, gameLost, gameWon, struck, gathering, shielded>>

AllLives == 5
AllStars == 3

NewGame(l, s, lost, won) == l = AllLives /\ s = 0 /\ lost = FALSE /\ won = FALSE
Clear(thing, star, shield) == thing = {} /\ star = FALSE /\ shield = FALSE

RulesInit ==
  NewGame(lives, starsHeld, gameLost, gameWon) /\ Clear(struck, gathering, shielded)

Over == gameLost \/ gameWon

Price(i) == IF i = Barrel THEN 2 ELSE IF i \in {Rock, Tree, Cone} THEN 1 ELSE 0

Survives(i) == lives > Price(i)

\* The shield saves lives, but not the ones that would be the last.
Suffer(i) ==
  /\ lives' = IF ~Survives(i) THEN 0
              ELSE IF i = Life THEN (IF lives < AllLives THEN lives + 1 ELSE lives)
              ELSE IF shielded THEN lives ELSE lives - Price(i)
  /\ gameLost' = IF Survives(i) THEN gameLost ELSE TRUE

Strike(contact) ==
  /\ ~Over /\ struck = {}
  /\ \E i \in contact : struck' = {i} /\ Suffer(i)
  /\ UNCHANGED <<starsHeld, gathering>>

\* Whatever the car is driven into before it is clear of everything is free.
Stay(contact) ==
  /\ contact # {}
  /\ Over \/ struck # {}
  /\ UNCHANGED <<struck, gathering, lives, starsHeld, gameLost>>

\* A star counts when nothing else is touched, and once.
Gather(contact, star) ==
  /\ contact = {} /\ star /\ ~Over
  /\ gathering' = TRUE
  /\ starsHeld' = IF gathering THEN starsHeld ELSE starsHeld + 1
  /\ starsHeld' <= AllStars
  /\ UNCHANGED <<struck, lives, gameLost>>

ComeClear(contact, star) ==
  /\ contact = {} /\ (star => Over)
  /\ struck' = {} /\ gathering' = FALSE
  /\ UNCHANGED <<lives, starsHeld, gameLost>>

\* A player who holds the last star wins, even in the moment in which the last
\* life goes.  A shield has to be picked up.
Turn(contact, star) ==
  /\ \/ Strike(contact) \/ Stay(contact)
     \/ Gather(contact, star) \/ ComeClear(contact, star)
  /\ gameWon' = IF starsHeld = AllStars THEN TRUE ELSE gameWon
  /\ shielded' => shielded \/ (struck = {} /\ struck' = {Shield})

Restart ==
  NewGame(lives', starsHeld', gameLost', gameWon') /\ Clear(struck', gathering', shielded')

RulesNext ==
  \/ Restart
  \/ \E contact \in SUBSET AllObjs, star \in BOOLEAN : Turn(contact, star)

RulesSpec == RulesInit /\ [][RulesNext]_rulesVars
=============================================================================
