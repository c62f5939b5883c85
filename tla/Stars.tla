------------------------------- MODULE Stars --------------------------------
(***************************************************************************)
(* The star that crosses the screen now and then: stars.sv and             *)
(* spawnStar.sv.  One step is one edge of the frame clock.                 *)
(***************************************************************************)
EXTENDS Integers, Word11, LaneGenerator

CONSTANT StarDelay    \* frames between two stars (1000 in the source)

ASSUME StarAssumption == StarDelay \in 1 .. 1023      \* count has ten bits

Star_X_Max == 639
Star_Y_Max == 479

VARIABLES
  Star_X_Pos, Star_Y_Pos, Star_X_Motion, Star_Y_Motion,
  starLive,           \* the star is shown and can be gathered
  expired,            \* it has left the screen
  spawn,              \* enables the generator at the next frame
  count,              \* frames waited for the next star
  starCode            \* the generator's register

starPath == <<Star_X_Pos, Star_Y_Pos, Star_X_Motion, Star_Y_Motion>>
starVars == <<starPath, starLive, expired, spawn, count, starCode>>

\* The four corners a star can start from, with the motion towards the middle.
\* The table says nothing for the other codes the generator runs through; the
\* hardware then gives each of the four outputs one value or the other.
NewStars(c) ==
  CASE c = 1 -> {<<0, 0, 3, 2>>}
    [] c = 3 -> {<<599, 0, -3, 2>>}
    [] c = 5 -> {<<0, 441, 3, -2>>}
    [] c = 6 -> {<<599, 441, -3, -2>>}
    [] OTHER -> {0, 599} \X {0, 441} \X {3, -3} \X {2, -2}

\* Comparisons with the unsigned edges: a negative coordinate reads as a large
\* one, so that the tests of the upper edges catch the lower ones as well.
OffScreen_RightOnly == Unsigned(Star_X_Pos) > Star_X_Max

OffScreen == Unsigned(Star_Y_Pos) > Star_Y_Max \/ Unsigned(Star_X_Pos) > Star_X_Max

PathBecomes(p) ==
  /\ Star_X_Pos' = p[1] /\ Star_Y_Pos' = p[2]
  /\ Star_X_Motion' = p[3] /\ Star_Y_Motion' = p[4]

NewPath == \E p \in NewStars(starCode) : PathBecomes(p)

StarGenerate == starCode' = IF spawn THEN LFSRStep(starCode) ELSE starCode

Waited_OneMore == count > StarDelay

Waited == count >= StarDelay

Wait(collect) ==
  /\ collect \/ expired
  /\ ~Waited
  /\ count' = count + 1
  /\ starLive' = FALSE
  /\ PathBecomes(<<-100, -100, 0, 0>>)
  /\ UNCHANGED <<expired, spawn>>

Launch_StaleCount(collect) ==
  /\ collect \/ expired
  /\ Waited
  /\ starLive' = TRUE
  /\ expired' = FALSE
  /\ spawn' = TRUE
  /\ NewPath
  /\ UNCHANGED count

Launch_Expired(collect) ==
  /\ collect \/ expired
  /\ Waited
  /\ starLive' = FALSE
  /\ expired' = FALSE
  /\ spawn' = TRUE
  /\ count' = 0
  /\ NewPath

Launch(collect) ==
  /\ collect \/ expired
  /\ Waited
  /\ starLive' = TRUE
  /\ expired' = FALSE
  /\ spawn' = TRUE
  /\ count' = 0
  /\ NewPath

Fly(collect) ==
  /\ ~collect /\ ~expired
  /\ spawn' = FALSE
  /\ expired' = OffScreen
  /\ PathBecomes(<<Wrap(Star_X_Pos + Star_X_Motion), Wrap(Star_Y_Pos + Star_Y_Motion),
                    Star_X_Motion, Star_Y_Motion>>)
  /\ UNCHANGED <<starLive, count>>

StarFrame(collect) ==
  /\ StarGenerate
  /\ Wait(collect) \/ Launch(collect) \/ Fly(collect)

StarInit ==
  /\ \E p \in NewStars(0) : /\ Star_X_Pos = p[1] /\ Star_Y_Pos = p[2]
                           /\ Star_X_Motion = p[3] /\ Star_Y_Motion = p[4]
  /\ starLive = FALSE /\ spawn = TRUE
  /\ expired = FALSE /\ count = 0 /\ starCode = 0        \* power-up values

\* The reset hides the star and sends it off; whether it had left the screen, and
\* how long the next one had been waited for, is left over from the last game.
ResetStar ==
  /\ starLive' = FALSE
  /\ spawn' = TRUE
  /\ NewPath
  /\ UNCHANGED <<expired, count, starCode>>

StarStep == \E collect \in BOOLEAN : StarFrame(collect)

StarSpec == StarInit /\ [][StarStep \/ ResetStar]_starVars /\ WF_starVars(StarStep)

-----------------------------------------------------------------------------
(* Properties. *)

StarTypeOK ==
  /\ Star_X_Pos \in Signed /\ Star_Y_Pos \in Signed
  /\ Star_X_Motion \in {-3, 0, 3} /\ Star_Y_Motion \in {-2, 0, 2}
  /\ starLive \in BOOLEAN /\ expired \in BOOLEAN /\ spawn \in BOOLEAN
  /\ count \in 0 .. StarDelay
  /\ starCode \in Codes

\* A star that can be gathered is on the screen or left it at most two motions
\* ago: nobody gathers a star that wrapped round or waits outside.
LiveOnScreen ==
  starLive => Star_X_Pos \in -6 .. 645 /\ Star_Y_Pos \in -4 .. 483

\* After a star is gathered or lost the next one comes, however the flag of the
\* collision logic moves meanwhile, unless the player keeps resetting the game.
NextStarComes ==
  <>[][StarStep]_starVars => (~starLive ~> starLive)
=============================================================================
