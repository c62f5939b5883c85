------------------------------- MODULE Word11 -------------------------------
(***************************************************************************)
(* The 11-bit words in which the game modules keep positions and motions.  *)
(* A register declared "logic signed [10:0]" holds -1024..1023; the same   *)
(* eleven bits compared with an unsigned parameter are read as 0..2047.    *)
(***************************************************************************)
EXTENDS Integers

Signed == -1024 .. 1023

\* The 11-bit result of adding or subtracting two signed words.
Wrap(n) == IF n > 1023 THEN n - 2048 ELSE IF n < -1024 THEN n + 2048 ELSE n

\* A signed word as an unsigned comparison sees it.
Unsigned(n) == IF n < 0 THEN n + 2048 ELSE n
=============================================================================
