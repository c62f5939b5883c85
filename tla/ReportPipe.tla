----------------------------- MODULE ReportPipe ------------------------------
(***************************************************************************)
(* What polling a boot device promises: a pipe of one place.  The device   *)
(* offers a report until it knows that it has been taken, and then the     *)
(* next; the host takes each report once, in the order they are offered.   *)
(* The device may learn that its report was taken in the same step or      *)
(* later, when the acknowledgement of a repeated packet arrives.           *)
(***************************************************************************)
EXTENDS Integers

CONSTANT Reports      \* report numbers, counted round

VARIABLES report, got \* the report on offer, and the last one taken

After(r) == IF r = Reports - 1 THEN 0 ELSE r + 1

PipeInit == report \in 0 .. Reports - 1 /\ report = After(got)

Take    == report = After(got) /\ got' = report /\ UNCHANGED report
Know    == report = got /\ report' = After(report) /\ UNCHANGED got
TakeAndKnow == report = After(got) /\ got' = report /\ report' = After(report)

PipeNext == Take \/ Know \/ TakeAndKnow
PipeSpec == PipeInit /\ [][PipeNext]_<<report, got>>
=============================================================================
