------------------------------ MODULE ByteQueue ------------------------------
(***************************************************************************)
(* What each direction of the console promises: a queue of bytes.  Bytes   *)
(* are numbered, modulo Numbers, as they are accepted; they leave in that  *)
(* order, each of them once, and never more than Capacity are on the way.  *)
(***************************************************************************)
EXTENDS Integers, Sequences

CONSTANTS Capacity, Numbers
VARIABLES queue, next

QueueInit == queue = <<>> /\ next = 0

\* n bytes are accepted at once: the driver copies them in pieces.
Accept(n) ==
  /\ Len(queue) + n <= Capacity
  /\ queue' = queue \o [i \in 1 .. n |-> (next + i - 1) % Numbers]
  /\ next' = (next + n) % Numbers

\* n bytes are delivered.
Deliver(n) ==
  /\ n <= Len(queue)
  /\ queue' = SubSeq(queue, n + 1, Len(queue))
  /\ UNCHANGED next

QueueNext == \E n \in 1 .. Capacity : Accept(n) \/ Deliver(n)

QueueSpec == QueueInit /\ [][QueueNext]_<<queue, next>>
=============================================================================
