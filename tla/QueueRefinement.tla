--------------------------- MODULE QueueRefinement ---------------------------
(***************************************************************************)
(* The queue as its clients use it, QueueProtocol, implements Pipe: what   *)
(* is in a ring, from its tail up to its head, is what is on its way.      *)
(***************************************************************************)
EXTENDS QueueProtocol

Messages(r) == [i \in 1 .. Count(r) |-> r.slots[Slot(r, i - 1)]]

P == INSTANCE Pipe WITH
       Bound  <- Capacity - 1,
       inbox  <- [e \in End |-> Messages(ring[e])],
       sent   <- written,
       got    <- taken,
       eof    <- eof,
       ended  <- [e \in End |-> state[e] >= Ended],
       closed <- [e \in End |-> state[e] = Closed],
       gone   <- freed > 0

(***************************************************************************)
(* Every step of worklet.c, worklet.js and the host on queue.c is a step   *)
(* of the pipe or none: a message is taken whole, once and in order, also  *)
(* when it was written before the other end was opened; a write that finds *)
(* a full ring changes nothing; an end that closes does not take what it   *)
(* has sent with it; and nothing is sent, received, ended or closed once   *)
(* the queue is freed.                                                     *)
(***************************************************************************)
ImplementsPipe == P!Spec

=============================================================================
