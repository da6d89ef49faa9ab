-------------------------------- MODULE Pipe --------------------------------
(***************************************************************************)
(* What the queue of a worklet promises its two ends, without rings,       *)
(* wakeups, locks or threads: a pipe in each direction, which holds a      *)
(* bounded number of messages in the order they were sent, ends when its   *)
(* sender does, and is there for both ends from before either is open      *)
(* until neither can use it.  The n-th message that an end sends is the    *)
(* number n.                                                               *)
(***************************************************************************)
EXTENDS Naturals, Sequences

CONSTANT Bound   \* how many messages a direction holds

VARIABLES
  inbox,   \* inbox[e]: the messages on their way to end e
  sent,    \* sent[e]: number of the last message e sent
  got,     \* got[e]: number of the last message e received
  eof,     \* eof[e]: whether e has received the end of the stream
  ended,   \* ended[e]: whether e sends no more
  closed,  \* closed[e]: whether e takes no more either
  gone     \* whether the pipe and what it held are gone

vars == <<inbox, sent, got, eof, ended, closed, gone>>

End == {"uv", "thread"}

Peer(e) == IF e = "uv" THEN "thread" ELSE "uv"

Init ==
  /\ inbox = [e \in End |-> <<>>]
  /\ sent = [e \in End |-> 0]
  /\ got = [e \in End |-> 0]
  /\ eof = [e \in End |-> FALSE]
  /\ ended = [e \in End |-> FALSE]
  /\ closed = [e \in End |-> FALSE]
  /\ gone = FALSE

Send(e) ==
  /\ ~gone /\ ~ended[e] /\ ~closed[Peer(e)]
  /\ Len(inbox[Peer(e)]) < Bound
  /\ sent' = [sent EXCEPT ![e] = @ + 1]
  /\ inbox' = [inbox EXCEPT ![Peer(e)] = Append(@, sent[e] + 1)]
  /\ UNCHANGED <<got, eof, ended, closed, gone>>

Receive(e) ==
  /\ ~gone /\ ~eof[e] /\ inbox[e] # <<>>
  /\ got' = [got EXCEPT ![e] = Head(inbox[e])]
  /\ inbox' = [inbox EXCEPT ![e] = Tail(@)]
  /\ UNCHANGED <<sent, eof, ended, closed, gone>>

\* The end of the stream comes after everything that was sent.
ReceiveEnd(e) ==
  /\ ~gone /\ ended[Peer(e)] /\ inbox[e] = <<>>
  /\ eof' = [eof EXCEPT ![e] = TRUE]
  /\ UNCHANGED <<inbox, sent, got, ended, closed, gone>>

Finish(e) ==
  /\ ~gone
  /\ ended' = [ended EXCEPT ![e] = TRUE]
  /\ UNCHANGED <<inbox, sent, got, eof, closed, gone>>

Close(e) ==
  /\ ~gone
  /\ ended' = [ended EXCEPT ![e] = TRUE]
  /\ closed' = [closed EXCEPT ![e] = TRUE]
  /\ UNCHANGED <<inbox, sent, got, eof, gone>>

\* Not before the worklet's end is closed, and not before the host is done with its
\* own, as nothing happens on it afterwards.
Drop ==
  /\ ~gone /\ closed["uv"]
  /\ gone' = TRUE
  /\ inbox' = [e \in End |-> <<>>]
  /\ UNCHANGED <<sent, got, eof, ended, closed>>

Next ==
  \/ \E e \in End : Send(e) \/ Receive(e) \/ ReceiveEnd(e) \/ Finish(e) \/ Close(e)
  \/ Drop

Spec == Init /\ [][Next]_vars

=============================================================================
