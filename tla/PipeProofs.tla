----------------------------- MODULE PipeProofs ------------------------------
(***************************************************************************)
(* The queue implements the pipe of Pipe, for rings of every capacity and  *)
(* streams of every length, proved.                                        *)
(***************************************************************************)
EXTENDS QueueRefinement, QueueProofs, Sequences

USE CapacityAssumption

-----------------------------------------------------------------------------
(* What is on its way *)

\* The n messages that follow message t.
Following(t, n) == [i \in 1 .. n |-> t + i]

\* As a sequence, they grow at their end and are taken from their front.
LEMMA FollowingValue ==
  ASSUME NEW t \in Nat, NEW n \in Nat
  PROVE  /\ Following(t, n) \in Seq(Nat)
         /\ Len(Following(t, n)) = n
         /\ Following(t, n) = <<>> <=> n = 0
         /\ Append(Following(t, n), t + n + 1) = Following(t, n + 1)
         /\ n > 0 => /\ Head(Following(t, n)) = t + 1
                     /\ Tail(Following(t, n)) = Following(t + 1, n - 1)
<1>1. Following(t, n) \in Seq(Nat) /\ Len(Following(t, n)) = n
  BY DEF Following
<1>2. Following(t, n) = <<>> <=> n = 0
  BY <1>1 DEF Following
<1>3. Append(Following(t, n), t + n + 1) = Following(t, n + 1)
  BY <1>1 DEF Following
<1>4. n > 0 => /\ Head(Following(t, n)) = t + 1
               /\ Tail(Following(t, n)) = Following(t + 1, n - 1)
  BY <1>1 DEF Following
<1>5. QED
  BY <1>1, <1>2, <1>3, <1>4

\* While the queue lives, the messages in an inbox follow the last one read.
LEMMA MessagesValue ==
  ASSUME NEW r \in Ring, NEW t \in Nat,
         \A i \in 0 .. Count(r) - 1 : r.slots[Slot(r, i)] = t + 1 + i
  PROVE  /\ Messages(r) = Following(t, Count(r))
         /\ Count(r) \in Nat /\ Count(r) <= Capacity - 1
<1>1. Count(r) \in Nat /\ Count(r) <= Capacity - 1
  BY CountValue
<1>2. ASSUME NEW i \in 1 .. Count(r)
      PROVE  r.slots[Slot(r, i - 1)] = t + i
  <2>1. i - 1 \in 0 .. Count(r) - 1
    BY <1>1
  <2>2. r.slots[Slot(r, i - 1)] = t + 1 + (i - 1)
    BY <2>1
  <2>3. QED
    BY <1>1, <2>2
<1>3. QED
  BY <1>1, <1>2 DEF Messages, Following

-----------------------------------------------------------------------------
(* Steps *)

\* Which ends send no more, and which take no more either.
EndedEnds == [e \in End |-> state[e] >= Ended]

ClosedEnds == [e \in End |-> state[e] = Closed]

\* Whether an end has ended is a truth value.
LEMMA EndsType ==
  ASSUME NEW s, \A e \in End : s[e] \in Nat,
         NEW f, f = [e \in End |-> s[e] >= Ended]
  PROVE  /\ f \in [End -> BOOLEAN]
         /\ \A e \in End : f[e] <=> s[e] >= Ended
<1>1. \A e \in End : (s[e] >= Ended) \in BOOLEAN
  BY DEF Ended
<1>2. QED
  BY <1>1

\* One end advances.
LEMMA Mark ==
  ASSUME NEW f \in [End -> BOOLEAN], NEW g \in [End -> BOOLEAN], NEW e \in End,
         \A d \in End : g[d] <=> d = e \/ f[d]
  PROVE  g = [f EXCEPT ![e] = TRUE]
OBVIOUS

\* A new queue is an empty pipe.
LEMMA PipeInit == Init => P!Init
<1>. SUFFICES ASSUME Init PROVE P!Init
  OBVIOUS
<1>1. \A e \in End : Count(ring[e]) = 0
  BY DEF Init, bare_queue_create, Count
<1>2. \A e \in End : Messages(ring[e]) = <<>>
  BY <1>1 DEF Messages
<1>3. EndedEnds = [e \in End |-> FALSE] /\ ClosedEnds = [e \in End |-> FALSE]
  <2>1. \A e \in End : state[e] = 0
    BY DEF Init, bare_queue_create, Idle
  <2>2. \A e \in End : (state[e] >= Ended) = FALSE /\ (state[e] = Closed) = FALSE
    BY <2>1 DEF Ended, Closed
  <2>3. QED
    BY <2>2, Zenon DEF EndedEnds, ClosedEnds
<1>4. ~(freed > 0)
  BY DEF Init, bare_queue_create
<1>5. written = [e \in End |-> 0] /\ taken = [e \in End |-> 0] /\ eof = [e \in End |-> FALSE]
  BY DEF Init
<1>6. [e \in End |-> Messages(ring[e])] = [e \in End |-> <<>>]
  BY <1>2
<1>7. P!End = End
  BY DEF P!End, End
<1>8. (freed > 0) = FALSE
  BY <1>4
<1>9. QED
  BY <1>3, <1>5, <1>6, <1>7, <1>8 DEF P!Init, EndedEnds, ClosedEnds

\* A step that moves no message and leaves both ends as far as they have come.
LEMMA PipeStutter ==
  ASSUME UNCHANGED <<ring, written, taken, eof, freed>>,
         \A e \in End : /\ (state'[e] >= Ended) = (state[e] >= Ended)
                        /\ (state'[e] = Closed) = (state[e] = Closed)
  PROVE  UNCHANGED P!vars
BY DEF P!vars, Messages, Count, Slot

\* The queue is there until both shares are given up.
LEMMA QueueLives ==
  ASSUME TypeOK, Shares, thread # "destroyed" \/ port = "held"
  PROVE  freed = 0
BY DEF TypeOK, Shares

\* How far an end has come is a number up to Closed.
LEMMA StateType ==
  ASSUME TypeOK
  PROVE  \A d \in End : state[d] \in Nat /\ state[d] <= 3
<1>1. state \in [End -> 0 .. 3]
  BY Zenon DEF TypeOK, States, Idle, Closed
<1>2. QED
  BY <1>1

\* bare_queue_end is Finish, ...
LEMMA PipeFinish ==
  ASSUME TypeOK, NEW e \in End, freed = 0, bare_queue_end(e), UNCHANGED <<written, taken, eof>>
  PROVE  P!Finish(e)
<1>1. state' = [state EXCEPT ![e] = IF @ < Ended THEN Ended ELSE @]
      /\ UNCHANGED <<ring, freed>>
  BY DEF bare_queue_end, bare_queue__advance
<1>2. \A d \in End : state[d] \in Nat /\ state[d] <= 3
  BY StateType
<1>3. \A d \in End : /\ state'[d] \in Nat
                     /\ state'[d] >= Ended <=> d = e \/ state[d] >= Ended
                     /\ state'[d] = Closed <=> state[d] = Closed
  BY <1>1, <1>2 DEF TypeOK, Ended, Closed
<1>4. UNCHANGED [d \in End |-> Messages(ring[d])]
  BY <1>1 DEF Messages, Count, Slot
<1>5. EndedEnds' = [EndedEnds EXCEPT ![e] = TRUE]
  <2>1. EndedEnds \in [End -> BOOLEAN] /\ \A d \in End : EndedEnds[d] <=> state[d] >= Ended
    BY <1>2, EndsType DEF EndedEnds
  <2>2. EndedEnds' \in [End -> BOOLEAN] /\ \A d \in End : EndedEnds'[d] <=> state'[d] >= Ended
    BY <1>3, EndsType DEF EndedEnds
  <2>3. \A d \in End : EndedEnds'[d] <=> d = e \/ EndedEnds[d]
    BY <1>3, <2>1, <2>2, Zenon
  <2>4. QED
    BY <2>1, <2>2, <2>3, Mark
<1>6. UNCHANGED ClosedEnds
  BY <1>3 DEF ClosedEnds
<1>7. ~(freed > 0) /\ UNCHANGED (freed > 0)
  BY <1>1
<1>8. QED
  BY <1>4, <1>5, <1>6, <1>7 DEF P!Finish, EndedEnds, ClosedEnds

\* ... and bare_queue_close is Close.
LEMMA PipeClose ==
  ASSUME TypeOK, NEW e \in End, freed = 0, bare_queue_close(e), UNCHANGED <<written, taken, eof>>
  PROVE  P!Close(e)
<1>1. state' = [state EXCEPT ![e] = IF @ < Closed THEN Closed ELSE @]
      /\ UNCHANGED <<ring, freed>>
  BY DEF bare_queue_close, bare_queue__advance
<1>2. \A d \in End : state[d] \in Nat /\ state[d] <= 3
  BY StateType
<1>3. \A d \in End : /\ state'[d] \in Nat
                     /\ state'[d] >= Ended <=> d = e \/ state[d] >= Ended
                     /\ state'[d] = Closed <=> d = e \/ state[d] = Closed
  BY <1>1, <1>2 DEF TypeOK, Ended, Closed
<1>4. UNCHANGED [d \in End |-> Messages(ring[d])]
  BY <1>1 DEF Messages, Count, Slot
<1>5. EndedEnds' = [EndedEnds EXCEPT ![e] = TRUE]
  <2>1. EndedEnds \in [End -> BOOLEAN] /\ \A d \in End : EndedEnds[d] <=> state[d] >= Ended
    BY <1>2, EndsType DEF EndedEnds
  <2>2. EndedEnds' \in [End -> BOOLEAN] /\ \A d \in End : EndedEnds'[d] <=> state'[d] >= Ended
    BY <1>3, EndsType DEF EndedEnds
  <2>3. \A d \in End : EndedEnds'[d] <=> d = e \/ EndedEnds[d]
    BY <1>3, <2>1, <2>2, Zenon
  <2>4. QED
    BY <2>1, <2>2, <2>3, Mark
<1>6. ClosedEnds' = [ClosedEnds EXCEPT ![e] = TRUE]
  BY <1>3, Mark DEF ClosedEnds
<1>7. ~(freed > 0) /\ UNCHANGED (freed > 0)
  BY <1>1
<1>8. QED
  BY <1>4, <1>5, <1>6, <1>7 DEF P!Close, EndedEnds, ClosedEnds

\* The messages on their way to each end.
Inboxes == [e \in End |-> Messages(ring[e])]

\* A write is Send, or is refused.
LEMMA PipeSend ==
  ASSUME TypeOK, \A d \in End : FifoAt(d), freed = 0, NEW e \in End, Send(e),
         UNCHANGED <<taken, eof>>
  PROVE  P!Send(e) \/ UNCHANGED P!vars
<1>. DEFINE p == Peer(e)
            q == bare_queue__ring_push(ring[p], written[e] + 1)
<1>0. p \in End /\ p # e /\ Peer(p) = e /\ End = {e, p} /\ ring[p] \in Ring
      /\ Peer(e) = p /\ taken \in [End -> Nat] /\ written \in [End -> Nat]
      /\ P!Peer(e) = p /\ ring \in [End -> Ring]
  BY PeerType DEF End, TypeOK, Ring, P!Peer, Peer
<1>1. UNCHANGED <<state, freed>>
  BY DEF Send, bare_queue_write
<1>2. CASE WriteResult(e) # "ok"
  <2>1. UNCHANGED <<ring, written>>
    BY <1>2 DEF Send, bare_queue_write
  <2>2. QED
    BY <1>1, <2>1, PipeStutter
<1>3. CASE WriteResult(e) = "ok"
  <2>1. /\ ~(state[e] >= Ended) /\ state[p] # Closed
        /\ ~bare_queue__ring_full(ring[p])
    BY <1>3 DEF WriteResult, bare_queue__outbox
  <2>2. ring' = [ring EXCEPT ![p] = q] /\ written' = [written EXCEPT ![e] = @ + 1]
    BY <1>3 DEF Send, bare_queue_write
  <2>3. q \in Ring /\ Count(q) = Count(ring[p]) + 1
    BY <1>0, <2>1, PushValue
  <2>. HIDE DEF p, q
  <2>4. Count(ring[p]) \in Nat /\ Count(ring[p]) < Capacity - 1
    BY <1>0, <2>1, CountValue
  <2>5. \A d \in End : FifoAt(d)'
    BY SendFifo
  <2>6. Messages(ring[p]) = Following(taken[p], Count(ring[p]))
        /\ written[e] = taken[p] + Count(ring[p])
    BY <1>0, MessagesValue DEF FifoAt
  <2>7. Messages(q) = Following(taken[p], Count(ring[p]) + 1)
    <3>1. ring'[p] = q /\ taken' = taken
      BY <1>0, <2>2
    <3>2. \A i \in 0 .. Count(q) - 1 : q.slots[Slot(q, i)] = taken[p] + 1 + i
      BY <1>0, <2>5, <3>1 DEF FifoAt
    <3>3. QED
      BY <1>0, <2>3, <3>2, MessagesValue
  <2>8. Messages(q) = Append(Messages(ring[p]), written[e] + 1)
        /\ Len(Messages(ring[p])) < Capacity - 1
    <3>1. taken[p] \in Nat
      BY <1>0
    <3>2. /\ Len(Following(taken[p], Count(ring[p]))) = Count(ring[p])
          /\ Append(Following(taken[p], Count(ring[p])), taken[p] + Count(ring[p]) + 1)
               = Following(taken[p], Count(ring[p]) + 1)
      BY <2>4, <3>1, FollowingValue
    <3>3. QED
      BY <2>4, <2>6, <2>7, <3>2
  <2>9. Inboxes' = [Inboxes EXCEPT ![p] = Append(@, written[e] + 1)]
    <3>1. \A d \in End : Messages(ring'[d]) =
                IF d = p THEN Append(Messages(ring[p]), written[e] + 1) ELSE Messages(ring[d])
      BY <1>0, <2>2, <2>8
    <3>2. Inboxes' = [d \in End |-> Messages(ring'[d])]
      BY DEF Inboxes, Messages, Count, Slot
    <3>3. QED
      BY <1>0, <3>1, <3>2 DEF Inboxes
  <2>10. Inboxes[p] = Messages(ring[p]) /\ EndedEnds[e] = (state[e] >= Ended)
         /\ ClosedEnds[p] = (state[p] = Closed)
    BY <1>0, Zenon DEF Inboxes, EndedEnds, ClosedEnds
  <2>11. Len(Inboxes[p]) < Capacity - 1 /\ ~EndedEnds[e] /\ ~ClosedEnds[p]
    BY <2>1, <2>8, <2>10
  <2>12. UNCHANGED <<taken, eof, EndedEnds, ClosedEnds, freed > 0>> /\ ~(freed > 0)
    BY <1>1 DEF EndedEnds, ClosedEnds
  <2>13. P!Send(e)
    BY <1>0, <2>2, <2>9, <2>11, <2>12 DEF P!Send, Inboxes, EndedEnds, ClosedEnds
  <2>14. QED
    BY <2>13
<1>4. QED
  BY <1>2, <1>3

\* A read that yields a message is Receive.
LEMMA PipeReceive ==
  ASSUME TypeOK, \A d \in End : FifoAt(d), EofFinal, freed = 0, NEW e \in End, DrainData(e)
  PROVE  P!Receive(e)
<1>. DEFINE q == bare_queue__ring_shift(ring[e])
<1>0. ring[e] \in Ring /\ taken[e] \in Nat /\ ring \in [End -> Ring] /\ taken \in [End -> Nat]
  BY DEF TypeOK, Ring
<1>1. ~bare_queue__ring_empty(ring[e])
  BY DEF DrainData, ReadResult, bare_queue__inbox
<1>2. /\ ring' = [ring EXCEPT ![e] = q]
      /\ UNCHANGED <<state, freed, written, eof>>
  BY DEF DrainData, bare_queue_read
<1>3. q \in Ring /\ Count(q) = Count(ring[e]) - 1
  BY <1>0, <1>1, ShiftValue
<1>. HIDE DEF q
<1>4. Count(ring[e]) \in Nat /\ Count(ring[e]) > 0
  BY <1>0, <1>1, CountValue
<1>5. (\A d \in End : FifoAt(d)') /\ taken' = [taken EXCEPT ![e] = @ + 1]
  BY DrainFifo
<1>6. Messages(ring[e]) = Following(taken[e], Count(ring[e]))
  BY <1>0, MessagesValue DEF FifoAt
<1>7. Messages(q) = Following(taken[e] + 1, Count(ring[e]) - 1)
  <2>1. ring'[e] = q /\ taken'[e] = taken[e] + 1 /\ taken[e] + 1 \in Nat
    BY <1>0, <1>2, <1>5
  <2>2. \A i \in 0 .. Count(q) - 1 : q.slots[Slot(q, i)] = (taken[e] + 1) + 1 + i
    BY <1>5, <2>1 DEF FifoAt
  <2>3. QED
    BY <1>3, <2>1, <2>2, MessagesValue
<1>8. /\ Messages(ring[e]) # <<>>
      /\ Head(Messages(ring[e])) = taken[e] + 1
      /\ Messages(q) = Tail(Messages(ring[e]))
  <2>1. Count(ring[e]) # 0
    BY <1>4
  <2>2. /\ Following(taken[e], Count(ring[e])) # <<>>
        /\ Head(Following(taken[e], Count(ring[e]))) = taken[e] + 1
        /\ Tail(Following(taken[e], Count(ring[e])))
             = Following(taken[e] + 1, Count(ring[e]) - 1)
    BY <1>0, <1>4, <2>1, FollowingValue, Zenon
  <2>3. QED
    BY <1>6, <1>7, <2>2
<1>9. Inboxes' = [Inboxes EXCEPT ![e] = Tail(@)]
  <2>1. \A d \in End : Messages(ring'[d]) =
              IF d = e THEN Tail(Messages(ring[e])) ELSE Messages(ring[d])
    BY <1>0, <1>2, <1>8
  <2>2. Inboxes' = [d \in End |-> Messages(ring'[d])]
    BY DEF Inboxes, Messages, Count, Slot
  <2>3. QED
    BY <2>1, <2>2 DEF Inboxes
<1>10. Inboxes[e] # <<>> /\ taken' = [taken EXCEPT ![e] = Head(Inboxes[e])]
  BY <1>5, <1>8 DEF Inboxes
<1>11. ~eof[e]
  BY <1>1 DEF EofFinal
<1>12. UNCHANGED <<written, eof, EndedEnds, ClosedEnds, freed > 0>> /\ ~(freed > 0)
  BY <1>2 DEF EndedEnds, ClosedEnds
<1>13. QED
  BY <1>9, <1>10, <1>11, <1>12 DEF P!Receive, Inboxes, EndedEnds, ClosedEnds

\* A read that yields the end of the stream is ReceiveEnd.
LEMMA PipeReceiveEnd ==
  ASSUME TypeOK, freed = 0, NEW e \in End, DrainEnd(e)
  PROVE  P!ReceiveEnd(e)
<1>1. /\ bare_queue__ring_empty(ring[e]) /\ state[Peer(e)] >= Ended
      /\ UNCHANGED <<ring, state, freed, written, taken>>
      /\ eof' = [eof EXCEPT ![e] = TRUE]
  BY DEF DrainEnd, bare_queue_read, ReadResult, bare_queue__inbox
<1>2. ring[e] \in Ring /\ Peer(e) \in End /\ P!Peer(e) = Peer(e)
  BY PeerType DEF TypeOK, Ring, Peer, P!Peer
<1>3. Count(ring[e]) = 0
  BY <1>1, <1>2, CountValue
<1>4. Inboxes[e] = <<>>
  BY <1>3 DEF Inboxes, Messages
<1>5. EndedEnds[Peer(e)]
  BY <1>1, <1>2, Zenon DEF EndedEnds
<1>6. UNCHANGED <<Inboxes, written, taken, EndedEnds, ClosedEnds, freed > 0>> /\ ~(freed > 0)
  BY <1>1 DEF Inboxes, Messages, Count, Slot, EndedEnds, ClosedEnds
<1>7. QED
  BY <1>1, <1>2, <1>4, <1>5, <1>6 DEF P!ReceiveEnd, Inboxes, EndedEnds, ClosedEnds

\* The release of the queue is Drop.
LEMMA PipeDrop ==
  ASSUME TypeOK, Shares, Free
  PROVE  P!Drop
<1>1. /\ freed = 0 /\ freed' = 1 /\ thread = "destroyed"
      /\ UNCHANGED <<state, written, taken, eof>>
      /\ ring' = [e \in End |-> [ring[e] EXCEPT !.tail = ring[e].head]]
  <2>1. /\ freeing > 0 /\ freed' = freed + 1
        /\ UNCHANGED <<state, written, taken, eof>>
        /\ ring' = [e \in End |-> [ring[e] EXCEPT !.tail = ring[e].head]]
    BY DEF Free, bare_queue__free, clientVars
  <2>2. freeing \in Nat /\ freed \in Nat
    BY DEF TypeOK
  <2>3. freeing + freed = 1 /\ thread = "destroyed"
    BY <2>1, <2>2 DEF Shares
  <2>4. QED
    BY <2>1, <2>2, <2>3
<1>2. state["uv"] = Closed
  BY <1>1 DEF TypeOK, Shares, States, End, Idle, Open, Ended, Closed
<1>3. \A e \in End : Count(ring'[e]) = 0
  <2>1. ASSUME NEW e \in End
        PROVE  ring'[e].head = ring[e].head /\ ring'[e].tail = ring[e].head /\ ring[e].head \in Nat
    BY <1>1 DEF TypeOK, Index
  <2>2. QED
    BY <2>1 DEF Count
<1>4. Inboxes' = [e \in End |-> <<>>]
  <2>1. \A e \in End : Messages(ring'[e]) = <<>>
    BY <1>3 DEF Messages
  <2>2. Inboxes' = [d \in End |-> Messages(ring'[d])]
    BY DEF Inboxes, Messages, Count, Slot
  <2>3. QED
    BY <2>1, <2>2
<1>5. "uv" \in End /\ ClosedEnds["uv"] = (state["uv"] = Closed)
  BY Zenon DEF ClosedEnds, End
<1>6. UNCHANGED <<written, taken, eof, EndedEnds, ClosedEnds>>
  BY <1>1 DEF EndedEnds, ClosedEnds
<1>7. (freed > 0)' = TRUE /\ ~(freed > 0)
  BY <1>1
<1>8. P!End = End
  BY DEF P!End, End
<1>9. QED
  BY <1>2, <1>4, <1>5, <1>6, <1>7, <1>8 DEF P!Drop, Inboxes, EndedEnds, ClosedEnds

-----------------------------------------------------------------------------

\* What a client does with its end is a step of the pipe, or none.
LEMMA PipeClient ==
  ASSUME MessageInv, NEW e \in End, Client(e)
  PROVE  P!Next \/ UNCHANGED P!vars
<1>1. CanUse(e)
  BY DEF Client, Write, Ask, Wake, Retry, Drain, DrainData, DrainEnd, DrainNothing
<1>2. freed = 0 /\ (\A d \in End : FifoAt(d)) /\ TypeOK /\ EofFinal /\ e \in P!End
  BY <1>1, QueueLives DEF CanUse, MessageInv, Fifo, FifoAt, P!End, End
<1>3. CASE Ask(e) \/ Wake(e) \/ DrainNothing(e)
  <2>1. UNCHANGED <<ring, written, taken, eof, freed, state>>
    BY <1>3 DEF Ask, Wake, DrainNothing, bare_queue_read, queueVars
  <2>2. QED
    BY <2>1, PipeStutter
<1>4. CASE Write(e)
  <2>1. P!Send(e) \/ UNCHANGED P!vars
    BY <1>2, <1>4, PipeSend DEF Write
  <2>2. QED
    BY <1>2, <2>1 DEF P!Next
<1>5. CASE Retry(e) /\ blocked[e]
  <2>1. P!Send(e) \/ UNCHANGED P!vars
    BY <1>2, <1>5, PipeSend DEF Retry
  <2>2. QED
    BY <1>2, <2>1 DEF P!Next
<1>6. CASE Retry(e) /\ ~blocked[e]
  <2>1. UNCHANGED <<ring, written, taken, eof, freed, state>>
    BY <1>6 DEF Retry, queueVars
  <2>2. QED
    BY <2>1, PipeStutter
<1>7. CASE DrainData(e)
  BY <1>2, <1>7, PipeReceive DEF P!Next
<1>8. CASE DrainEnd(e)
  BY <1>2, <1>8, PipeReceiveEnd DEF P!Next
<1>9. QED
  BY <1>3, <1>4, <1>5, <1>6, <1>7, <1>8 DEF Client, Drain

\* Every step of the queue's clients is a step of the pipe, or none.
LEMMA PipeStep ==
  ASSUME MessageInv, [Next]_vars
  PROVE  P!Next \/ UNCHANGED P!vars
<1>0. TypeOK /\ Shares /\ "uv" \in End /\ "thread" \in End
      /\ "uv" \in P!End /\ "thread" \in P!End
  BY DEF MessageInv, End, P!End
<1>1. CASE \/ Start \/ OpenInit \/ OpenNotify \/ Shutdown
           \/ DestroyStarted \/ DestroyQueue \/ HostEndSignal \/ UNCHANGED vars
  <2>1. UNCHANGED <<ring, written, taken, eof, freed, state>>
    BY <1>1 DEF Start, OpenInit, OpenNotify, Shutdown, DestroyStarted, DestroyQueue,
                HostEndSignal, bare_queue_open_uv_init, bare_queue_open_uv_notify,
                bare_queue_shutdown_uv, bare_queue_destroy, vars, queueVars, clientVars
  <2>2. QED
    BY <2>1, PipeStutter
<1>2. CASE OpenPublish \/ HostOpen
  <2>1. PICK e \in End : state[e] = Idle /\ state' = [state EXCEPT ![e] = Open]
    BY <1>0, <1>2 DEF OpenPublish, HostOpen, bare_queue_open_uv_publish,
                      bare_queue_open_thread, Shares
  <2>2. UNCHANGED <<ring, written, taken, eof, freed>>
    BY <1>2 DEF OpenPublish, HostOpen, bare_queue_open_uv_publish,
                bare_queue_open_thread, clientVars
  <2>3. \A d \in End : /\ (state'[d] >= Ended) = (state[d] >= Ended)
                       /\ (state'[d] = Closed) = (state[d] = Closed)
    BY <1>0, <2>1 DEF TypeOK, Idle, Open, Ended, Closed
  <2>4. QED
    BY <2>2, <2>3, PipeStutter
<1>3. CASE Exit \/ DestroyUnstarted \/ HostClose
  <2>1. freed = 0
    BY <1>0, <1>3, QueueLives DEF Exit, DestroyUnstarted, HostClose
  <2>2. PICK e \in End : bare_queue_close(e) /\ UNCHANGED <<written, taken, eof>>
    BY <1>0, <1>3 DEF Exit, DestroyUnstarted, HostClose, clientVars
  <2>3. QED
    BY <1>0, <2>1, <2>2, PipeClose DEF P!Next, P!End, End
<1>4. CASE WorkletEnd \/ HostEnd
  <2>1. freed = 0
    BY <1>0, <1>4, QueueLives DEF WorkletEnd, HostEnd, CanUse
  <2>2. PICK e \in End : bare_queue_end(e) /\ UNCHANGED <<written, taken, eof>>
    BY <1>0, <1>4 DEF WorkletEnd, HostEnd, clientVars
  <2>3. QED
    BY <1>0, <2>1, <2>2, PipeFinish DEF P!Next, P!End, End
<1>5. CASE Free
  BY <1>0, <1>5, PipeDrop DEF P!Next
<1>6. ASSUME NEW e \in End, Client(e)
      PROVE  P!Next \/ UNCHANGED P!vars
  BY <1>6, PipeClient
<1>7. QED
  BY <1>1, <1>2, <1>3, <1>4, <1>5, <1>6 DEF Next

\* The queue implements the pipe (queue.c:11-326).
THEOREM QueueIsPipe == Spec => ImplementsPipe
<1>1. MessageInv /\ [Next]_vars => [P!Next]_(P!vars)
  BY PipeStep
<1>2. QED
  BY <1>1, PipeInit, MessageInvariant, PTL DEF Spec, ImplementsPipe, P!Spec

=============================================================================
