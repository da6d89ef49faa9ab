----------------------------- MODULE QueueProofs -----------------------------
(***************************************************************************)
(* What QueueProtocol guarantees for rings of every capacity and streams   *)
(* of every length, proved.                                                *)
(***************************************************************************)
EXTENDS QueueProtocol, TLAPS

USE CapacityAssumption, MaxWritesAssumption

-----------------------------------------------------------------------------
(* Rings *)

Ring == [slots : [Index -> Nat], head : Index, tail : Index]

\* Stepping an index wraps around at the capacity and nowhere else.
LEMMA SuccValue ==
  ASSUME NEW i \in Index
  PROVE  /\ Succ(i) \in Index
         /\ Succ(i) = IF i = Capacity - 1 THEN 0 ELSE i + 1
BY DEF Index, Succ

\* A ring holds between none and Capacity - 1 messages; it is empty with none
\* and full with Capacity - 1.
LEMMA CountValue ==
  ASSUME NEW r \in Ring
  PROVE  /\ Count(r) \in 0 .. Capacity - 1
         /\ bare_queue__ring_empty(r) <=> Count(r) = 0
         /\ bare_queue__ring_full(r) <=> Count(r) = Capacity - 1
<1>1. /\ r.head \in Index /\ r.tail \in Index
      /\ Succ(r.head) = IF r.head = Capacity - 1 THEN 0 ELSE r.head + 1
  BY SuccValue DEF Ring
<1>2. QED
  BY <1>1 DEF Index, Count, bare_queue__ring_empty, bare_queue__ring_full

\* A push adds one message behind those that the ring holds.
LEMMA PushValue ==
  ASSUME NEW r \in Ring, NEW m \in Nat, ~bare_queue__ring_full(r),
         NEW q, q = bare_queue__ring_push(r, m)
  PROVE  /\ q \in Ring
         /\ Count(q) = Count(r) + 1
         /\ \A i \in 0 .. Count(r) - 1 : q.slots[Slot(q, i)] = r.slots[Slot(r, i)]
         /\ q.slots[Slot(q, Count(r))] = m
<1>. /\ r.head \in Index /\ r.tail \in Index
     /\ Succ(r.head) = IF r.head = Capacity - 1 THEN 0 ELSE r.head + 1
     /\ Succ(r.head) \in Index
  BY SuccValue DEF Ring
<1>1. /\ q.slots = [r.slots EXCEPT ![r.head] = m]
      /\ q.head = Succ(r.head)
      /\ q.tail = r.tail
      /\ q \in Ring
  BY DEF bare_queue__ring_push, Ring
<1>2. Count(q) = Count(r) + 1
  BY <1>1 DEF Count, Index, bare_queue__ring_full
<1>3. ASSUME NEW i \in 0 .. Count(r) - 1
      PROVE  q.slots[Slot(q, i)] = r.slots[Slot(r, i)]
  <2>1. Slot(q, i) = Slot(r, i) /\ Slot(r, i) \in Index /\ Slot(r, i) # r.head
    BY <1>1, CountValue DEF Slot, Count, Index
  <2>2. QED
    BY <1>1, <2>1 DEF Ring
<1>4. q.slots[Slot(q, Count(r))] = m
  <2>1. Slot(q, Count(r)) = r.head
    BY <1>1, CountValue DEF Slot, Count, Index
  <2>2. QED
    BY <1>1, <2>1 DEF Ring
<1>5. QED
  BY <1>1, <1>2, <1>3, <1>4

\* A shift removes the first message of those that the ring holds.
LEMMA ShiftValue ==
  ASSUME NEW r \in Ring, ~bare_queue__ring_empty(r),
         NEW q, q = bare_queue__ring_shift(r)
  PROVE  /\ q \in Ring
         /\ Count(q) = Count(r) - 1
         /\ \A i \in 0 .. Count(q) - 1 : q.slots[Slot(q, i)] = r.slots[Slot(r, i + 1)]
         /\ Slot(r, 0) = r.tail
<1>. /\ r.head \in Index /\ r.tail \in Index
     /\ Succ(r.tail) = IF r.tail = Capacity - 1 THEN 0 ELSE r.tail + 1
     /\ Succ(r.tail) \in Index
  BY SuccValue DEF Ring
<1>1. /\ q.slots = r.slots
      /\ q.head = r.head
      /\ q.tail = Succ(r.tail)
      /\ q \in Ring
  BY DEF bare_queue__ring_shift, Ring
<1>2. Count(q) = Count(r) - 1
  BY <1>1 DEF Count, Index, bare_queue__ring_empty
<1>3. ASSUME NEW i \in 0 .. Count(q) - 1
      PROVE  q.slots[Slot(q, i)] = r.slots[Slot(r, i + 1)]
  <2>1. Slot(q, i) = Slot(r, i + 1)
    BY <1>1, <1>2, CountValue DEF Slot, Count, Index
  <2>2. QED
    BY <1>1, <2>1
<1>4. QED
  BY <1>1, <1>2, <1>3 DEF Slot, Index

-----------------------------------------------------------------------------
(* Types *)

\* The states of an end are all among States.
LEMMA StateValues == Idle \in States /\ Open \in States /\ Ended \in States /\ Closed \in States
BY DEF Idle, Open, Ended, Closed, States

\* The operations of the queue keep the types of what they change.
LEMMA SignalType ==
  ASSUME TypeOK, NEW e \in End
  PROVE  Signalled(e) \in [End -> BOOLEAN]
BY DEF TypeOK, Signalled, bare_queue__listening, End

\* The two ends are each other's peer.
LEMMA PeerType ==
  ASSUME NEW e \in End
  PROVE  Peer(e) \in End /\ Peer(e) # e /\ Peer(Peer(e)) = e
BY DEF Peer, End

\* bare_queue_write keeps the types.
LEMMA WriteType ==
  ASSUME TypeOK, NEW e \in End, NEW m \in Nat, bare_queue_write(e, m)
  PROVE  ring' \in [End -> Ring] /\ wake' \in [End -> BOOLEAN]
<1>1. CASE WriteResult(e) = "ok"
  <2>1. ring[Peer(e)] \in Ring /\ ~bare_queue__ring_full(ring[Peer(e)])
    BY <1>1, PeerType DEF WriteResult, TypeOK, Ring, bare_queue__outbox
  <2>2. bare_queue__ring_push(ring[Peer(e)], m) \in Ring
    BY <2>1, PushValue
  <2>3. ring' = [ring EXCEPT ![Peer(e)] = bare_queue__ring_push(ring[Peer(e)], m)]
    BY <1>1 DEF bare_queue_write
  <2>4. ring' \in [End -> Ring]
    BY <2>2, <2>3 DEF TypeOK, Ring
  <2>5. wake' \in [End -> BOOLEAN]
    BY <1>1, SignalType, PeerType DEF bare_queue_write, bare_queue__signal_peer, TypeOK
  <2>6. QED
    BY <2>4, <2>5
<1>2. CASE WriteResult(e) # "ok"
  BY <1>2 DEF bare_queue_write, TypeOK, Ring
<1>3. QED
  BY <1>1, <1>2

\* bare_queue_read keeps the types.
LEMMA ReadType ==
  ASSUME TypeOK, NEW e \in End, bare_queue_read(e)
  PROVE  ring' \in [End -> Ring] /\ wake' \in [End -> BOOLEAN]
<1>1. CASE ReadResult(e) = "data"
  <2>1. ring[e] \in Ring /\ ~bare_queue__ring_empty(ring[e])
    BY <1>1 DEF ReadResult, TypeOK, Ring, bare_queue__inbox
  <2>2. bare_queue__ring_shift(ring[e]) \in Ring
    BY <2>1, ShiftValue
  <2>3. ring' = [ring EXCEPT ![e] = bare_queue__ring_shift(ring[e])]
    BY <1>1 DEF bare_queue_read
  <2>4. ring' \in [End -> Ring]
    BY <2>2, <2>3 DEF TypeOK, Ring
  <2>5. wake' \in [End -> BOOLEAN]
    BY <1>1, SignalType, PeerType DEF bare_queue_read, bare_queue__signal_peer, TypeOK
  <2>6. QED
    BY <2>4, <2>5
<1>2. CASE ReadResult(e) # "data"
  BY <1>2 DEF bare_queue_read, TypeOK, Ring
<1>3. QED
  BY <1>1, <1>2

\* bare_queue__advance keeps the types.
LEMMA AdvanceType ==
  ASSUME TypeOK, NEW e \in End, NEW s \in States, bare_queue__advance(e, s)
  PROVE  state' \in [End -> States] /\ wake' \in [End -> BOOLEAN] /\ freeing' \in Nat
BY SignalType, PeerType DEF bare_queue__advance, bare_queue__signal_peer, TypeOK, States

\* The message that a read hands back.
LEMMA MessageType ==
  ASSUME TypeOK, NEW e \in End
  PROVE  ReadMessage(e) \in Nat
BY DEF TypeOK, ReadMessage, bare_queue__inbox

\* A write and what the client makes of its result keep the types.
LEMMA SendType ==
  ASSUME TypeOK, NEW e \in End, Send(e)
  PROVE  /\ ring' \in [End -> Ring] /\ wake' \in [End -> BOOLEAN]
         /\ written' \in [End -> Nat] /\ blocked' \in [End -> BOOLEAN]
         /\ UNCHANGED <<state, destroyed, async, freeing, freed>>
<1>1. written[e] + 1 \in Nat
  BY DEF TypeOK
<1>2. bare_queue_write(e, written[e] + 1)
  BY DEF Send
<1>3. ring' \in [End -> Ring] /\ wake' \in [End -> BOOLEAN]
  BY <1>1, <1>2, WriteType
<1>4. written' \in [End -> Nat] /\ blocked' \in [End -> BOOLEAN]
  BY DEF Send, TypeOK
<1>5. QED
  BY <1>2, <1>3, <1>4 DEF bare_queue_write

\* Every step keeps the types.
LEMMA TypeStep ==
  ASSUME TypeOK, [Next]_vars
  PROVE  TypeOK'
<1>. USE DEF TypeOK
<1>1. CASE Start
  BY <1>1 DEF Start, queueVars, clientVars, Thread
<1>2. CASE OpenInit
  BY <1>2 DEF OpenInit, bare_queue_open_uv_init, clientVars, Thread
<1>3. CASE OpenPublish
  <2>1. state' \in [End -> States]
    <3>1. state' = [state EXCEPT !["uv"] = Open]
      BY <1>3 DEF OpenPublish, bare_queue_open_uv_publish
    <3>2. QED
      BY <3>1, StateValues
  <2>2. thread' \in Thread
    BY <1>3 DEF OpenPublish, Thread
  <2>3. QED
    BY <1>3, <2>1, <2>2 DEF OpenPublish, bare_queue_open_uv_publish, clientVars
<1>4. CASE OpenNotify
  BY <1>4 DEF OpenNotify, bare_queue_open_uv_notify, clientVars, Thread
<1>5. CASE Exit
  BY <1>5, AdvanceType DEF Exit, bare_queue_close, bare_queue__advance, Thread, End, States,
                           Closed, Idle
<1>6. CASE Shutdown
  BY <1>6 DEF Shutdown, bare_queue_shutdown_uv, clientVars, Thread
<1>7. CASE DestroyStarted
  BY <1>7 DEF DestroyStarted, queueVars, clientVars
<1>8. CASE DestroyUnstarted
  <2>1. state' \in [End -> States] /\ wake' \in [End -> BOOLEAN] /\ freeing' \in Nat
    BY <1>8, AdvanceType DEF DestroyUnstarted, bare_queue_close, End, States, Closed, Idle
  <2>2. QED
    BY <1>8, <2>1 DEF DestroyUnstarted, bare_queue_close, bare_queue__advance, clientVars, Thread
<1>9. CASE DestroyQueue
  <2>1. freeing' \in Nat /\ destroyed' \in BOOLEAN
    BY <1>9 DEF DestroyQueue, bare_queue_destroy, bare_queue__unowned
  <2>2. QED
    BY <1>9, <2>1 DEF DestroyQueue, bare_queue_destroy, clientVars, Thread
<1>10. CASE Free
  <2>1. ring' \in [End -> [slots : [Index -> Nat], head : Index, tail : Index]]
    <3>1. ring' = [e \in End |-> [ring[e] EXCEPT !.tail = ring[e].head]]
      BY <1>10 DEF Free, bare_queue__free
    <3>2. ring \in [End -> [slots : [Index -> Nat], head : Index, tail : Index]]
      OBVIOUS
    <3>3. ASSUME NEW e \in End
          PROVE  [ring[e] EXCEPT !.tail = ring[e].head]
                   \in [slots : [Index -> Nat], head : Index, tail : Index]
      BY <3>2
    <3>4. QED
      BY <3>1, <3>3
  <2>2. freeing' \in Nat /\ freed' \in Nat
    BY <1>10 DEF Free, bare_queue__free
  <2>3. QED
    BY <1>10, <2>1, <2>2 DEF Free, bare_queue__free, clientVars
<1>11. CASE HostOpen
  <2>1. state' \in [End -> States]
    <3>1. state' = [state EXCEPT !["thread"] = Open]
      BY <1>11 DEF HostOpen, bare_queue_open_thread
    <3>2. QED
      BY <3>1, StateValues
  <2>2. wake' \in [End -> BOOLEAN]
    BY <1>11 DEF HostOpen, bare_queue_open_thread
  <2>3. QED
    BY <1>11, <2>1, <2>2 DEF HostOpen, bare_queue_open_thread, clientVars
<1>12. CASE HostClose
  BY <1>12, AdvanceType DEF HostClose, bare_queue_close, bare_queue__advance, End, States,
                            Closed, Idle
<1>13. CASE HostEnd
  BY <1>13, AdvanceType DEF HostEnd, bare_queue_end, bare_queue__advance, End, States, Ended,
                            Closed, Idle
<1>14. CASE HostEndSignal
  BY <1>14 DEF HostEndSignal
<1>15. CASE WorkletEnd
  BY <1>15, AdvanceType DEF WorkletEnd, bare_queue_end, bare_queue__advance, clientVars, End,
                            States, Ended, Closed, Idle
<1>16. ASSUME NEW e \in End, Client(e)
       PROVE  TypeOK'
  <2>1. CASE Write(e)
    BY <2>1, SendType DEF Write, Ring
  <2>2. CASE Ask(e)
    BY <2>2 DEF Ask, queueVars, Reading
  <2>3. CASE Wake(e)
    BY <2>3 DEF Wake
  <2>4. CASE Retry(e)
    <3>1. /\ ring' \in [End -> Ring] /\ wake' \in [End -> BOOLEAN]
          /\ written' \in [End -> Nat] /\ blocked' \in [End -> BOOLEAN]
          /\ UNCHANGED <<state, destroyed, async, freeing, freed>>
      BY <2>4, SendType DEF Retry, queueVars, Ring
    <3>2. QED
      BY <2>4, <3>1 DEF Retry, Ring, Reading
  <2>5. CASE DrainData(e)
    <3>1. /\ ring' \in [End -> Ring] /\ wake' \in [End -> BOOLEAN]
          /\ taken' \in [End -> Nat]
      BY <2>5, ReadType, MessageType DEF DrainData
    <3>2. QED
      BY <2>5, <3>1 DEF DrainData, bare_queue_read, Ring, Reading
  <2>6. CASE DrainEnd(e)
    BY <2>6, ReadType DEF DrainEnd, bare_queue_read, Ring, Reading
  <2>7. CASE DrainNothing(e)
    BY <2>7, ReadType DEF DrainNothing, bare_queue_read, Ring
  <2>8. QED
    BY <1>16, <2>1, <2>2, <2>3, <2>4, <2>5, <2>6, <2>7 DEF Client, Drain
<1>17. CASE UNCHANGED vars
  BY <1>17 DEF vars, queueVars, clientVars
<1>18. QED
  BY <1>1, <1>2, <1>3, <1>4, <1>5, <1>6, <1>7, <1>8, <1>9, <1>10, <1>11, <1>12, <1>13, <1>14,
     <1>15, <1>16, <1>17 DEF Next

\* The initial states have the types.
LEMMA TypeInit == Init => TypeOK
<1>. SUFFICES ASSUME Init PROVE TypeOK
  OBVIOUS
<1>1. ring \in [End -> [slots : [Index -> Nat], head : Index, tail : Index]]
  BY DEF Init, bare_queue_create, Index
<1>2. reading \in [End -> Reading]
  BY DEF Init, Reading
<1>3. state \in [End -> States] /\ freeing \in Nat /\ freed \in Nat
  BY DEF Init, bare_queue_create, States, Idle, Closed
<1>4. wake \in [End -> BOOLEAN] /\ destroyed \in BOOLEAN /\ async \in {"none", "active", "closed"}
  BY DEF Init, bare_queue_create
<1>5. QED
  BY <1>1, <1>2, <1>3, <1>4 DEF Init, TypeOK, Thread

\* Every variable of the queue and of its clients keeps its type; in particular
\* head and tail never leave the ring (queue.c:21-40).
THEOREM TypeCorrect == Spec => []TypeOK
<1>1. TypeOK /\ [Next]_vars => TypeOK'
  BY TypeStep
<1>2. QED
  BY <1>1, TypeInit, PTL DEF Spec

-----------------------------------------------------------------------------
(* Shares of the queue *)

(***************************************************************************)
(* How far each end has come is a matter of where its client is, and the   *)
(* queue is released exactly when the worklet's share was given up and the *)
(* host does not hold a port.  This is the inductive invariant behind the  *)
(* release of the queue.                                                   *)
(***************************************************************************)
Shares ==
  /\ thread \in {"created", "starting", "inited"} <=> state["uv"] = Idle
  /\ thread \in {"notify", "running"} <=> state["uv"] \in {Open, Ended}
  /\ port = "none" <=> state["thread"] = Idle
  /\ port = "held" <=> state["thread"] \in {Open, Ended}
  /\ destroyed <=> thread = "destroyed"
  /\ thread \in {"abandoned", "destroyed"} => ~handle
  /\ thread \in {"inited", "notify", "running", "done"} => async = "active"
  /\ freeing + freed = IF destroyed /\ port # "held" THEN 1 ELSE 0

\* The variables that Shares is about; most steps of a client leave them alone.
shareVars == <<thread, handle, port, state, destroyed, async, freeing, freed>>

\* Reads and writes move messages only.
LEMMA ClientShares ==
  ASSUME NEW e \in End, Client(e)
  PROVE  UNCHANGED shareVars
<1>1. CASE Write(e)
  BY <1>1 DEF Write, Send, bare_queue_write, shareVars
<1>2. CASE Ask(e)
  BY <1>2 DEF Ask, queueVars, shareVars
<1>3. CASE Wake(e)
  BY <1>3 DEF Wake, shareVars
<1>4. CASE Retry(e)
  BY <1>4 DEF Retry, Send, bare_queue_write, queueVars, shareVars
<1>5. CASE Drain(e)
  BY <1>5 DEF Drain, DrainData, DrainEnd, DrainNothing, bare_queue_read, shareVars
<1>6. QED
  BY <1>1, <1>2, <1>3, <1>4, <1>5 DEF Client

\* Every step keeps the shares in order.
LEMMA SharesStep ==
  ASSUME TypeOK, Shares, [Next]_vars
  PROVE  Shares'
<1>. USE DEF Shares, Idle, Open, Ended, Closed
<1>0. /\ state \in [End -> 0 .. 3] /\ freeing \in Nat /\ freed \in Nat
      /\ thread \in Thread /\ port \in {"none", "held", "closed"}
      /\ destroyed \in BOOLEAN /\ handle \in BOOLEAN
  BY DEF TypeOK, States
<1>1. CASE Start
  BY <1>0, <1>1 DEF Start, queueVars
<1>2. CASE OpenInit
  BY <1>0, <1>2 DEF OpenInit, bare_queue_open_uv_init
<1>3. CASE OpenPublish
  BY <1>0, <1>3 DEF OpenPublish, bare_queue_open_uv_publish, End
<1>4. CASE OpenNotify
  BY <1>0, <1>4 DEF OpenNotify, bare_queue_open_uv_notify
<1>5. CASE Exit
  BY <1>0, <1>5 DEF Exit, bare_queue_close, bare_queue__advance, bare_queue__unowned, End
<1>6. CASE Shutdown
  BY <1>0, <1>6 DEF Shutdown, bare_queue_shutdown_uv
<1>7. CASE DestroyStarted
  BY <1>0, <1>7 DEF DestroyStarted, queueVars
<1>8. CASE DestroyUnstarted
  BY <1>0, <1>8 DEF DestroyUnstarted, bare_queue_close, bare_queue__advance,
                    bare_queue__unowned, End
<1>9. CASE DestroyQueue
  BY <1>0, <1>9 DEF DestroyQueue, bare_queue_destroy, bare_queue__unowned, End
<1>10. CASE Free
  BY <1>0, <1>10 DEF Free, bare_queue__free
<1>11. CASE HostOpen
  BY <1>0, <1>11 DEF HostOpen, bare_queue_open_thread, End
<1>12. CASE HostClose
  BY <1>0, <1>12 DEF HostClose, bare_queue_close, bare_queue__advance, bare_queue__unowned, End
<1>13. CASE HostEnd
  BY <1>0, <1>13 DEF HostEnd, CanUse, bare_queue_end, bare_queue__advance,
                     bare_queue__unowned, End
<1>14. CASE HostEndSignal
  BY <1>0, <1>14 DEF HostEndSignal
<1>15. CASE WorkletEnd
  BY <1>0, <1>15 DEF WorkletEnd, CanUse, bare_queue_end, bare_queue__advance,
                     bare_queue__unowned, End
<1>16. ASSUME NEW e \in End, Client(e)
       PROVE  Shares'
  BY <1>16, ClientShares DEF shareVars
<1>17. CASE UNCHANGED vars
  BY <1>17 DEF vars, queueVars
<1>18. QED
  BY <1>1, <1>2, <1>3, <1>4, <1>5, <1>6, <1>7, <1>8, <1>9, <1>10, <1>11, <1>12, <1>13, <1>14,
     <1>15, <1>16, <1>17 DEF Next

\* Nobody has a share of a new queue but its creator.
LEMMA SharesInit == Init => Shares
BY DEF Init, bare_queue_create, Shares, End, Idle, Open, Ended

\* The shares are in order in every reachable state.
THEOREM SharesInvariant == Spec => [](TypeOK /\ Shares)
<1>1. (TypeOK /\ Shares) /\ [Next]_vars => (TypeOK /\ Shares)'
  BY TypeStep, SharesStep
<1>2. QED
  BY <1>1, TypeInit, SharesInit, PTL DEF Spec

\* The queue is released once, and out of everyone's reach from the moment it is
\* decided (queue.c:260-277, 315-326).
THEOREM UseAfterFreeImpossible == Spec => []NoUseAfterFree
<1>1. TypeOK /\ Shares => NoUseAfterFree
  BY DEF TypeOK, Shares, NoUseAfterFree
<1>2. QED
  BY <1>1, SharesInvariant, PTL

\* Wakeups are sent to a live handle only (queue.c:67-70, 148).
THEOREM AsyncStaysAlive == Spec => []AsyncAlive
<1>1. Shares => AsyncAlive
  BY DEF Shares, AsyncAlive, bare_queue__listening
<1>2. QED
  BY <1>1, SharesInvariant, PTL

\* Neither end ever moves back (queue.h:30).
THEOREM EndsAdvance == Spec => EndsOnlyAdvance
<1>1. TypeOK /\ Shares /\ [Next]_vars => [\A e \in End : state'[e] >= state[e]]_vars
  <2>. SUFFICES ASSUME TypeOK, Shares, [Next]_vars, NEW e \in End
                PROVE  state'[e] >= state[e]
    OBVIOUS
  <2>. USE DEF Idle, Open, Ended, Closed
  <2>0. state \in [End -> 0 .. 3]
    BY DEF TypeOK, States
  <2>1. CASE OpenPublish
    <3>1. state' = [state EXCEPT !["uv"] = 1] /\ state["uv"] = 0
      BY <2>1 DEF OpenPublish, bare_queue_open_uv_publish, Shares
    <3>2. QED
      BY <2>0, <3>1
  <2>2. CASE HostOpen
    BY <2>0, <2>2 DEF HostOpen, bare_queue_open_thread
  <2>3. CASE Exit \/ DestroyUnstarted \/ HostClose \/ HostEnd \/ WorkletEnd
    BY <2>0, <2>3 DEF Exit, DestroyUnstarted, HostClose, HostEnd, WorkletEnd, bare_queue_close,
                      bare_queue_end, bare_queue__advance
  <2>4. CASE Start \/ OpenInit \/ OpenNotify \/ Shutdown
    BY <2>0, <2>4 DEF Start, OpenInit, OpenNotify, Shutdown, queueVars, bare_queue_open_uv_init,
                      bare_queue_open_uv_notify, bare_queue_shutdown_uv
  <2>5. CASE DestroyStarted \/ DestroyQueue \/ Free \/ HostEndSignal
    <3>1. state' = state
      BY <2>5 DEF DestroyStarted, DestroyQueue, Free, HostEndSignal, queueVars,
                  bare_queue_destroy, bare_queue__free
    <3>2. QED
      BY <2>0, <3>1
  <2>6. CASE \E c \in End : Client(c)
    BY <2>0, <2>6, ClientShares DEF shareVars
  <2>7. CASE UNCHANGED vars
    BY <2>0, <2>7 DEF vars, queueVars
  <2>8. QED
    BY <2>1, <2>2, <2>3, <2>4, <2>5, <2>6, <2>7 DEF Next
<1>2. QED
  BY <1>1, SharesInvariant, PTL DEF Spec, EndsOnlyAdvance

-----------------------------------------------------------------------------
(* Messages *)

\* What Fifo says of one end.
FifoAt(e) ==
  /\ written[Peer(e)] = taken[e] + Count(ring[e])
  /\ \A i \in 0 .. Count(ring[e]) - 1 :
       ring[e].slots[Slot(ring[e], i)] = taken[e] + 1 + i

messageVars == <<ring, written, taken, freed>>

\* Only a write, a read and the release of the queue touch a message.
LEMMA OtherMessages ==
  ASSUME [Next]_vars
  PROVE  \/ UNCHANGED messageVars
         \/ Free
         \/ \E e \in End : Send(e) /\ UNCHANGED taken
         \/ \E e \in End : DrainData(e)
<1>1. CASE Start \/ OpenInit \/ OpenPublish \/ OpenNotify \/ Exit \/ Shutdown
  BY <1>1 DEF Start, OpenInit, OpenPublish, OpenNotify, Exit, Shutdown, queueVars, clientVars,
              bare_queue_open_uv_init, bare_queue_open_uv_publish, bare_queue_open_uv_notify,
              bare_queue_shutdown_uv, bare_queue_close, bare_queue__advance, messageVars
<1>2. CASE DestroyStarted \/ DestroyUnstarted \/ DestroyQueue
  BY <1>2 DEF DestroyStarted, DestroyUnstarted, DestroyQueue, queueVars, clientVars,
              bare_queue_close, bare_queue__advance, bare_queue_destroy, messageVars
<1>3. CASE HostOpen \/ HostClose \/ HostEnd \/ HostEndSignal \/ WorkletEnd
  BY <1>3 DEF HostOpen, HostClose, HostEnd, HostEndSignal, WorkletEnd, clientVars,
              bare_queue_open_thread, bare_queue_close, bare_queue_end, bare_queue__advance,
              messageVars
<1>5. ASSUME NEW e \in End, Client(e)
      PROVE  \/ UNCHANGED messageVars
             \/ Send(e) /\ UNCHANGED taken
             \/ DrainData(e)
  <2>1. CASE Write(e) \/ Retry(e)
    BY <2>1 DEF Write, Retry, queueVars, messageVars
  <2>2. CASE Ask(e) \/ Wake(e)
    BY <2>2 DEF Ask, Wake, queueVars, messageVars
  <2>3. CASE DrainEnd(e) \/ DrainNothing(e)
    BY <2>3 DEF DrainEnd, DrainNothing, bare_queue_read, messageVars
  <2>4. QED
    BY <1>5, <2>1, <2>2, <2>3 DEF Client, Drain
<1>6. CASE UNCHANGED vars
  BY <1>6 DEF vars, queueVars, clientVars, messageVars
<1>7. QED
  BY <1>1, <1>2, <1>3, <1>5, <1>6 DEF Next

\* A write appends to the peer's inbox.
LEMMA SendFifo ==
  ASSUME TypeOK, NEW e \in End, Send(e), UNCHANGED taken, \A d \in End : FifoAt(d)
  PROVE  \A d \in End : FifoAt(d)'
<1>. DEFINE p == Peer(e)
<1>0. p \in End /\ p # e /\ Peer(p) = e /\ End = {e, p} /\ ring[p] \in Ring
      /\ Peer(e) = p /\ taken \in [End -> Nat] /\ written \in [End -> Nat]
  BY PeerType DEF End, TypeOK, Ring
<1>1. CASE WriteResult(e) = "ok"
  <2>. DEFINE q == bare_queue__ring_push(ring[p], written[e] + 1)
  <2>1. ~bare_queue__ring_full(ring[p]) /\ written[e] + 1 \in Nat
    BY <1>0, <1>1 DEF WriteResult, bare_queue__outbox
  <2>2. /\ q \in Ring
        /\ Count(q) = Count(ring[p]) + 1
        /\ \A i \in 0 .. Count(ring[p]) - 1 :
             q.slots[Slot(q, i)] = ring[p].slots[Slot(ring[p], i)]
        /\ q.slots[Slot(q, Count(ring[p]))] = written[e] + 1
    BY <1>0, <2>1, PushValue
  <2>3. /\ ring' = [ring EXCEPT ![p] = q]
        /\ written' = [written EXCEPT ![e] = @ + 1]
    BY <1>1 DEF Send, bare_queue_write
  <2>4. ring'[p] = q /\ ring'[e] = ring[e] /\ written'[e] = written[e] + 1
        /\ written'[p] = written[p]
    BY <1>0, <2>3 DEF TypeOK
  <2>5. Count(ring[p]) \in Nat
    BY <1>0, CountValue
  <2>. HIDE DEF p, q
  <2>6. FifoAt(p)'
    <3>1. written[e] = taken[p] + Count(ring[p])
      BY <1>0 DEF FifoAt
    <3>2. written'[e] = taken[p] + Count(q)
      BY <1>0, <2>2, <2>4, <2>5, <3>1
    <3>3. ASSUME NEW i \in 0 .. Count(q) - 1
          PROVE  q.slots[Slot(q, i)] = taken[p] + 1 + i
      <4>1. CASE i = Count(ring[p])
        BY <1>0, <2>2, <2>5, <3>1, <4>1
      <4>2. CASE i \in 0 .. Count(ring[p]) - 1
        BY <1>0, <2>2, <2>5, <4>2 DEF FifoAt
      <4>3. QED
        BY <2>2, <2>5, <4>1, <4>2
    <3>4. QED
      BY <1>0, <2>4, <3>2, <3>3 DEF FifoAt
  <2>7. FifoAt(e)'
    BY <1>0, <2>4 DEF FifoAt
  <2>8. QED
    BY <1>0, <2>6, <2>7
<1>2. CASE WriteResult(e) # "ok"
  BY <1>2 DEF Send, bare_queue_write, FifoAt
<1>3. QED
  BY <1>1, <1>2

\* A read takes the first message of the inbox, which is the next in order.
LEMMA DrainFifo ==
  ASSUME TypeOK, NEW e \in End, DrainData(e), \A d \in End : FifoAt(d)
  PROVE  /\ \A d \in End : FifoAt(d)'
         /\ taken' = [taken EXCEPT ![e] = @ + 1]
<1>. DEFINE p == Peer(e)
            q == bare_queue__ring_shift(ring[e])
<1>0. p \in End /\ p # e /\ Peer(p) = e /\ End = {e, p} /\ ring[e] \in Ring
      /\ Peer(e) = p /\ taken \in [End -> Nat] /\ written \in [End -> Nat]
  BY PeerType DEF End, TypeOK, Ring
<1>1. ~bare_queue__ring_empty(ring[e])
  BY DEF DrainData, ReadResult, bare_queue__inbox
<1>2. /\ q \in Ring
      /\ Count(q) = Count(ring[e]) - 1
      /\ \A i \in 0 .. Count(q) - 1 : q.slots[Slot(q, i)] = ring[e].slots[Slot(ring[e], i + 1)]
      /\ Slot(ring[e], 0) = ring[e].tail
  BY <1>0, <1>1, ShiftValue
<1>3. Count(ring[e]) \in Nat /\ Count(ring[e]) > 0 /\ Count(q) \in Nat
  BY <1>0, <1>1, <1>2, CountValue
<1>4. ring' = [ring EXCEPT ![e] = q] /\ written' = written
  BY DEF DrainData, bare_queue_read
<1>5. taken' = [taken EXCEPT ![e] = ring[e].slots[ring[e].tail]]
  BY DEF DrainData, ReadMessage, bare_queue__inbox
<1>6. ring'[e] = q /\ ring'[p] = ring[p]
  BY <1>0, <1>4 DEF TypeOK
<1>. HIDE DEF p, q
<1>7. ring[e].slots[ring[e].tail] = taken[e] + 1
  <2>1. 0 \in 0 .. Count(ring[e]) - 1
    BY <1>3
  <2>2. ring[e].slots[Slot(ring[e], 0)] = taken[e] + 1 + 0
    BY <2>1 DEF FifoAt
  <2>3. QED
    BY <1>0, <1>2, <2>2
<1>8. taken' = [taken EXCEPT ![e] = taken[e] + 1] /\ taken'[e] = taken[e] + 1
      /\ taken'[p] = taken[p]
  BY <1>0, <1>5, <1>7
<1>9. FifoAt(e)'
  <2>1. written[p] = taken[e] + Count(ring[e])
    BY <1>0 DEF FifoAt
  <2>2. written[p] = taken'[e] + Count(q)
    BY <1>0, <1>2, <1>3, <1>8, <2>1
  <2>3. ASSUME NEW i \in 0 .. Count(q) - 1
        PROVE  q.slots[Slot(q, i)] = taken'[e] + 1 + i
    <3>1. i + 1 \in 0 .. Count(ring[e]) - 1
      BY <1>2, <1>3
    <3>2. ring[e].slots[Slot(ring[e], i + 1)] = taken[e] + 1 + (i + 1)
      BY <3>1 DEF FifoAt
    <3>3. QED
      BY <1>0, <1>2, <1>3, <1>8, <3>2
  <2>4. QED
    BY <1>0, <1>4, <1>6, <2>2, <2>3 DEF FifoAt
<1>10. FifoAt(p)'
  BY <1>0, <1>4, <1>6, <1>8 DEF FifoAt
<1>11. QED
  BY <1>0, <1>8, <1>9, <1>10

\* Every step keeps the messages in order.
LEMMA FifoStep ==
  ASSUME TypeOK, Fifo, [Next]_vars
  PROVE  Fifo'
<1>. SUFFICES ASSUME freed' = 0
              PROVE  \A e \in End : FifoAt(e)'
  BY DEF Fifo, FifoAt
<1>1. CASE UNCHANGED messageVars
  BY <1>1 DEF messageVars, Fifo, FifoAt
<1>2. CASE Free
  BY <1>2 DEF Free, bare_queue__free, TypeOK
<1>3. ASSUME NEW e \in End, Send(e), UNCHANGED taken
      PROVE  \A d \in End : FifoAt(d)'
  <2>1. freed = 0
    BY <1>3 DEF Send, bare_queue_write
  <2>2. QED
    BY <1>3, <2>1, SendFifo DEF Fifo, FifoAt
<1>4. ASSUME NEW e \in End, DrainData(e)
      PROVE  \A d \in End : FifoAt(d)'
  <2>1. freed = 0
    BY <1>4 DEF DrainData, bare_queue_read
  <2>2. QED
    BY <1>4, <2>1, DrainFifo DEF Fifo, FifoAt
<1>5. QED
  BY <1>1, <1>2, <1>3, <1>4, OtherMessages

\* Nothing is in a new queue.
LEMMA FifoInit == Init => Fifo
BY PeerType DEF Init, bare_queue_create, Fifo, Count, Index

(***************************************************************************)
(* What makes the end of the stream final: the peer that has ended writes  *)
(* no more, and nothing is left of what it wrote.                          *)
(***************************************************************************)
EofFinal ==
  \A e \in End :
    eof[e] => /\ taken[e] = written[Peer(e)]
              /\ state[Peer(e)] >= Ended
              /\ bare_queue__ring_empty(ring[e])

\* Only a read reads the end of the stream.
LEMMA EofRead ==
  ASSUME [Next]_vars
  PROVE  UNCHANGED eof \/ \E e \in End : DrainEnd(e)
<1>1. CASE Start \/ OpenInit \/ OpenPublish \/ OpenNotify \/ Exit \/ Shutdown
  BY <1>1 DEF Start, OpenInit, OpenPublish, OpenNotify, Exit, Shutdown, clientVars
<1>2. CASE DestroyStarted \/ DestroyUnstarted \/ DestroyQueue \/ Free
  BY <1>2 DEF DestroyStarted, DestroyUnstarted, DestroyQueue, Free, clientVars
<1>3. CASE HostOpen \/ HostClose \/ HostEnd \/ HostEndSignal \/ WorkletEnd
  BY <1>3 DEF HostOpen, HostClose, HostEnd, HostEndSignal, WorkletEnd, clientVars
<1>4. ASSUME NEW e \in End, Client(e), ~DrainEnd(e)
      PROVE  UNCHANGED eof
  BY <1>4 DEF Client, Write, Ask, Wake, Retry, Drain, DrainData, DrainNothing
<1>5. CASE UNCHANGED vars
  BY <1>5 DEF vars, clientVars
<1>6. QED
  BY <1>1, <1>2, <1>3, <1>4, <1>5 DEF Next

\* Once the end of the stream was read, nothing can follow it.
LEMMA EofStep ==
  ASSUME TypeOK, Shares, Fifo, EofFinal, [Next]_vars,
         \A e \in End : state'[e] >= state[e]
  PROVE  EofFinal'
<1>0. /\ state \in [End -> 0 .. 3] /\ state' \in [End -> 0 .. 3]
      /\ \A e \in End : Peer(e) \in End
  BY TypeStep, PeerType DEF TypeOK, States, Idle, Closed
<1>1. SUFFICES ASSUME NEW e \in End, eof'[e]
               PROVE  /\ taken'[e] = written'[Peer(e)]
                      /\ state'[Peer(e)] >= Ended
                      /\ bare_queue__ring_empty(ring'[e])
  BY DEF EofFinal, bare_queue__ring_empty
<1>2. CASE DrainEnd(e)
  <2>1. UNCHANGED <<ring, state, written, taken>>
    BY <1>2 DEF DrainEnd, bare_queue_read
  <2>2. bare_queue__ring_empty(ring[e]) /\ state[Peer(e)] >= Ended
    BY <1>2 DEF DrainEnd, ReadResult, bare_queue__inbox
  <2>3. freed = 0
    BY <1>2 DEF DrainEnd, CanUse, Shares, TypeOK, End
  <2>4. ring[e] \in Ring /\ taken[e] \in Nat
    BY DEF TypeOK, Ring
  <2>5. taken[e] = written[Peer(e)]
    BY <2>2, <2>3, <2>4, CountValue DEF Fifo
  <2>6. QED
    BY <2>1, <2>2, <2>5
<1>3. CASE eof[e]
  <2>1. /\ taken[e] = written[Peer(e)] /\ state[Peer(e)] >= Ended
        /\ bare_queue__ring_empty(ring[e])
    BY <1>3 DEF EofFinal
  <2>2. state'[Peer(e)] >= Ended
    BY <1>0, <2>1 DEF Ended
  <2>3. CASE UNCHANGED messageVars
    BY <2>1, <2>2, <2>3 DEF messageVars
  <2>4. CASE Free
    BY <2>1, <2>2, <2>4 DEF Free, bare_queue__free, clientVars, bare_queue__ring_empty, TypeOK
  <2>5. ASSUME NEW c \in End, Send(c), UNCHANGED taken
        PROVE  taken'[e] = written'[Peer(e)] /\ bare_queue__ring_empty(ring'[e])
    <3>1. CASE c = Peer(e)
      <4>1. WriteResult(c) # "ok"
        BY <2>1, <3>1 DEF WriteResult
      <4>2. QED
        BY <2>1, <2>5, <4>1 DEF Send, bare_queue_write
    <3>2. CASE c = e
      BY <2>1, <2>5, <3>2, PeerType DEF Send, bare_queue_write, TypeOK
    <3>3. QED
      BY <3>1, <3>2 DEF End, Peer
  <2>6. ASSUME NEW c \in End, DrainData(c)
        PROVE  taken'[e] = written'[Peer(e)] /\ bare_queue__ring_empty(ring'[e])
    <3>1. c # e
      BY <2>1, <2>6 DEF DrainData, ReadResult, bare_queue__inbox
    <3>2. QED
      BY <2>1, <2>6, <3>1 DEF DrainData, bare_queue_read, TypeOK
  <2>7. QED
    BY <2>2, <2>3, <2>4, <2>5, <2>6, OtherMessages
<1>4. eof[e] \/ DrainEnd(e)
  <2>1. CASE UNCHANGED eof
    BY <1>1, <2>1
  <2>2. ASSUME NEW c \in End, DrainEnd(c), c # e
        PROVE  eof[e]
    BY <1>1, <2>2 DEF DrainEnd, TypeOK
  <2>3. QED
    BY <2>1, <2>2, EofRead
<1>5. QED
  BY <1>2, <1>3, <1>4

\* A new queue has not been read.
LEMMA EofInit == Init => EofFinal
BY DEF Init, EofFinal

MessageInv == TypeOK /\ Shares /\ Fifo /\ EofFinal

\* Messages stay in order, and the end of the stream stays the end.
THEOREM MessageInvariant == Spec => []MessageInv
<1>1. Init => MessageInv
  BY TypeInit, SharesInit, FifoInit, EofInit DEF MessageInv
<1>2. MessageInv /\ [Next]_vars /\ [\A e \in End : state'[e] >= state[e]]_vars => MessageInv'
  <2>1. TypeOK /\ UNCHANGED vars => \A e \in End : state'[e] >= state[e]
    <3>1. TypeOK => \A e \in End : state[e] \in Nat
      BY DEF TypeOK, States, Idle, Closed
    <3>2. UNCHANGED vars => state' = state
      BY DEF vars, queueVars
    <3>3. QED
      BY <3>1, <3>2
  <2>2. SUFFICES ASSUME MessageInv, [Next]_vars,
                        [\A e \in End : state'[e] >= state[e]]_vars
                 PROVE  MessageInv'
    OBVIOUS
  <2>3. TypeOK' /\ Shares' /\ Fifo'
    BY <2>2, TypeStep, SharesStep, FifoStep DEF MessageInv
  <2>4. EofFinal'
    BY <2>1, <2>2, EofStep DEF MessageInv
  <2>5. QED
    BY <2>3, <2>4 DEF MessageInv
<1>3. QED
  BY <1>1, <1>2, EndsAdvance, PTL DEF Spec, EndsOnlyAdvance

\* No message is lost, duplicated or reordered, whatever the capacity and however
\* often head and tail wrap around (queue.c:11-40, 174-238).
THEOREM FifoHolds == Spec => []Fifo
BY MessageInvariant, PTL DEF MessageInv

\* The end of the stream is read after the last message (queue.c:196, 220-235).
THEOREM EofHolds == Spec => []EofIsLast
<1>1. MessageInv => EofIsLast
  BY DEF MessageInv, EofFinal, EofIsLast
<1>2. QED
  BY <1>1, MessageInvariant, PTL

\* Messages are read one by one, in order, and none after the end of the stream
\* (queue.c:207-238).
THEOREM OrderHolds == Spec => InOrder
<1>1. MessageInv /\ [Next]_vars
        => [\A e \in End : taken'[e] # taken[e] => taken'[e] = taken[e] + 1 /\ ~eof[e]]_vars
  <2>. SUFFICES ASSUME MessageInv, [Next]_vars, NEW e \in End, taken'[e] # taken[e]
                PROVE  taken'[e] = taken[e] + 1 /\ ~eof[e]
    OBVIOUS
  <2>. USE DEF MessageInv
  <2>1. ~ UNCHANGED messageVars /\ ~Free
    BY DEF messageVars, Free, clientVars
  <2>2. PICK c \in End : DrainData(c)
    BY <2>1, OtherMessages
  <2>3. freed = 0
    BY <2>2 DEF DrainData, CanUse, Shares, TypeOK, End
  <2>4. taken' = [taken EXCEPT ![c] = @ + 1]
    BY <2>2, <2>3, DrainFifo DEF Fifo, FifoAt
  <2>5. c = e /\ taken'[e] = taken[e] + 1
    BY <2>4 DEF TypeOK
  <2>6. ~eof[e]
    BY <2>2, <2>5 DEF DrainData, ReadResult, bare_queue__inbox, EofFinal
  <2>7. QED
    BY <2>5, <2>6
<1>2. QED
  BY <1>1, MessageInvariant, PTL DEF Spec, InOrder

-----------------------------------------------------------------------------
(* Wakeups *)

(***************************************************************************)
(* NoLostWake, made inductive: the promise about a blocked write must hold *)
(* already while the client still drains, since the drain does not retry   *)
(* the write again; and an end that was not opened was not used.           *)
(***************************************************************************)
WakeAt(e) ==
  \/ ~bare_queue__listening(state[e])
  \/ wake[e]
  \/ e = "uv" /\ thread = "notify"
  \/ /\ busy[e] = "idle" /\ reading[e] # "paused" => bare_queue__ring_empty(ring[e])
     /\ busy[e] = "idle" /\ reading[e] = "flowing" => state[Peer(e)] < Ended
     /\ busy[e] \in {"idle", "drain"} /\ blocked[e] => ~bare_queue_writable(e)

Unused(e) ==
  state[e] = Idle => reading[e] # "flowing" /\ ~blocked[e] /\ busy[e] = "idle"

WakeInv == \A e \in End : WakeAt(e) /\ Unused(e)

\* What of an end's own state its promise depends on.
own(e) == <<busy[e], reading[e], blocked[e]>>

\* A step that leaves alone all that the promise to an end depends on.
LEMMA SameWake ==
  ASSUME TypeOK, NEW e \in End, WakeAt(e),
         UNCHANGED <<own(e), thread, state>>, wake[e] => wake'[e],
         ring'[e] = ring[e], ring'[Peer(e)] = ring[Peer(e)]
  PROVE  WakeAt(e)'
<1>1. bare_queue_writable(e)' <=> bare_queue_writable(e)
  BY DEF bare_queue_writable, bare_queue__outbox
<1>2. QED
  BY <1>1 DEF WakeAt, own

\* A write of the peer turns an empty inbox into one that is not, and signals.
LEMMA PeerSendWake ==
  ASSUME TypeOK, NEW e \in End, WakeAt(e), Send(Peer(e)), UNCHANGED <<own(e), thread>>
  PROVE  WakeAt(e)'
<1>. DEFINE p == Peer(e)
<1>0. p \in End /\ p # e /\ Peer(p) = e
  BY PeerType
<1>1. UNCHANGED state
  BY DEF Send, bare_queue_write
<1>2. CASE WriteResult(p) = "ok"
  <2>1. ring'[p] = ring[p]
    BY <1>0, <1>2 DEF Send, bare_queue_write, TypeOK
  <2>2. bare_queue_writable(e)' <=> bare_queue_writable(e)
    BY <1>1, <2>1 DEF bare_queue_writable, bare_queue__outbox
  <2>3. CASE bare_queue__ring_empty(ring[e])
    <3>1. wake' = [wake EXCEPT ![e] = @ \/ bare_queue__listening(state[e])]
      BY <1>0, <1>2, <2>3 DEF Send, bare_queue_write, bare_queue__outbox,
                              bare_queue__signal_peer, Signalled
    <3>2. QED
      BY <1>1, <3>1 DEF WakeAt, TypeOK
  <2>4. CASE ~bare_queue__ring_empty(ring[e])
    <3>1. wake' = wake
      BY <1>0, <1>2, <2>4 DEF Send, bare_queue_write, bare_queue__outbox
    <3>2. QED
      BY <1>1, <2>2, <2>4, <3>1 DEF WakeAt, own
  <2>5. QED
    BY <2>3, <2>4
<1>3. CASE WriteResult(p) # "ok"
  BY <1>1, <1>3, SameWake DEF Send, bare_queue_write
<1>4. QED
  BY <1>2, <1>3

\* A read of the peer makes room in a full outbox, and signals.
LEMMA PeerReadWake ==
  ASSUME TypeOK, NEW e \in End, WakeAt(e), bare_queue_read(Peer(e)), UNCHANGED <<own(e), thread>>
  PROVE  WakeAt(e)'
<1>. DEFINE p == Peer(e)
<1>0. p \in End /\ p # e /\ Peer(p) = e
  BY PeerType
<1>1. UNCHANGED state
  BY DEF bare_queue_read
<1>2. CASE ReadResult(p) = "data"
  <2>1. ring'[e] = ring[e]
    BY <1>0, <1>2 DEF bare_queue_read, TypeOK
  <2>2. CASE bare_queue__ring_full(ring[p])
    <3>1. wake' = [wake EXCEPT ![e] = @ \/ bare_queue__listening(state[e])]
      BY <1>0, <1>2, <2>2 DEF bare_queue_read, bare_queue__inbox, bare_queue__signal_peer,
                              Signalled
    <3>2. QED
      BY <1>1, <3>1 DEF WakeAt, TypeOK
  <2>3. CASE ~bare_queue__ring_full(ring[p])
    <3>1. wake' = wake
      BY <1>2, <2>3 DEF bare_queue_read, bare_queue__inbox
    <3>2. bare_queue_writable(e)
      BY <2>3 DEF bare_queue_writable, bare_queue__outbox
    <3>3. QED
      BY <1>1, <2>1, <3>1, <3>2 DEF WakeAt, own
  <2>4. QED
    BY <2>2, <2>3
<1>3. CASE ReadResult(p) # "data"
  BY <1>1, <1>3, SameWake DEF bare_queue_read
<1>4. QED
  BY <1>2, <1>3

\* An end that advances always signals its peer.
LEMMA PeerAdvanceWake ==
  ASSUME TypeOK, NEW e \in End, NEW s, bare_queue__advance(Peer(e), s)
  PROVE  WakeAt(e)'
<1>1. Peer(e) \in End /\ Peer(e) # e /\ Peer(Peer(e)) = e
  BY PeerType
<1>2. state'[e] = state[e]
  BY <1>1 DEF bare_queue__advance, TypeOK
<1>3. wake' = [wake EXCEPT ![e] = @ \/ bare_queue__listening(state[e])]
  BY <1>1 DEF bare_queue__advance, bare_queue__signal_peer, Signalled
<1>4. QED
  BY <1>2, <1>3 DEF WakeAt, TypeOK

\* After a write of its own an end is blocked only if its outbox is full.
LEMMA SelfSendWake ==
  ASSUME TypeOK, NEW e \in End, Send(e)
  PROVE  /\ blocked'[e] => ~bare_queue_writable(e)'
         /\ ring'[e] = ring[e] /\ wake'[e] = wake[e] /\ UNCHANGED state
<1>0. Peer(e) \in End /\ Peer(e) # e
  BY PeerType
<1>1. UNCHANGED state /\ ring'[e] = ring[e] /\ wake'[e] = wake[e]
  BY <1>0 DEF Send, bare_queue_write, bare_queue__signal_peer, Signalled, TypeOK
<1>2. ASSUME blocked'[e]
      PROVE  ~bare_queue_writable(e)'
  <2>1. WriteResult(e) = "would_block"
    BY <1>2 DEF Send, TypeOK
  <2>2. ring' = ring
    BY <2>1 DEF Send, bare_queue_write
  <2>3. QED
    BY <1>1, <2>1, <2>2 DEF WriteResult, bare_queue_writable, bare_queue__outbox
<1>3. QED
  BY <1>1, <1>2

\* The steps of an end's own client keep the promise to it.
LEMMA ClientWake ==
  ASSUME TypeOK, NEW e \in End, WakeAt(e), Client(e)
  PROVE  WakeAt(e)'
<1>0. Peer(e) \in End /\ Peer(e) # e
  BY PeerType
<1>1. CASE Write(e)
  BY <1>1, SelfSendWake DEF Write, WakeAt
<1>2. CASE Ask(e)
  <2>1. busy'[e] = "drain" /\ UNCHANGED <<queueVars, blocked, thread>>
    BY <1>2 DEF Ask, TypeOK
  <2>2. bare_queue_writable(e)' <=> bare_queue_writable(e)
    BY <2>1 DEF queueVars, bare_queue_writable, bare_queue__outbox
  <2>3. QED
    BY <1>2, <2>1, <2>2 DEF WakeAt, queueVars, Ask
<1>3. CASE Wake(e)
  BY <1>3 DEF Wake, WakeAt, TypeOK
<1>4. CASE Retry(e)
  <2>1. /\ blocked'[e] => ~bare_queue_writable(e)'
        /\ ring'[e] = ring[e] /\ wake'[e] = wake[e] /\ UNCHANGED <<state, thread>>
    BY <1>4, SelfSendWake DEF Retry, queueVars
  <2>2. busy'[e] = "idle" => reading'[e] = "paused"
    BY <1>4 DEF Retry, TypeOK
  <2>3. QED
    BY <2>1, <2>2 DEF WakeAt
<1>5. CASE Drain(e)
  <2>1. /\ busy[e] = "drain" /\ bare_queue_read(e) /\ UNCHANGED <<thread, blocked, state>>
    BY <1>5 DEF Drain, DrainData, DrainEnd, DrainNothing, bare_queue_read
  <2>2. ring'[Peer(e)] = ring[Peer(e)] /\ wake'[e] = wake[e]
    BY <1>0, <2>1 DEF bare_queue_read, bare_queue__signal_peer, Signalled, TypeOK
  <2>3. bare_queue_writable(e)' <=> bare_queue_writable(e)
    BY <2>1, <2>2 DEF bare_queue_writable, bare_queue__outbox
  <2>4. ~bare_queue__listening(state[e]) \/ wake[e] \/ (e = "uv" /\ thread = "notify")
        \/ (blocked[e] => ~bare_queue_writable(e))
    BY <2>1 DEF WakeAt
  <2>5. CASE DrainData(e)
    <3>1. busy'[e] = "drain" \/ reading'[e] = "paused"
      BY <2>1, <2>5 DEF DrainData, TypeOK
    <3>2. QED
      BY <2>1, <2>2, <2>3, <2>4, <3>1 DEF WakeAt
  <2>6. CASE DrainEnd(e)
    <3>1. reading'[e] = "paused"
      BY <2>6 DEF DrainEnd, TypeOK
    <3>2. QED
      BY <2>1, <2>2, <2>3, <2>4, <3>1 DEF WakeAt
  <2>7. CASE DrainNothing(e)
    <3>1. bare_queue__ring_empty(ring[e]) /\ ~(state[Peer(e)] >= Ended) /\ ring' = ring
      BY <2>1, <2>7 DEF DrainNothing, ReadResult, bare_queue__inbox, bare_queue_read
    <3>2. state[Peer(e)] < Ended
      BY <1>0, <3>1 DEF TypeOK, States, Ended, Idle, Closed
    <3>3. QED
      BY <2>1, <2>2, <2>3, <2>4, <3>1, <3>2 DEF WakeAt
  <2>8. QED
    BY <1>5, <2>5, <2>6, <2>7 DEF Drain
<1>6. QED
  BY <1>1, <1>2, <1>3, <1>4, <1>5 DEF Client

\* The steps of the other end's client keep it, too.
LEMMA PeerClientWake ==
  ASSUME TypeOK, NEW e \in End, WakeAt(e), Client(Peer(e))
  PROVE  WakeAt(e)'
<1>. DEFINE p == Peer(e)
<1>0. p \in End /\ p # e /\ Peer(p) = e
  BY PeerType
<1>1. CASE Write(p)
  <2>1. UNCHANGED <<own(e), thread>>
    BY <1>0, <1>1 DEF Write, Send, own, TypeOK
  <2>2. QED
    BY <1>1, <2>1, PeerSendWake DEF Write
<1>2. CASE Ask(p)
  <2>1. UNCHANGED <<own(e), thread, queueVars>>
    BY <1>0, <1>2 DEF Ask, own, TypeOK
  <2>2. QED
    BY <2>1, SameWake DEF queueVars
<1>3. CASE Wake(p)
  <2>1. UNCHANGED <<own(e), thread, state, ring>> /\ wake'[e] = wake[e]
    BY <1>0, <1>3 DEF Wake, own, TypeOK
  <2>2. QED
    BY <2>1, SameWake
<1>4. CASE Retry(p)
  <2>1. UNCHANGED <<own(e), thread>>
    BY <1>0, <1>4 DEF Retry, Send, own, TypeOK
  <2>2. CASE blocked[p]
    BY <1>4, <2>1, <2>2, PeerSendWake DEF Retry
  <2>3. CASE ~blocked[p]
    BY <1>4, <2>1, <2>3, SameWake DEF Retry, queueVars
  <2>4. QED
    BY <2>2, <2>3
<1>5. CASE Drain(p)
  <2>1. UNCHANGED <<own(e), thread>>
    BY <1>0, <1>5 DEF Drain, DrainData, DrainEnd, DrainNothing, own, TypeOK
  <2>2. bare_queue_read(p)
    BY <1>5 DEF Drain, DrainData, DrainEnd, DrainNothing
  <2>3. QED
    BY <2>1, <2>2, PeerReadWake
<1>6. QED
  BY <1>1, <1>2, <1>3, <1>4, <1>5 DEF Client

\* Every step keeps the promise to both ends.
LEMMA WakeStep ==
  ASSUME TypeOK, Shares, WakeInv, [Next]_vars, NEW e \in End
  PROVE  WakeAt(e)'
<1>. DEFINE p == Peer(e)
<1>0. /\ WakeAt(e) /\ Unused(e) /\ p \in End /\ p # e
      /\ e = "uv" => p = "thread"
      /\ e = "thread" => p = "uv"
      /\ e = "uv" \/ e = "thread"
  BY PeerType DEF WakeInv, Peer, End
<1>1. CASE Start \/ DestroyStarted
  <2>1. UNCHANGED <<queueVars, clientVars>> /\ thread # "notify"
    BY <1>1 DEF Start, DestroyStarted
  <2>2. bare_queue_writable(e)' <=> bare_queue_writable(e)
    BY <2>1 DEF queueVars, bare_queue_writable, bare_queue__outbox
  <2>3. QED
    BY <1>0, <2>1, <2>2 DEF queueVars, clientVars, WakeAt
<1>2. CASE OpenInit
  <2>1. CASE e = "uv"
    BY <1>2, <2>1 DEF OpenInit, bare_queue_open_uv_init, Shares, WakeAt, bare_queue__listening,
                      Idle, Open, Ended
  <2>2. CASE e = "thread"
    <3>1. bare_queue_writable(e)' <=> bare_queue_writable(e)
      BY <1>2 DEF OpenInit, bare_queue_open_uv_init, bare_queue_writable, bare_queue__outbox
    <3>2. QED
      BY <1>0, <1>2, <2>2, <3>1 DEF OpenInit, bare_queue_open_uv_init, clientVars, WakeAt
  <2>3. QED
    BY <1>0, <2>1, <2>2
<1>3. CASE OpenPublish
  <2>0. /\ state' = [state EXCEPT !["uv"] = Open] /\ state["uv"] = Idle
        /\ UNCHANGED <<ring, wake, clientVars>>
    BY <1>3 DEF OpenPublish, bare_queue_open_uv_publish, Shares
  <2>1. CASE e = "uv"
    <3>1. CASE bare_queue__ring_empty(ring["uv"])
      BY <1>0, <2>0, <2>1, <3>1 DEF clientVars, WakeAt, Unused
    <3>2. CASE ~bare_queue__ring_empty(ring["uv"])
      BY <1>3, <2>1, <3>2 DEF OpenPublish, open_uv_pending, bare_queue__inbox, WakeAt
    <3>3. QED
      BY <3>1, <3>2
  <2>2. CASE e = "thread"
    <3>1. /\ state'["thread"] = state["thread"] /\ state'["uv"] < Ended
          /\ state'["uv"] # Closed
      BY <2>0 DEF TypeOK, End, Open, Ended, Closed
    <3>2. bare_queue_writable(e)' => bare_queue_writable(e)
      BY <1>0, <2>0, <2>2, <3>1 DEF bare_queue_writable, bare_queue__outbox
    <3>3. QED
      BY <1>0, <2>0, <2>2, <3>1, <3>2 DEF clientVars, WakeAt
  <2>3. QED
    BY <1>0, <2>1, <2>2
<1>4. CASE OpenNotify
  <2>1. CASE e = "uv"
    BY <1>4, <2>1 DEF OpenNotify, bare_queue_open_uv_notify, WakeAt, TypeOK
  <2>2. CASE e = "thread"
    <3>1. bare_queue_writable(e)' <=> bare_queue_writable(e)
      BY <1>4 DEF OpenNotify, bare_queue_open_uv_notify, bare_queue_writable, bare_queue__outbox
    <3>2. QED
      BY <1>0, <1>4, <2>2, <3>1 DEF OpenNotify, bare_queue_open_uv_notify, clientVars, WakeAt,
                                    TypeOK
  <2>3. QED
    BY <1>0, <2>1, <2>2
<1>5. CASE Exit \/ DestroyUnstarted
  <2>1. bare_queue__advance("uv", Closed)
    BY <1>5 DEF Exit, DestroyUnstarted, bare_queue_close
  <2>2. CASE e = "uv"
    <3>1. state'["uv"] = Closed
      BY <2>1 DEF bare_queue__advance, TypeOK, States, End, Idle, Closed
    <3>2. QED
      BY <2>2, <3>1 DEF WakeAt, bare_queue__listening, Open, Ended, Closed
  <2>3. CASE e = "thread"
    BY <1>0, <2>1, <2>3, PeerAdvanceWake
  <2>4. QED
    BY <1>0, <2>2, <2>3
<1>6. CASE Shutdown
  <2>1. CASE e = "uv"
    BY <1>6, <2>1 DEF Shutdown, bare_queue_shutdown_uv, Shares, WakeAt, bare_queue__listening
  <2>2. CASE e = "thread"
    <3>1. bare_queue_writable(e)' <=> bare_queue_writable(e)
      BY <1>6 DEF Shutdown, bare_queue_shutdown_uv, bare_queue_writable, bare_queue__outbox
    <3>2. QED
      BY <1>0, <1>6, <2>2, <3>1 DEF Shutdown, bare_queue_shutdown_uv, clientVars, WakeAt, TypeOK
  <2>3. QED
    BY <1>0, <2>1, <2>2
<1>7. CASE DestroyQueue
  <2>1. CASE e = "uv"
    BY <1>7, <2>1 DEF DestroyQueue, bare_queue_destroy, Shares, WakeAt, bare_queue__listening
  <2>2. CASE e = "thread"
    <3>1. bare_queue_writable(e)' <=> bare_queue_writable(e)
      BY <1>7 DEF DestroyQueue, bare_queue_destroy, bare_queue_writable, bare_queue__outbox
    <3>2. QED
      BY <1>0, <1>7, <2>2, <3>1 DEF DestroyQueue, bare_queue_destroy, clientVars, WakeAt
  <2>3. QED
    BY <1>0, <2>1, <2>2
<1>8. CASE Free
  <2>1. destroyed /\ port # "held" /\ state' = state
    BY <1>8 DEF Free, bare_queue__free, Shares, TypeOK
  <2>2. ~bare_queue__listening(state[e])
    BY <1>0, <2>1 DEF Shares, bare_queue__listening
  <2>3. QED
    BY <2>1, <2>2 DEF WakeAt
<1>9. CASE HostOpen
  <2>0. /\ state' = [state EXCEPT !["thread"] = Open] /\ state["thread"] = Idle
        /\ UNCHANGED <<ring, thread, clientVars>>
    BY <1>9 DEF HostOpen, bare_queue_open_thread
  <2>1. CASE e = "thread"
    <3>1. CASE bare_queue__ring_empty(ring["thread"])
      BY <1>0, <2>0, <2>1, <3>1 DEF clientVars, WakeAt, Unused
    <3>2. CASE ~bare_queue__ring_empty(ring["thread"])
      BY <1>9, <2>1, <3>2 DEF HostOpen, bare_queue_open_thread, bare_queue__inbox, WakeAt, TypeOK
    <3>3. QED
      BY <3>1, <3>2
  <2>2. CASE e = "uv"
    <3>1. /\ state'["uv"] = state["uv"] /\ state'["thread"] < Ended
          /\ state'["thread"] # Closed /\ wake'["uv"] = wake["uv"]
      BY <1>9, <2>0 DEF HostOpen, bare_queue_open_thread, TypeOK, End, Open, Ended, Closed
    <3>2. bare_queue_writable(e)' => bare_queue_writable(e)
      BY <1>0, <2>0, <2>2, <3>1 DEF bare_queue_writable, bare_queue__outbox
    <3>3. QED
      BY <1>0, <2>0, <2>2, <3>1, <3>2 DEF clientVars, WakeAt
  <2>3. QED
    BY <1>0, <2>1, <2>2
<1>10. CASE HostClose
  <2>1. bare_queue__advance("thread", Closed)
    BY <1>10 DEF HostClose, bare_queue_close
  <2>2. CASE e = "thread"
    <3>1. state'["thread"] = Closed
      BY <2>1 DEF bare_queue__advance, TypeOK, States, End, Idle, Closed
    <3>2. QED
      BY <2>2, <3>1 DEF WakeAt, bare_queue__listening, Open, Ended, Closed
  <2>3. CASE e = "uv"
    BY <1>0, <2>1, <2>3, PeerAdvanceWake
  <2>4. QED
    BY <1>0, <2>2, <2>3
<1>11. CASE HostEnd
  <2>1. CASE e = "thread"
    BY <1>11, <2>1 DEF HostEnd, WakeAt, TypeOK
  <2>2. CASE e = "uv"
    BY <1>0, <1>11, <2>2, PeerAdvanceWake DEF HostEnd, bare_queue_end
  <2>3. QED
    BY <1>0, <2>1, <2>2
<1>12. CASE HostEndSignal
  <2>1. CASE e = "thread"
    BY <1>12, <2>1 DEF HostEndSignal, WakeAt, TypeOK
  <2>2. CASE e = "uv"
    <3>1. UNCHANGED <<own(e), thread, state, ring>> /\ wake'[e] = wake[e]
      BY <1>12, <2>2 DEF HostEndSignal, own, TypeOK
    <3>2. QED
      BY <1>0, <3>1, SameWake
  <2>3. QED
    BY <1>0, <2>1, <2>2
<1>13. CASE WorkletEnd
  <2>1. bare_queue__advance("uv", Ended) /\ ~blocked["uv"] /\ UNCHANGED <<thread, clientVars>>
    BY <1>13 DEF WorkletEnd, bare_queue_end
  <2>2. CASE e = "uv"
    <3>1. /\ state'["thread"] = state["thread"] /\ ring' = ring /\ wake'["uv"] = wake["uv"]
          /\ bare_queue__listening(state'["uv"]) => bare_queue__listening(state["uv"])
      <4>1. thread \in {"running", "teardown"}
        BY <1>13 DEF WorkletEnd, CanUse
      <4>2. QED
        BY <2>1, <4>1 DEF bare_queue__advance, bare_queue__signal_peer, Signalled, Peer, End, TypeOK,
                          States, Shares, bare_queue__listening, Idle, Open, Ended, Closed
    <3>2. QED
      BY <1>0, <2>1, <2>2, <3>1 DEF WakeAt, clientVars
  <2>3. CASE e = "thread"
    BY <1>0, <2>1, <2>3, PeerAdvanceWake
  <2>4. QED
    BY <1>0, <2>2, <2>3
<1>14. ASSUME NEW c \in End, Client(c)
       PROVE  WakeAt(e)'
  <2>1. c = e \/ c = p
    BY <1>0 DEF End, Peer
  <2>2. QED
    BY <1>0, <1>14, <2>1, ClientWake, PeerClientWake
<1>15. CASE UNCHANGED vars
  BY <1>0, <1>15, SameWake DEF vars, queueVars, clientVars, own
<1>16. QED
  BY <1>1, <1>2, <1>3, <1>4, <1>5, <1>6, <1>7, <1>8, <1>9, <1>10, <1>11, <1>12, <1>13, <1>14,
     <1>15 DEF Next

\* An end is used only once it was opened.
LEMMA UnusedStep ==
  ASSUME TypeOK, Shares, WakeInv, [Next]_vars, NEW e \in End
  PROVE  Unused(e)'
<1>0. Unused(e) /\ (e = "uv" \/ e = "thread")
  BY DEF WakeInv, End
<1>1. CASE UNCHANGED clientVars /\ (state'[e] = Idle => state[e] = Idle)
  BY <1>0, <1>1 DEF clientVars, Unused
<1>2. state'[e] = Idle => state[e] = Idle
  <2>1. state'[e] = state[e] \/ state'[e] # Idle
    <3>1. CASE OpenPublish
      BY <1>0, <3>1 DEF OpenPublish, bare_queue_open_uv_publish, TypeOK, Idle, Open
    <3>2. CASE HostOpen
      BY <1>0, <3>2 DEF HostOpen, bare_queue_open_thread, TypeOK, Idle, Open
    <3>3. CASE Exit \/ DestroyUnstarted \/ HostClose \/ HostEnd \/ WorkletEnd
      BY <1>0, <3>3 DEF Exit, DestroyUnstarted, HostClose, HostEnd, WorkletEnd, bare_queue_close,
                        bare_queue_end, bare_queue__advance, TypeOK, States, Idle, Ended, Closed
    <3>4. CASE Start \/ OpenInit \/ OpenNotify \/ Shutdown
      BY <3>4 DEF Start, OpenInit, OpenNotify, Shutdown, queueVars, bare_queue_open_uv_init,
                  bare_queue_open_uv_notify, bare_queue_shutdown_uv
    <3>5. CASE DestroyStarted \/ DestroyQueue \/ Free \/ HostEndSignal
      BY <3>5 DEF DestroyStarted, DestroyQueue, Free, HostEndSignal, queueVars,
                  bare_queue_destroy, bare_queue__free
    <3>6. CASE \E c \in End : Client(c)
      BY <3>6, ClientShares DEF shareVars
    <3>7. CASE UNCHANGED vars
      BY <3>7 DEF vars, queueVars
    <3>8. QED
      BY <3>1, <3>2, <3>3, <3>4, <3>5, <3>6, <3>7 DEF Next
  <2>2. QED
    BY <2>1
<1>3. CASE Exit \/ HostClose \/ HostEnd \/ HostEndSignal
  <2>1. CASE Exit
    BY <1>0, <1>2, <2>1 DEF Exit, Unused, TypeOK
  <2>2. CASE HostClose \/ HostEnd \/ HostEndSignal
    <3>1. state["thread"] # Idle
      BY <2>2 DEF HostClose, HostEnd, HostEndSignal, CanUse, Shares, Idle, Open, Ended
    <3>2. CASE e = "thread"
      BY <1>2, <3>1, <3>2 DEF Unused
    <3>3. CASE e = "uv"
      BY <1>0, <1>2, <2>2, <3>3 DEF HostClose, HostEnd, HostEndSignal, Unused, TypeOK
    <3>4. QED
      BY <1>0, <3>2, <3>3
  <2>3. QED
    BY <1>3, <2>1, <2>2
<1>4. ASSUME NEW c \in End, Client(c)
      PROVE  Unused(e)'
  <2>1. state[c] # Idle /\ state' = state
    <3>1. CanUse(c)
      BY <1>4 DEF Client, Write, Ask, Wake, Retry, Drain, DrainData, DrainEnd, DrainNothing
    <3>2. QED
      BY <1>4, <3>1, ClientShares DEF CanUse, Shares, End, Idle, Open, Ended, shareVars
  <2>2. CASE c # e
    <3>1. UNCHANGED <<busy[e], reading[e], blocked[e]>>
      BY <1>4, <2>2 DEF Client, Write, Ask, Wake, Retry, Drain, DrainData, DrainEnd, DrainNothing,
                        Send, TypeOK
    <3>2. QED
      BY <1>0, <1>2, <3>1 DEF Unused
  <2>3. QED
    BY <2>1, <2>2 DEF Unused
<1>5. CASE Start \/ OpenInit \/ OpenPublish \/ OpenNotify \/ Shutdown \/ HostOpen
  BY <1>1, <1>2, <1>5 DEF Start, OpenInit, OpenPublish, OpenNotify, Shutdown, HostOpen
<1>6. CASE DestroyStarted \/ DestroyUnstarted \/ DestroyQueue \/ Free \/ WorkletEnd
  BY <1>1, <1>2, <1>6 DEF DestroyStarted, DestroyUnstarted, DestroyQueue, Free, WorkletEnd
<1>7. CASE UNCHANGED vars
  BY <1>1, <1>2, <1>7 DEF vars
<1>8. QED
  BY <1>3, <1>4, <1>5, <1>6, <1>7 DEF Next

\* No end of a new queue is open.
LEMMA WakeInit == Init => WakeInv
<1>. SUFFICES ASSUME Init, NEW e \in End
              PROVE  WakeAt(e) /\ Unused(e)
  BY DEF WakeInv
<1>1. state[e] = Idle /\ blocked[e] = FALSE /\ busy[e] = "idle" /\ reading[e] # "flowing"
  BY DEF Init, bare_queue_create
<1>2. QED
  BY <1>1 DEF WakeAt, Unused, bare_queue__listening, Idle, Open, Ended

\* No wakeup is lost, whatever the capacity: an open end with something to do is
\* woken or about to be (queue.c:67-84, 143-148, 166-167, 198, 222-223, 270).
THEOREM WakesAreNotLost == Spec => []NoLostWake
<1>1. WakeInv /\ TypeOK /\ Shares /\ [Next]_vars => WakeInv'
  BY WakeStep, UnusedStep DEF WakeInv
<1>2. WakeInv => NoLostWake
  BY DEF WakeInv, WakeAt, NoLostWake
<1>3. QED
  BY <1>1, <1>2, WakeInit, SharesInvariant, PTL DEF Spec

=============================================================================
