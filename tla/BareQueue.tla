------------------------------ MODULE BareQueue ------------------------------
(***************************************************************************)
(* The in-process message queue between a worklet, on a libuv loop, and    *)
(* its host, a native thread (src/src/queue.c and queue.h).                *)
(*                                                                         *)
(* This module is the queue itself: its state, and one action per function *)
(* of queue.h.  Every one of them runs under the queue's single mutex, so  *)
(* each is one atomic step, with two exceptions that the code makes:       *)
(* bare_queue_open_uv publishes under the lock and sends its wakeup after  *)
(* releasing it, and the queue is freed after the lock that found it       *)
(* unowned was released.  Both are split where the code splits them.       *)
(*                                                                         *)
(* Who calls what, and when, is left to the modules that extend this one.  *)
(* A message is an opaque value.                                           *)
(***************************************************************************)
EXTENDS Naturals

CONSTANT
  Capacity          \* BARE_QUEUE_CAPACITY: slots of a ring, one always vacant

ASSUME CapacityAssumption == Capacity \in Nat /\ Capacity >= 2

VARIABLES
  ring,       \* ring[e]: the inbox of end e, a record of slots, head and tail
  state,      \* state[e]: how far end e has come (uv_state, thread_state)
  destroyed,  \* whether bare_queue_destroy was called
  async,      \* the uv_async handle: "none", "active" or "closed"
  wake,       \* wake[e]: a wakeup of end e was sent and is yet to be acted on
  freeing,    \* callers that found the queue unowned and are about to free it
  freed       \* how many times the queue's memory was released

queueVars == <<ring, state, destroyed, async, wake, freeing, freed>>

\* The worklet's end and the host's.
End == {"uv", "thread"}

Peer(e) == IF e = "uv" THEN "thread" ELSE "uv"

\* bare_queue_state_t, in its order: an end only moves forward through these.
Idle   == 0
Open   == 1
Ended  == 2
Closed == 3

States == Idle .. Closed

-----------------------------------------------------------------------------
(* Rings *)

Index == 0 .. Capacity - 1

\* (i + 1) & BARE_QUEUE_MASK, the capacity being a power of two.
Succ(i) == (i + 1) % Capacity

bare_queue__ring_empty(r) == r.head = r.tail

\* Faulty: a full ring is never noticed.
MutRingFull(r) == FALSE

bare_queue__ring_full(r) == Succ(r.head) = r.tail

\* Faulty: the head is not masked.
MutRingPush(r, m) == [r EXCEPT !.slots[r.head] = m, !.head = r.head + 1]

\* Only pushed to when not full.
bare_queue__ring_push(r, m) ==
  [r EXCEPT !.slots[r.head] = m, !.head = Succ(r.head)]

\* Only shifted when not empty, and the message is the one at the tail.
bare_queue__ring_shift(r) == [r EXCEPT !.tail = Succ(r.tail)]

bare_queue__inbox(e) == ring[e]

bare_queue__outbox(e) == ring[Peer(e)]

-----------------------------------------------------------------------------
(* Signals.  A wakeup, be it a uv_async_send or the host's callback, which *)
(* may only wake the host's run loop, is coalesced with one still pending. *)

bare_queue__listening(s) == s \in {Open, Ended}

\* The value of wake once end e is signalled (signal_uv, signal_thread).
Signalled(e) == [wake EXCEPT ![e] = @ \/ bare_queue__listening(state[e])]

bare_queue__signal_peer(e) == Signalled(Peer(e))

-----------------------------------------------------------------------------
(* Operations *)

\* bare_queue_create.  What malloc leaves in the slots is never read.
bare_queue_create(vacant) ==
  /\ ring = [e \in End |-> [slots |-> [i \in Index |-> vacant], head |-> 0, tail |-> 0]]
  /\ state = [e \in End |-> Idle]
  /\ destroyed = FALSE
  /\ async = "none"
  /\ wake = [e \in End |-> FALSE]
  /\ freeing = 0
  /\ freed = 0

\* bare_queue_open_uv, first part: the wakeup handle joins the loop.
bare_queue_open_uv_init ==
  /\ async' = "active"
  /\ UNCHANGED <<ring, state, destroyed, wake, freeing, freed>>

\* Second part, under the lock: the end opens, and takes note of whether the
\* host has queued anything.
bare_queue_open_uv_publish ==
  /\ state' = [state EXCEPT !["uv"] = Open]
  /\ UNCHANGED <<ring, destroyed, async, wake, freeing, freed>>

open_uv_pending == ~bare_queue__ring_empty(bare_queue__inbox("uv"))

\* Third part, the lock released, if something was pending.
bare_queue_open_uv_notify ==
  /\ wake' = [wake EXCEPT !["uv"] = TRUE]
  /\ UNCHANGED <<ring, state, destroyed, async, freeing, freed>>

\* bare_queue_open_thread, where it does not return NULL.
bare_queue_open_thread ==
  /\ state["thread"] = Idle
  /\ state' = [state EXCEPT !["thread"] = Open]
  /\ wake' = [wake EXCEPT !["thread"] =
                @ \/ ~bare_queue__ring_empty(bare_queue__inbox("thread"))]
  /\ UNCHANGED <<ring, destroyed, async, freeing, freed>>

\* Faulty: an end that has ended may still write.
MutWriteResult(e) ==
  IF state[Peer(e)] = Closed THEN "closed"
  ELSE IF bare_queue__ring_full(bare_queue__outbox(e)) THEN "would_block"
  ELSE "ok"

\* What bare_queue_write returns for a message that is not empty.
WriteResult(e) ==
  IF state[e] >= Ended \/ state[Peer(e)] = Closed THEN "closed"
  ELSE IF bare_queue__ring_full(bare_queue__outbox(e)) THEN "would_block"
  ELSE "ok"

\* Faulty: the reader of an empty ring is not signalled.
MutWrite(e, m) ==
  /\ IF WriteResult(e) = "ok"
       THEN ring' = [ring EXCEPT ![Peer(e)] = bare_queue__ring_push(@, m)]
       ELSE UNCHANGED ring
  /\ UNCHANGED <<wake, state, destroyed, async, freeing, freed>>

\* An empty ring has a reader that may be asleep.
bare_queue_write(e, m) ==
  /\ IF WriteResult(e) = "ok"
       THEN /\ ring' = [ring EXCEPT ![Peer(e)] = bare_queue__ring_push(@, m)]
            /\ wake' = IF bare_queue__ring_empty(bare_queue__outbox(e))
                         THEN bare_queue__signal_peer(e) ELSE wake
       ELSE UNCHANGED <<ring, wake>>
  /\ UNCHANGED <<state, destroyed, async, freeing, freed>>

\* Faulty: the end of the stream comes before what is left in the ring.
MutReadResult(e) ==
  IF state[Peer(e)] >= Ended THEN "eof"
  ELSE IF ~bare_queue__ring_empty(bare_queue__inbox(e)) THEN "data"
  ELSE "would_block"

\* What bare_queue_read returns: a message, the end of the stream, or neither.
ReadResult(e) ==
  IF ~bare_queue__ring_empty(bare_queue__inbox(e)) THEN "data"
  ELSE IF state[Peer(e)] >= Ended THEN "eof"
  ELSE "would_block"

\* Faulty: the tail moves before the message is copied.
MutReadMessage(e) ==
  LET r == bare_queue__ring_shift(bare_queue__inbox(e)) IN r.slots[r.tail]

\* The message that bare_queue_read hands back, if any.
ReadMessage(e) == bare_queue__inbox(e).slots[bare_queue__inbox(e).tail]

\* Faulty: the writer of a full ring is not signalled.
MutRead(e) ==
  /\ IF ReadResult(e) = "data"
       THEN ring' = [ring EXCEPT ![e] = bare_queue__ring_shift(@)]
       ELSE UNCHANGED ring
  /\ UNCHANGED <<wake, state, destroyed, async, freeing, freed>>

\* A full ring has a writer that may be blocked.
bare_queue_read(e) ==
  /\ IF ReadResult(e) = "data"
       THEN /\ ring' = [ring EXCEPT ![e] = bare_queue__ring_shift(@)]
            /\ wake' = IF bare_queue__ring_full(bare_queue__inbox(e))
                         THEN bare_queue__signal_peer(e) ELSE wake
       ELSE UNCHANGED <<ring, wake>>
  /\ UNCHANGED <<state, destroyed, async, freeing, freed>>

bare_queue_readable(e) ==
  \/ ~bare_queue__ring_empty(bare_queue__inbox(e))
  \/ state[Peer(e)] >= Ended

bare_queue_writable(e) ==
  \/ ~bare_queue__ring_full(bare_queue__outbox(e))
  \/ state[e] >= Ended
  \/ state[Peer(e)] = Closed

\* Faulty: closing the host end frees the queue, destroyed or not.
MutUnownedEarly(gone, s) == s["thread"] = Closed \/ (gone /\ s["thread"] = Idle)

\* Faulty: a host end that was never opened is taken for a share.
MutUnownedLate(gone, s) == gone /\ s["thread"] = Closed

\* Whether the last share of the queue is gone.
bare_queue__unowned(gone, s) == gone /\ s["thread"] \in {Idle, Closed}

\* Faulty: an end may move back.
MutAdvanceBack(e, s) ==
  /\ state' = [state EXCEPT ![e] = s]
  /\ wake' = bare_queue__signal_peer(e)
  /\ freeing' = IF bare_queue__unowned(destroyed, state') THEN freeing + 1 ELSE freeing
  /\ UNCHANGED <<ring, destroyed, async, freed>>

\* Faulty: the peer is not told.
MutAdvanceQuiet(e, s) ==
  /\ state' = [state EXCEPT ![e] = IF @ < s THEN s ELSE @]
  /\ freeing' = IF bare_queue__unowned(destroyed, state') THEN freeing + 1 ELSE freeing
  /\ UNCHANGED <<ring, wake, destroyed, async, freed>>

bare_queue__advance(e, s) ==
  /\ state' = [state EXCEPT ![e] = IF @ < s THEN s ELSE @]
  /\ wake' = bare_queue__signal_peer(e)
  /\ freeing' = IF bare_queue__unowned(destroyed, state') THEN freeing + 1 ELSE freeing
  /\ UNCHANGED <<ring, destroyed, async, freed>>

bare_queue_end(e) == bare_queue__advance(e, Ended)

\* Faulty: an end that is closed keeps listening.
MutClose(e) == bare_queue__advance(e, Ended)

bare_queue_close(e) == bare_queue__advance(e, Closed)

bare_queue_destroy ==
  /\ destroyed' = TRUE
  /\ freeing' = IF bare_queue__unowned(TRUE, state) THEN freeing + 1 ELSE freeing
  /\ UNCHANGED <<ring, state, async, wake, freed>>

\* uv_close drops a wakeup that is still pending.
bare_queue_shutdown_uv ==
  /\ async' = "closed"
  /\ wake' = [wake EXCEPT !["uv"] = FALSE]
  /\ UNCHANGED <<ring, state, destroyed, freeing, freed>>

\* The messages still in the rings are freed with the queue.
bare_queue__free ==
  /\ freeing > 0
  /\ freeing' = freeing - 1
  /\ freed' = freed + 1
  /\ ring' = [e \in End |-> [ring[e] EXCEPT !.tail = ring[e].head]]
  /\ UNCHANGED <<state, destroyed, async, wake>>

=============================================================================
