---------------------------- MODULE QueueProtocol ----------------------------
(***************************************************************************)
(* The queue of BareQueue between its two clients, from the creation of a  *)
(* worklet to the release of the queue:                                    *)
(*                                                                         *)
(*  - the worklet thread of worklet.c, which opens the uv end, hands it to *)
(*    the IPCStream of worklet.js, closes it when the runtime is done, and *)
(*    gives up its share once the host has destroyed the worklet;          *)
(*  - the host, which may open its end at any time before it destroys the  *)
(*    worklet, and reads and writes it when it is signalled.               *)
(*                                                                         *)
(* Both follow the protocol of queue.h: upon a wakeup, retry a blocked     *)
(* write and then read until there is nothing (IPCStream._onsignal).  The  *)
(* n-th message that an end's writes accept is the number n.               *)
(***************************************************************************)
EXTENDS BareQueue

CONSTANT MaxWrites   \* bound on the messages that are sent when a new one is

ASSUME MaxWritesAssumption == MaxWrites \in Nat

VARIABLES
  thread,   \* where the worklet thread is, below
  handle,   \* whether the host still has the worklet (bare_worklet_t)
  port,     \* the host's port: "none", "held" or "closed"
  written,  \* written[e]: number of the last message end e wrote
  taken,    \* taken[e]: number of the last message end e read
  blocked,  \* blocked[e]: a write of end e waits to be retried
  reading,  \* reading[e]: whether end e wants to read, below
  eof,      \* eof[e]: end e has read the end of the stream
  busy      \* busy[e]: what end e does about a wakeup: "idle", "retry",
            \* "drain" or "signal"

clientVars == <<written, taken, blocked, reading, eof, busy>>

vars == <<queueVars, thread, handle, port, clientVars>>

(***************************************************************************)
(* The worklet thread: not started; in bare_queue_open_uv; running, the    *)
(* end open; done, the end closed; in teardown, the wakeup handle closed;  *)
(* destroyed, its share given up.  A worklet that is destroyed without     *)
(* having been started is "abandoned" in between.                          *)
(***************************************************************************)
Thread == {"created", "starting", "inited", "notify", "running", "done",
           "teardown", "abandoned", "destroyed"}

(***************************************************************************)
(* An end is "paused" until its stream asks to read and again whenever it  *)
(* has had enough, "flowing" in between.  A client of the bare queue that  *)
(* never asks but reads once it is signalled is "signalled" until then.    *)
(***************************************************************************)
Reading == {"paused", "signalled", "flowing"}

TypeOK ==
  /\ ring \in [End -> [slots : [Index -> Nat], head : Index, tail : Index]]
  /\ state \in [End -> States]
  /\ destroyed \in BOOLEAN
  /\ async \in {"none", "active", "closed"}
  /\ wake \in [End -> BOOLEAN]
  /\ freeing \in Nat
  /\ freed \in Nat
  /\ thread \in Thread
  /\ handle \in BOOLEAN
  /\ port \in {"none", "held", "closed"}
  /\ written \in [End -> Nat]
  /\ taken \in [End -> Nat]
  /\ blocked \in [End -> BOOLEAN]
  /\ reading \in [End -> Reading]
  /\ eof \in [End -> BOOLEAN]
  /\ busy \in [End -> {"idle", "retry", "drain", "signal"}]

Init ==
  /\ bare_queue_create(0)
  /\ thread = "created"
  /\ handle = TRUE
  /\ port = "none"
  /\ written = [e \in End |-> 0]
  /\ taken = [e \in End |-> 0]
  /\ blocked = [e \in End |-> FALSE]
  /\ reading \in [End -> {"paused", "signalled"}]
  /\ eof = [e \in End |-> FALSE]
  /\ busy = [e \in End |-> "idle"]

-----------------------------------------------------------------------------
(* The worklet thread, and the host's hold of the worklet *)

\* bare_worklet_start, once the thread exists.
Start ==
  /\ handle /\ thread = "created"
  /\ thread' = "starting"
  /\ UNCHANGED <<queueVars, handle, port, clientVars>>

OpenInit ==
  /\ thread = "starting"
  /\ bare_queue_open_uv_init
  /\ thread' = "inited"
  /\ UNCHANGED <<handle, port, clientVars>>

OpenPublish ==
  /\ thread = "inited"
  /\ bare_queue_open_uv_publish
  /\ thread' = IF open_uv_pending THEN "notify" ELSE "running"
  /\ UNCHANGED <<handle, port, clientVars>>

OpenNotify ==
  /\ thread = "notify"
  /\ bare_queue_open_uv_notify
  /\ thread' = "running"
  /\ UNCHANGED <<handle, port, clientVars>>

\* bare_run returns, be it that the worklet is done or that it was terminated,
\* in the middle of a callback even; the thread closes its end natively.
Exit ==
  /\ thread = "running"
  /\ bare_queue_close("uv")
  /\ thread' = "done"
  /\ busy' = [busy EXCEPT !["uv"] = "idle"]
  /\ UNCHANGED <<handle, port, written, taken, blocked, reading, eof>>

Shutdown ==
  /\ thread = "done"
  /\ bare_queue_shutdown_uv
  /\ thread' = "teardown"
  /\ UNCHANGED <<handle, port, clientVars>>

\* bare_worklet_destroy of a worklet that was started, start having returned:
\* it is terminated, and the semaphore its thread awaits is posted.
DestroyStarted ==
  /\ handle /\ thread \in {"running", "done", "teardown"}
  /\ handle' = FALSE
  /\ UNCHANGED <<queueVars, thread, port, clientVars>>

\* bare_worklet_destroy of a worklet that has no thread.
DestroyUnstarted ==
  /\ handle /\ thread = "created"
  /\ handle' = FALSE
  /\ bare_queue_close("uv")
  /\ thread' = "abandoned"
  /\ UNCHANGED <<port, clientVars>>

\* The worklet's share is given up, by its thread once the semaphore is posted
\* or by bare_worklet_destroy itself.
DestroyQueue ==
  /\ ~handle /\ thread \in {"teardown", "abandoned"}
  /\ bare_queue_destroy
  /\ thread' = "destroyed"
  /\ UNCHANGED <<handle, port, clientVars>>

Free ==
  /\ bare_queue__free
  /\ UNCHANGED <<thread, handle, port, clientVars>>

-----------------------------------------------------------------------------
(* The host's end *)

\* bare_ipc_create.
HostOpen ==
  /\ handle /\ port = "none"
  /\ bare_queue_open_thread
  /\ port' = "held"
  /\ UNCHANGED <<thread, handle, clientVars>>

\* bare_ipc_close.
HostClose ==
  /\ port = "held"
  /\ bare_queue_close("thread")
  /\ port' = "closed"
  /\ busy' = [busy EXCEPT !["thread"] = "idle"]
  /\ UNCHANGED <<thread, handle, written, taken, blocked, reading, eof>>

-----------------------------------------------------------------------------
(* Both ends.  JavaScript also runs in teardown, its end closed by then.   *)

CanUse(e) ==
  IF e = "uv" THEN thread \in {"running", "teardown"} ELSE port = "held"

\* A write, and what IPCStream._send makes of its result.
Send(e) ==
  /\ bare_queue_write(e, written[e] + 1)
  /\ written' = IF WriteResult(e) = "ok" THEN [written EXCEPT ![e] = @ + 1] ELSE written
  /\ blocked' = [blocked EXCEPT ![e] = WriteResult(e) = "would_block"]

\* IPCStream._write, called again only once the last write is through.
Write(e) ==
  /\ CanUse(e) /\ busy[e] = "idle" /\ ~blocked[e]
  /\ written[e] + written[Peer(e)] < MaxWrites
  /\ Send(e)
  /\ UNCHANGED <<thread, handle, port, taken, reading, eof, busy>>

\* IPCStream._read.
Ask(e) ==
  /\ CanUse(e) /\ busy[e] = "idle"
  /\ reading[e] # "flowing" /\ ~eof[e]
  /\ reading' = [reading EXCEPT ![e] = "flowing"]
  /\ busy' = [busy EXCEPT ![e] = "drain"]
  /\ UNCHANGED <<queueVars, thread, handle, port, written, taken, blocked, eof>>

\* The loop of end e acts on its wakeup (IPCStream._onsignal).
Wake(e) ==
  /\ CanUse(e) /\ busy[e] = "idle" /\ wake[e]
  /\ wake' = [wake EXCEPT ![e] = FALSE]
  /\ busy' = [busy EXCEPT ![e] = "retry"]
  /\ UNCHANGED <<ring, state, destroyed, async, freeing, freed, thread, handle, port,
                 written, taken, blocked, reading, eof>>

\* IPCStream._retry.
Retry(e) ==
  /\ CanUse(e) /\ busy[e] = "retry"
  /\ IF blocked[e] THEN Send(e) ELSE UNCHANGED <<queueVars, written, blocked>>
  /\ busy' = [busy EXCEPT ![e] = IF reading[e] = "paused" THEN "idle" ELSE "drain"]
  /\ reading' = [reading EXCEPT ![e] = IF @ = "paused" THEN @ ELSE "flowing"]
  /\ UNCHANGED <<thread, handle, port, taken, eof>>

\* One read of IPCStream._drain: a message, after which the stream may have had
\* enough, the end of the stream, or nothing, for now.
DrainData(e) ==
  /\ CanUse(e) /\ busy[e] = "drain" /\ ReadResult(e) = "data"
  /\ bare_queue_read(e)
  /\ taken' = [taken EXCEPT ![e] = ReadMessage(e)]
  /\ \/ UNCHANGED <<reading, busy>>
     \/ /\ reading' = [reading EXCEPT ![e] = "paused"]
        /\ busy' = [busy EXCEPT ![e] = "idle"]
  /\ UNCHANGED <<thread, handle, port, written, blocked, eof>>

DrainEnd(e) ==
  /\ CanUse(e) /\ busy[e] = "drain" /\ ReadResult(e) = "eof"
  /\ bare_queue_read(e)
  /\ eof' = [eof EXCEPT ![e] = TRUE]
  /\ reading' = [reading EXCEPT ![e] = "paused"]
  /\ busy' = [busy EXCEPT ![e] = "idle"]
  /\ UNCHANGED <<thread, handle, port, written, taken, blocked>>

DrainNothing(e) ==
  /\ CanUse(e) /\ busy[e] = "drain" /\ ReadResult(e) = "would_block"
  /\ bare_queue_read(e)
  /\ busy' = [busy EXCEPT ![e] = "idle"]
  /\ UNCHANGED <<thread, handle, port, written, taken, blocked, reading, eof>>

Drain(e) == DrainData(e) \/ DrainEnd(e) \/ DrainNothing(e)

\* IPCStream._final, once pending writes are through.
WorkletEnd ==
  /\ CanUse("uv") /\ busy["uv"] = "idle" /\ ~blocked["uv"]
  /\ bare_queue_end("uv")
  /\ UNCHANGED <<thread, handle, port, clientVars>>

\* bare_ipc_end, which then signals its own end, so that a poll sees that writes
\* now fail.
HostEnd ==
  /\ CanUse("thread") /\ busy["thread"] = "idle"
  /\ bare_queue_end("thread")
  /\ busy' = [busy EXCEPT !["thread"] = "signal"]
  /\ UNCHANGED <<thread, handle, port, written, taken, blocked, reading, eof>>

HostEndSignal ==
  /\ CanUse("thread") /\ busy["thread"] = "signal"
  /\ wake' = [wake EXCEPT !["thread"] = TRUE]
  /\ busy' = [busy EXCEPT !["thread"] = "idle"]
  /\ UNCHANGED <<ring, state, destroyed, async, freeing, freed, thread, handle, port,
                 written, taken, blocked, reading, eof>>

-----------------------------------------------------------------------------

Client(e) == Write(e) \/ Ask(e) \/ Wake(e) \/ Retry(e) \/ Drain(e)

Next ==
  \/ Start \/ OpenInit \/ OpenPublish \/ OpenNotify \/ Exit \/ Shutdown
  \/ DestroyStarted \/ DestroyUnstarted \/ DestroyQueue \/ Free
  \/ HostOpen \/ HostClose \/ HostEnd \/ HostEndSignal
  \/ WorkletEnd
  \/ \E e \in End : Client(e)

(***************************************************************************)
(* The worklet thread does not stop on its way through worklet.c, except   *)
(* in bare_run, which a destroyed worklet leaves as it is terminated, and  *)
(* on the semaphore.  A loop that was woken runs its callback however busy *)
(* its client is otherwise, as it looks for wakeups in every iteration and *)
(* the host's runs on a thread of its own (hence strong fairness), and the *)
(* callback, or bare_ipc_end, completes.  That anyone writes, asks, ends   *)
(* or closes is not assumed.                                               *)
(***************************************************************************)
Fairness ==
  /\ WF_vars(\/ OpenInit \/ OpenPublish \/ OpenNotify \/ (~handle /\ Exit)
             \/ Shutdown \/ DestroyQueue)
  /\ WF_vars(Free)
  /\ \A e \in End :
       /\ SF_vars(Wake(e))
       /\ WF_vars(Retry(e) \/ Drain(e) \/ (e = "thread" /\ HostEndSignal))

Spec == Init /\ [][Next]_vars

FairSpec == Spec /\ Fairness

-----------------------------------------------------------------------------
(* Safety *)

\* How many messages a ring holds, and the slot of the i-th of them.
Count(r) == IF r.tail <= r.head THEN r.head - r.tail ELSE r.head + Capacity - r.tail

Slot(r, i) == IF r.tail + i < Capacity THEN r.tail + i ELSE r.tail + i - Capacity

(***************************************************************************)
(* Neither ring loses, duplicates or reorders a message: as long as the    *)
(* queue lives, what an end has written and its peer has not yet read is   *)
(* in the peer's inbox, in the order in which it was written, across any   *)
(* number of times that head and tail wrap around (queue.c:11-40).         *)
(***************************************************************************)
Fifo ==
  freed = 0 =>
    \A e \in End :
      /\ written[Peer(e)] = taken[e] + Count(ring[e])
      /\ \A i \in 0 .. Count(ring[e]) - 1 :
           ring[e].slots[Slot(ring[e], i)] = taken[e] + 1 + i

\* An end reads its peer's messages one by one and in order, until it has read
\* the end of the stream and from then on reads nothing (queue.c:207-238).
InOrder ==
  [][\A e \in End : taken'[e] # taken[e] => taken'[e] = taken[e] + 1 /\ ~eof[e]]_vars

\* The end of the stream is the end of it: an end reads it only after the last
\* message its peer's writes ever accept (queue.c:196, 220-235).
EofIsLast ==
  \A e \in End : eof[e] => taken[e] = written[Peer(e)]

\* "Each end only moves forward through these" (queue.h:30), though the worklet
\* may end its end after worklet.c has closed it.
EndsOnlyAdvance ==
  [][\A e \in End : state'[e] >= state[e]]_vars

(***************************************************************************)
(* Wakeups are sent only when a ring turns non-empty or stops being full   *)
(* and when an end advances, are coalesced, and are not sent to an end     *)
(* that is not listening; and yet no end sleeps on something it could do.  *)
(* If an open end is neither woken nor about to be, then there is nothing  *)
(* for it to read, if it wants to, and its blocked write is still blocked. *)
(***************************************************************************)
NoLostWake ==
  \A e \in End :
    \/ ~bare_queue__listening(state[e])
    \/ wake[e]
    \/ busy[e] # "idle"
    \/ e = "uv" /\ thread = "notify"
    \/ /\ reading[e] # "paused" => bare_queue__ring_empty(ring[e])
       /\ reading[e] = "flowing" => state[Peer(e)] < Ended
       /\ blocked[e] => ~bare_queue_writable(e)

\* The queue is released once, by whichever of its two shares is given up last,
\* and from the moment a caller has decided to release it nobody can reach it:
\* the lock is let go in between (queue.c:260-277, 315-326).
NoUseAfterFree ==
  /\ freeing + freed <= 1
  /\ freeing + freed = 1 => ~handle /\ thread = "destroyed" /\ port # "held"

\* uv_async_send is only ever called on a handle that is on the loop: the peer
\* signals an end that is listening (queue.c:69), and open_uv catches up outside
\* the lock (queue.c:148).
AsyncAlive ==
  bare_queue__listening(state["uv"]) \/ thread = "notify" => async = "active"

-----------------------------------------------------------------------------
(* Liveness *)

\* An end that wants to read sooner or later has read what is in its inbox, or
\* has had enough, or is closed.
Delivered ==
  \A e \in End :
    (reading[e] # "paused" /\ bare_queue__listening(state[e])
       /\ ~bare_queue__ring_empty(ring[e]))
    ~> (\/ bare_queue__ring_empty(ring[e])
        \/ reading[e] = "paused"
        \/ state[e] = Closed)

\* An end that asked to read, and whose peer ended or closed or went away, reads
\* the end of the stream, or has had enough, or is closed.
EofDelivered ==
  \A e \in End :
    (reading[e] = "flowing" /\ state[Peer(e)] >= Ended)
    ~> (reading[e] = "paused" \/ state[e] = Closed)

\* A blocked write goes through or fails once there is room or no point in
\* waiting.
WriteResolved ==
  \A e \in End :
    (blocked[e] /\ bare_queue_writable(e)) ~> (~blocked[e] \/ state[e] = Closed)

\* The queue is released once the host has destroyed the worklet and does not
\* hold a port.
QueueReleased ==
  (~handle /\ port # "held") ~> freed = 1

-----------------------------------------------------------------------------
(* What bare-kit.h says of the queue's host end *)

\* bare_ipc_create "Fails if the worklet already has an ipc or has been
\* terminated." (bare-kit.h:224-225)
CreateFailsOnceTerminated ==
  [][port = "none" /\ port' = "held" => state["uv"] # Closed]_vars

=============================================================================
