------------------------------- MODULE BareIpc -------------------------------
(***************************************************************************)
(* The host end of the ipc (src/src/ipc.c) on a thread of its own          *)
(* (src/src/standalone/ipc.c), over the queue of BareQueue.                *)
(*                                                                         *)
(* Three threads: the host's, which calls the API of bare-kit.h; the       *)
(* signal thread, which the ipc owns and on which poll callbacks run, from *)
(* where they may call the same API; and the worklet's, at the other end   *)
(* of the queue.  A step is what a thread does under one lock, or one      *)
(* atomic access, so that every interleaving the code allows is a          *)
(* behaviour.                                                              *)
(*                                                                         *)
(* The caller keeps to what the API asks for: a poll is destroyed before   *)
(* its ipc, by one thread only, and neither is used afterwards.  The n-th  *)
(* byte that the worklet writes is the number n.                           *)
(***************************************************************************)
EXTENDS BareQueue, FiniteSets

CONSTANTS
  MaxMessage,  \* bound on the length of a message
  MaxSent,     \* bound on the bytes the worklet writes
  MaxStarts    \* bound on calls of bare_ipc_poll_start

ASSUME IpcBounds == MaxMessage \in Nat \ {0} /\ MaxSent \in Nat /\ MaxStarts \in Nat

VARIABLES
  worklet,   \* the worklet's end: "open", "ended", "closed" or "destroyed"
  ipc,       \* memory of the bare_ipc_t: "none", "live" or "freed"
  lock,      \* ipc->lock: "none", "free", or the thread that holds it
  attached,  \* whether ipc->port is not NULL
  pending,   \* ipc->pending: None, or a message that was read in part
  offset,    \* ipc->offset
  poll,      \* memory of the bare_ipc_poll_t: "none", "live" or "freed"
  linked,    \* whether ipc->poll is not NULL
  events,    \* poll->events
  cb,        \* whether poll->cb is not NULL
  signal,    \* memory of the bare_ipc_signal_t: "none", "live" or "freed"
  running,   \* signal->running: "free", or the thread that holds it
  watching,  \* whether signal->ipc is not NULL
  closing,   \* whether signal->close was sent
  detached,  \* signal->detached
  sig,       \* where the signal thread is, below
  ready,     \* its local of that name in bare_ipc__dispatch
  op,        \* op[t]: the API call that thread t is in, below
  held,      \* what the caller may use: a subset of {"ipc", "poll"}
  sent,      \* number of the last byte the worklet wrote
  got,       \* number of the last byte the host read
  told,      \* events the host was called back with and has not used up
  stopped,   \* whether the last poll_start was followed by a poll_stop
  starts     \* how often bare_ipc_poll_start was called

queueRest == <<ring, state, destroyed, async, freeing, freed>>
sigRest   == <<signal, watching, closing, detached>>
sigVars   == <<sigRest, running, sig, ready>>
ipcMem    == <<ipc, lock, attached, linked>>
ipcVars   == <<ipcMem, pending, offset>>
pollMem   == <<poll, events, cb>>
pollVars  == <<pollMem, told, stopped, starts>>
ends      == <<worklet, held, sent, got>>

vars == <<queueVars, sigVars, ipcVars, pollVars, ends, op>>

Threads == {"host", "signal"}
Events == {"readable", "writable"}

None == [first |-> 0, len |-> 0]

Message == [first : Nat, len : Nat]

(***************************************************************************)
(* The signal thread waits in its loop, takes a wakeup, locks `running',   *)
(* and in bare_ipc__dispatch loads the poll, its callback and its events,  *)
(* looks at the queue, and calls back; or it leaves the loop.              *)
(***************************************************************************)
Sig == {"none", "loop", "lock", "poll", "cb", "events", "ready", "call", "callback",
        "unlock", "exit", "ended"}

(***************************************************************************)
(* An API call is "idle" between calls, and otherwise named for the        *)
(* function and what is next in it.                                        *)
(***************************************************************************)
Op == {"idle", "create.open", "create.init", "create.fail", "create.join",
       "read", "end", "close",
       "destroy", "destroy.close", "destroy.signal", "destroy.join",
       "start.cb", "start.signal", "stop",
       "poll.destroy", "poll.unset", "poll.free"}

TypeOK ==
  /\ ring \in [End -> [slots : [Index -> Message], head : Index, tail : Index]]
  /\ state \in [End -> States]
  /\ destroyed \in BOOLEAN
  /\ async \in {"none", "active", "closed"}
  /\ wake \in [End -> BOOLEAN]
  /\ freeing \in Nat /\ freed \in Nat
  /\ worklet \in {"open", "ended", "closed", "destroyed"}
  /\ ipc \in {"none", "live", "freed"}
  /\ lock \in {"none", "free"} \cup Threads
  /\ attached \in BOOLEAN
  /\ pending \in Message /\ offset \in Nat
  /\ poll \in {"none", "live", "freed"}
  /\ linked \in BOOLEAN
  /\ events \subseteq Events
  /\ cb \in BOOLEAN
  /\ signal \in {"none", "live", "freed"}
  /\ running \in {"free"} \cup Threads
  /\ watching \in BOOLEAN /\ closing \in BOOLEAN /\ detached \in BOOLEAN
  /\ sig \in Sig
  /\ ready \subseteq Events
  /\ op \in [Threads -> Op]
  /\ held \subseteq {"ipc", "poll"}
  /\ sent \in Nat /\ got \in Nat
  /\ told \subseteq Events
  /\ stopped \in BOOLEAN
  /\ starts \in Nat

\* A worklet whose end is open, and whose host end was not opened before or was
\* opened by another ipc, closed since.
Init ==
  /\ ring = [e \in End |-> [slots |-> [i \in Index |-> None], head |-> 0, tail |-> 0]]
  /\ state \in {[uv |-> Open, thread |-> s] : s \in {Idle, Closed}}
  /\ destroyed = FALSE /\ async = "active" /\ wake = [e \in End |-> FALSE]
  /\ freeing = 0 /\ freed = 0
  /\ worklet = "open"
  /\ ipc = "none" /\ lock = "none" /\ attached = FALSE /\ pending = None /\ offset = 0
  /\ poll = "none" /\ linked = FALSE /\ events = {} /\ cb = FALSE
  /\ signal = "none" /\ running = "free" /\ watching = FALSE /\ closing = FALSE
  /\ detached = FALSE /\ sig = "none" /\ ready = {}
  /\ op = [t \in Threads |-> "idle"]
  /\ held = {}
  /\ sent = 0 /\ got = 0 /\ told = {} /\ stopped = FALSE /\ starts = 0

-----------------------------------------------------------------------------
(* The worklet's end *)

\* IPCStream._send.
WorkletWrite(len) ==
  /\ worklet = "open"
  /\ sent + len <= MaxSent
  /\ bare_queue_write("uv", [first |-> sent + 1, len |-> len])
  /\ sent' = IF WriteResult("uv") = "ok" THEN sent + len ELSE sent
  /\ UNCHANGED <<sigVars, ipcVars, pollVars, worklet, op, held, got>>

\* One read of IPCStream._drain.
WorkletRead ==
  /\ worklet \in {"open", "ended"}
  /\ ReadResult("uv") = "data"
  /\ bare_queue_read("uv")
  /\ UNCHANGED <<sigVars, ipcVars, pollVars, ends, op>>

WorkletEnd ==
  /\ worklet = "open"
  /\ bare_queue_end("uv")
  /\ worklet' = "ended"
  /\ UNCHANGED <<sigVars, ipcVars, pollVars, op, held, sent, got>>

\* The worklet thread is done.
WorkletClose ==
  /\ worklet \in {"open", "ended"}
  /\ bare_queue_close("uv")
  /\ worklet' = "closed"
  /\ UNCHANGED <<sigVars, ipcVars, pollVars, op, held, sent, got>>

\* The host has destroyed the worklet, which an ipc that was created outlives.
WorkletDestroy ==
  /\ worklet = "closed" /\ ipc # "none" /\ op["host"] # "create.open"
  /\ bare_queue_destroy
  /\ worklet' = "destroyed"
  /\ UNCHANGED <<sigVars, ipcVars, pollVars, op, held, sent, got>>

Free ==
  /\ bare_queue__free
  /\ UNCHANGED <<sigVars, ipcVars, pollVars, ends, op>>

-----------------------------------------------------------------------------
(* The signal thread *)

\* A wakeup of the loop is taken before its callback, bare_ipc__on_wake, runs.
SigWake ==
  /\ sig = "loop" /\ wake["thread"]
  /\ wake' = [wake EXCEPT !["thread"] = FALSE]
  /\ sig' = "lock"
  /\ UNCHANGED <<queueRest, sigRest, ipcVars, pollVars, ends, running, ready, op>>

SigLock ==
  /\ sig = "lock" /\ running = "free"
  /\ running' = "signal"
  /\ sig' = IF watching THEN "poll" ELSE "unlock"
  /\ UNCHANGED <<queueVars, sigRest, ipcVars, pollVars, ends, ready, op>>

\* bare_ipc__dispatch loads ipc->poll ...
SigPoll ==
  /\ sig = "poll"
  /\ sig' = IF linked THEN "cb" ELSE "unlock"
  /\ UNCHANGED <<queueVars, sigRest, ipcVars, pollVars, ends, running, ready, op>>

\* ... its callback ...
SigCb ==
  /\ sig = "cb"
  /\ sig' = IF cb THEN "events" ELSE "unlock"
  /\ UNCHANGED <<queueVars, sigRest, ipcVars, pollVars, ends, running, ready, op>>

\* ... and the events it is after ...
SigEvents ==
  /\ sig = "events"
  /\ ready' = events
  /\ sig' = "ready"
  /\ UNCHANGED <<queueVars, sigRest, ipcVars, pollVars, ends, running, op>>

\* What a read and a write would not block on; a closed ipc reads the end of the
\* stream and fails writes.
IpcReady ==
  IF attached
    THEN {x \in Events :
            \/ x = "readable" /\ (pending # None \/ bare_queue_readable("thread"))
            \/ x = "writable" /\ bare_queue_writable("thread")}
    ELSE Events

\* ... of which it keeps, under the ipc's lock, those that are ready.
SigReady ==
  /\ sig = "ready" /\ lock = "free"
  /\ ready' = ready \cap IpcReady
  /\ sig' = IF ready \cap IpcReady = {} THEN "unlock" ELSE "call"
  /\ UNCHANGED <<queueVars, sigRest, ipcVars, pollVars, ends, running, op>>

\* The callback is called with them.
SigCall ==
  /\ sig = "call"
  /\ sig' = "callback"
  /\ told' = told \cup ready
  /\ UNCHANGED <<queueVars, sigRest, ipcVars, pollMem, ends, running, ready, stopped, starts, op>>

\* It returns.
SigReturn ==
  /\ sig = "callback" /\ op["signal"] = "idle"
  /\ sig' = "unlock"
  /\ UNCHANGED <<queueVars, sigRest, ipcVars, pollVars, ends, running, ready, op>>

SigUnlock ==
  /\ sig = "unlock"
  /\ running' = "free"
  /\ sig' = "loop"
  /\ ready' = {}
  /\ UNCHANGED <<queueVars, sigRest, ipcVars, pollVars, ends, op>>

\* bare_ipc__on_close closes both handles, upon which the loop is done.
SigClose ==
  /\ sig = "loop" /\ closing
  /\ sig' = "exit"
  /\ UNCHANGED <<queueVars, sigRest, ipcVars, pollVars, ends, running, ready, op>>

\* The end of bare_ipc__signal_thread, which frees a signal nobody waits for.
SigExit ==
  /\ sig = "exit"
  /\ sig' = "ended"
  /\ signal' = IF detached THEN "freed" ELSE signal
  /\ UNCHANGED <<queueVars, ipcVars, pollVars, ends, running, watching, closing, detached,
                 ready, op>>

SignalThread ==
  \/ SigWake \/ SigLock \/ SigPoll \/ SigCb \/ SigEvents \/ SigReady \/ SigCall
  \/ SigUnlock \/ SigClose \/ SigExit

-----------------------------------------------------------------------------
(* The API, as called by thread t: the host's, or the signal thread's from *)
(* within a callback.                                                      *)

Caller(t) == op[t] = "idle" /\ (t = "host" \/ sig = "callback")

Goto(t, p) == op' = [op EXCEPT ![t] = p]

\* Faulty: a callback is not waited for.
MutLockAlways(t) == TRUE

\* Faulty: the lock is not recursive.
MutLockOnce(t) == running = "free"

\* Whether t may lock `running', which is recursive.
CanLock(t) == running \in {"free", t}

\* bare_ipc__signal.
Signal == wake' = [wake EXCEPT !["thread"] = TRUE]

\* bare_ipc_create: the signal is set up ...
Create ==
  /\ ipc = "none" /\ Caller("host") /\ worklet # "destroyed"
  /\ ipc' = "live"
  /\ signal' = "live" /\ watching' = TRUE /\ sig' = "loop"
  /\ Goto("host", "create.open")
  /\ UNCHANGED <<queueVars, pollVars, ends, running, closing, detached, ready, lock, attached,
                 pending, offset, linked>>

\* ... the host end of the queue opened, unless it has been before ...
CreateOpen ==
  /\ op["host"] = "create.open"
  /\ \/ /\ bare_queue_open_thread
        /\ attached' = TRUE
        /\ Goto("host", "create.init")
     \/ /\ state["thread"] # Idle
        /\ Goto("host", "create.fail")
        /\ UNCHANGED <<queueVars, attached>>
  /\ UNCHANGED <<sigVars, pollVars, ends, ipc, lock, pending, offset, linked>>

\* ... and the lock initialised, the signal thread being at large by then.
CreateInit ==
  /\ op["host"] = "create.init"
  /\ lock' = "free"
  /\ held' = {"ipc"}
  /\ Goto("host", "idle")
  /\ UNCHANGED <<queueVars, sigVars, pollVars, ipc, attached, pending, offset, linked,
                 worklet, sent, got>>

\* bare_ipc_read: under the lock, the next message is taken from the queue if
\* there is none that was read in part ...
Read(t) ==
  /\ Caller(t) /\ "ipc" \in held /\ lock = "free"
  /\ lock' = t
  /\ IF attached /\ pending = None
       THEN /\ bare_queue_read("thread")
            /\ offset' = 0
            /\ pending' = IF ReadResult("thread") = "data" THEN ReadMessage("thread") ELSE None
            /\ told' = IF ReadResult("thread") = "would_block" THEN told \ {"readable"} ELSE told
       ELSE UNCHANGED <<queueVars, offset, pending, told>>
  /\ Goto(t, "read")
  /\ UNCHANGED <<sigVars, pollMem, ends, ipc, attached, linked, stopped, starts>>

\* Faulty: what is still in the queue is forgotten.
MutMoreToRead(n, left) == n < left

\* Whether there is more, or the end of the stream, after n of left bytes.
MoreToRead(n, left) == n < left \/ bare_queue_readable("thread")

\* ... and up to len bytes of it are handed out; the host is woken again if there
\* is more.
ReadBytes(t, len) ==
  /\ op[t] = "read" /\ pending # None
  /\ LET left == pending.len - offset
         n    == IF len > left THEN left ELSE len
     IN  /\ got' = pending.first + offset + n - 1
         /\ offset' = offset + n
         /\ pending' = IF n = left THEN None ELSE pending
         /\ wake' = [wake EXCEPT !["thread"] = @ \/ MoreToRead(n, left)]
  /\ told' = told \ {"readable"}
  /\ lock' = "free"
  /\ Goto(t, "idle")
  /\ UNCHANGED <<queueRest, sigVars, pollMem, ipc, attached, linked, stopped, starts, worklet,
                 held, sent>>

ReadNothing(t) ==
  /\ op[t] = "read" /\ pending = None
  /\ lock' = "free"
  /\ Goto(t, "idle")
  /\ UNCHANGED <<queueVars, sigVars, pollVars, ends, ipc, attached, pending, offset, linked>>

\* bare_ipc_write.
Write(t) ==
  /\ Caller(t) /\ "ipc" \in held /\ lock = "free" /\ attached
  /\ bare_queue_write("thread", [first |-> 1, len |-> 1])
  /\ told' = IF WriteResult("thread") = "would_block" THEN told \ {"writable"} ELSE told
  /\ UNCHANGED <<sigVars, ipcVars, pollMem, ends, stopped, starts, op>>

\* bare_ipc_end, then its signal.
HostEnd(t) ==
  /\ Caller(t) /\ "ipc" \in held /\ lock = "free" /\ attached
  /\ bare_queue_end("thread")
  /\ lock' = t
  /\ Goto(t, "end")
  /\ UNCHANGED <<sigVars, pollVars, ends, ipc, attached, pending, offset, linked>>

HostEndSignal(t) ==
  /\ op[t] = "end"
  /\ Signal
  /\ lock' = "free"
  /\ Goto(t, "idle")
  /\ UNCHANGED <<queueRest, sigVars, pollVars, ends, ipc, attached, pending, offset, linked>>

\* bare_ipc_close, by itself or from bare_ipc_destroy; again, it is a no-op.
bare_ipc_close(t) ==
  /\ lock = "free" /\ attached
  /\ bare_queue_close("thread")
  /\ lock' = t

Close(t) ==
  /\ Caller(t) /\ "ipc" \in held
  /\ bare_ipc_close(t)
  /\ Goto(t, "close")
  /\ UNCHANGED <<sigVars, pollVars, ends, ipc, attached, pending, offset, linked>>

DestroyClose(t) ==
  /\ op[t] = "destroy"
  /\ bare_ipc_close(t)
  /\ Goto(t, "destroy.close")
  /\ UNCHANGED <<sigVars, pollVars, ends, ipc, attached, pending, offset, linked>>

\* Faulty: a message that was read in part is kept.
MutCloseSignal(t) ==
  /\ \/ op[t] = "close" /\ Goto(t, "idle")
     \/ op[t] = "destroy.close" /\ Goto(t, "destroy.signal")
  /\ attached' = FALSE
  /\ Signal
  /\ lock' = "free"
  /\ UNCHANGED <<queueRest, sigVars, pollVars, ends, ipc, linked, pending, offset>>

CloseSignal(t) ==
  /\ \/ op[t] = "close" /\ Goto(t, "idle")
     \/ op[t] = "destroy.close" /\ Goto(t, "destroy.signal")
  /\ attached' = FALSE
  /\ pending' = None
  /\ Signal
  /\ lock' = "free"
  /\ UNCHANGED <<queueRest, sigVars, pollVars, ends, ipc, offset, linked>>

\* bare_ipc_destroy, once the poll is gone.
Destroy(t) ==
  /\ Caller(t) /\ held = {"ipc"} /\ poll # "live"
  /\ \A u \in Threads : op[u] = "idle"
  /\ held' = {}
  /\ Goto(t, IF attached THEN "destroy" ELSE "destroy.signal")
  /\ UNCHANGED <<queueVars, sigVars, ipcVars, pollVars, worklet, sent, got>>

\* bare_ipc__signal_destroy: waits for a callback, unless called from it, and then
\* for the thread, unless called on it.  Also where bare_ipc_create fails.
DestroySignal(t) ==
  /\ \/ op[t] = "destroy.signal" /\ t = "host" /\ Goto(t, "destroy.join")
     \/ op[t] = "destroy.signal" /\ t = "signal" /\ Goto(t, "idle")
     \/ op[t] = "create.fail" /\ Goto(t, "create.join")
  /\ CanLock(t)
  /\ watching' = FALSE
  /\ closing' = TRUE
  /\ IF t = "signal"
       THEN detached' = TRUE /\ ipc' = "freed" /\ lock' = "none"
       ELSE UNCHANGED <<detached, ipc, lock>>
  /\ UNCHANGED <<queueVars, pollVars, ends, signal, running, sig, ready, attached, pending,
                 offset, linked>>

DestroyJoin ==
  /\ op["host"] \in {"destroy.join", "create.join"}
  /\ sig = "ended"
  /\ signal' = "freed" /\ ipc' = "freed" /\ lock' = "none"
  /\ Goto("host", "idle")
  /\ UNCHANGED <<queueVars, pollVars, ends, running, watching, closing, detached, sig, ready,
                 attached, pending, offset, linked>>

\* bare_ipc_poll_create, which waits for `running' to set the poll.
PollCreate ==
  /\ Caller("host") /\ held = {"ipc"} /\ poll = "none"
  /\ CanLock("host")
  /\ poll' = "live" /\ linked' = TRUE
  /\ held' = {"ipc", "poll"}
  /\ UNCHANGED <<queueVars, sigVars, ipc, lock, attached, pending, offset, events, cb, told,
                 stopped, starts, worklet, op, sent, got>>

\* A callback may use its poll while the host, about to destroy it, waits for it.
MayPoll(t) ==
  Caller(t) /\ ("poll" \in held \/ (t = "signal" /\ op["host"] \in {"poll.destroy", "poll.unset"}))

\* bare_ipc_poll_start: the events, the callback, a signal.
PollStart(t, es) ==
  /\ MayPoll(t) /\ starts < MaxStarts
  /\ events' = es
  /\ told' = {} /\ stopped' = FALSE /\ starts' = starts + 1
  /\ Goto(t, "start.cb")
  /\ UNCHANGED <<queueVars, sigVars, ipcVars, ends, poll, cb>>

PollStartCb(t) ==
  /\ op[t] = "start.cb"
  /\ cb' = TRUE
  /\ Goto(t, "start.signal")
  /\ UNCHANGED <<queueVars, sigVars, ipcVars, ends, poll, events, told, stopped, starts>>

PollStartSignal(t) ==
  /\ op[t] = "start.signal"
  /\ Signal
  /\ Goto(t, "idle")
  /\ UNCHANGED <<queueRest, sigVars, ipcVars, pollVars, ends>>

\* bare_ipc_poll_stop: no events, no callback; the beginning of
\* bare_ipc_poll_destroy, too.
PollStop(t) ==
  /\ MayPoll(t)
  /\ events' = {}
  /\ \/ /\ Goto(t, "stop")
        /\ UNCHANGED held
     \/ /\ "poll" \in held /\ (t = "signal" => op["host"] = "idle")
        /\ held' = {"ipc"}
        /\ Goto(t, "poll.destroy")
  /\ UNCHANGED <<queueVars, sigVars, ipcVars, poll, cb, told, stopped, starts, worklet, sent, got>>

PollStopCb(t) ==
  /\ \/ op[t] = "stop" /\ Goto(t, "idle")
     \/ op[t] = "poll.destroy" /\ Goto(t, "poll.unset")
  /\ cb' = FALSE
  /\ stopped' = (stopped \/ op[t] = "stop")
  /\ UNCHANGED <<queueVars, sigVars, ipcVars, ends, poll, events, told, starts>>

\* bare_ipc__set_poll waits for a callback, unless called from it.
PollUnset(t) ==
  /\ op[t] = "poll.unset"
  /\ CanLock(t)
  /\ linked' = FALSE
  /\ Goto(t, "poll.free")
  /\ UNCHANGED <<queueVars, sigVars, pollVars, ends, ipc, lock, attached, pending, offset>>

PollFree(t) ==
  /\ op[t] = "poll.free"
  /\ poll' = "freed"
  /\ Goto(t, "idle")
  /\ UNCHANGED <<queueVars, sigVars, ipcVars, ends, events, cb, told, stopped, starts>>

-----------------------------------------------------------------------------

\* A call that thread t begins, and the rest of one that it is in.
Begin(t) ==
  \/ Read(t) \/ Write(t) \/ HostEnd(t) \/ Close(t) \/ Destroy(t) \/ PollStop(t)
  \/ \E es \in SUBSET Events \ {{}} : PollStart(t, es)

Continue(t) ==
  \/ \E len \in 1 .. MaxMessage : ReadBytes(t, len)
  \/ ReadNothing(t) \/ HostEndSignal(t) \/ CloseSignal(t) \/ DestroySignal(t) \/ DestroyClose(t)
  \/ PollStartCb(t) \/ PollStartSignal(t) \/ PollStopCb(t) \/ PollUnset(t) \/ PollFree(t)

Worklet ==
  \/ \E len \in 1 .. MaxMessage : WorkletWrite(len)
  \/ WorkletRead \/ WorkletEnd \/ WorkletClose \/ WorkletDestroy \/ Free

Next ==
  \/ Worklet \/ SignalThread \/ SigReturn
  \/ Create \/ CreateOpen \/ CreateInit \/ DestroyJoin \/ PollCreate
  \/ \E t \in Threads : Begin(t) \/ Continue(t)

(***************************************************************************)
(* A thread that can proceed again and again does so: threads run, a mutex *)
(* that is free again and again is acquired, and callbacks return.  Nobody *)
(* is assumed to begin a call.                                             *)
(***************************************************************************)
Fairness ==
  /\ SF_vars(SignalThread \/ SigReturn)
  /\ SF_vars(Continue("signal"))
  /\ SF_vars(Continue("host") \/ CreateOpen \/ CreateInit \/ DestroyJoin)

Spec == Init /\ [][Next]_vars

FairSpec == Spec /\ Fairness

-----------------------------------------------------------------------------
(* Safety *)

(***************************************************************************)
(* Nothing is touched before it was initialised or after it was freed,     *)
(* wherever the threads are: the signal thread in the middle of a dispatch *)
(* as the host destroys the poll and the ipc, the callback that destroys   *)
(* both and then returns, and the worklet that signals a host end still    *)
(* open (standalone/ipc.c:12-39, 115-159; queue.c:72-78).  The ipc's lock  *)
(* is initialised after the signal thread was started and the host end     *)
(* opened, and yet not used before, as there is no poll (ipc.c:24-43,      *)
(* 96-98).                                                                 *)
(***************************************************************************)
MemorySafe ==
  /\ sig \notin {"none", "ended"} => signal = "live"
  /\ sig \in {"poll", "cb", "events", "ready"} => ipc = "live"
  /\ sig \in {"cb", "events", "call"} => poll = "live"
  /\ \A t \in Threads :
       /\ op[t] # "idle" => ipc = "live"
       /\ op[t] \in {"start.cb", "start.signal", "stop", "poll.destroy", "poll.unset", "poll.free"}
            => poll = "live"
  /\ bare_queue__listening(state["thread"])
       => ipc = "live" /\ signal = "live" /\ sig \notin {"exit", "ended"}
  /\ attached /\ (\A t \in Threads : op[t] \notin {"close", "destroy.close"})
       => freeing + freed = 0
  /\ sig = "ready" => lock # "none"
  /\ "ipc" \in held => lock # "none"

\* The i-th message of the host's inbox, and the byte before it.
Inbox(i) == ring["thread"].slots[(ring["thread"].tail + i) % Capacity]

InboxCount == (ring["thread"].head + Capacity - ring["thread"].tail) % Capacity

Before(i) ==
  IF i > 0 THEN Inbox(i - 1).first + Inbox(i - 1).len - 1
  ELSE IF pending # None THEN pending.first + pending.len - 1
  ELSE got

(***************************************************************************)
(* Reads of any length, from the host's thread and from callbacks, hand    *)
(* out the worklet's bytes in order, none twice and none left out: what is *)
(* left of the message that was read in part comes next, then what is in   *)
(* the queue, up to the last byte written (ipc.c:119-160).  A message that *)
(* was read in part does not outlive the port, which bare_ipc_read asks    *)
(* whether there is more (ipc.c:131-154).                                  *)
(***************************************************************************)
BytesInOrder ==
  /\ pending # None => attached
  /\ attached /\ (\A t \in Threads : op[t] \notin {"close", "destroy.close"}) =>
       /\ pending # None => pending.first + offset = got + 1 /\ offset < pending.len
       /\ \A i \in 0 .. InboxCount - 1 : Inbox(i).first = Before(i) + 1
       /\ Before(InboxCount) = sent

(***************************************************************************)
(* A poll that is started and has not been told of an event that is ready  *)
(* will be: the signal thread is woken or at work.  Being told of          *)
(* "readable" lasts until something is read or there is nothing to read,   *)
(* and of "writable" until a write finds no room; so a host that reads     *)
(* once per callback does not stall (ipc.c:153-154).                       *)
(***************************************************************************)
PollNotLost ==
  (/\ "poll" \in held /\ cb
   /\ sig = "loop" /\ ~wake["thread"]
   /\ \A t \in Threads : op[t] = "idle")
  => events \cap IpcReady \subseteq told

-----------------------------------------------------------------------------
(* Liveness *)

\* bare_ipc_poll_destroy and bare_ipc_destroy return, though they wait for a
\* callback that may itself wait for the ipc's lock, and for the signal thread,
\* unless they run on it (standalone/ipc.c:115-159); or, on Apple platforms, for
\* a block on a serial queue (apple/ipc.m:90-91).
DestroyReturns ==
  \A t \in Threads : op[t] # "idle" ~> op[t] = "idle"

\* Once its ipc is being destroyed, the signal thread ends, and the signal is freed
\* by whoever is responsible (standalone/ipc.c:115-159); or the source is cancelled,
\* though it may be its own handler that cancels it, and let go of
\* (apple/ipc.m:54-71).
SignalFreed ==
  closing ~> (sig = "ended" /\ signal = "freed")

-----------------------------------------------------------------------------
(* What bare-kit.h says of polls *)

\* "Stop polling, after which the callback is no longer called."
\* (bare-kit.h:311)
StopIsFinal ==
  [][sig = "call" /\ sig' = "callback" => ~stopped]_vars

\* "Polls are level-triggered, so the callback is called again for as long as the
\* events remain ready." (bare-kit.h:303-305)
LevelTriggered ==
  <>[]("poll" \in held /\ cb /\ "readable" \in events /\ "readable" \in IpcReady)
    => []<>(sig = "callback")

=============================================================================
