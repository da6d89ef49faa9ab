------------------------------ MODULE IpcProofs ------------------------------
(***************************************************************************)
(* What BareIpc and AppleIpc guarantee for queues of every capacity and    *)
(* messages of every length, however many calls, proved: no memory is used *)
(* after it is freed, the host reads the worklet's bytes in order, and a   *)
(* host that polls is told.                                                *)
(*                                                                         *)
(* Most of a step is the same on both platforms, Shared, which differ only *)
(* in how a dispatch begins and ends: on a thread (OwnThread) or on a      *)
(* dispatch queue (OwnQueue).  So is most of the invariant: Common says    *)
(* who may be in which call and what it then owns, SigThread and Apple     *)
(* where the dispatch is; Stream follows the bytes through the queue, and  *)
(* PollInv what the host is yet to be told.                                *)
(***************************************************************************)
EXTENDS AppleIpc, TLAPS

USE CapacityAssumption, IpcBounds

-----------------------------------------------------------------------------
(* The inductive invariant *)

\* Calls of the host by where they are: those that create the ipc or destroy it,
\* that destroy the poll or use it, that hold the lock, that close the host's end;
\* and the part of a dispatch in which signal->running is held.

Creating == {"create.open", "create.init", "create.fail", "create.join"}
Destroying == {"destroy", "destroy.close", "destroy.signal", "destroy.join"}
PollDestroying == {"poll.destroy", "poll.unset", "poll.free"}
PollUsing == {"start.cb", "start.signal", "stop"}
Locking == {"read", "end", "close", "destroy.close"}
Closing == {"close", "destroy.close"}
Dispatching == {"poll", "cb", "events", "ready", "call", "callback", "unlock"}

\* The types that tell where everyone is.
Control ==
  /\ state \in [End -> States] /\ destroyed \in BOOLEAN /\ wake \in [End -> BOOLEAN]
  /\ freeing \in Nat /\ freed \in Nat
  /\ worklet \in {"open", "ended", "closed", "destroyed"}
  /\ ipc \in {"none", "live", "freed"}
  /\ lock \in {"none", "free"} \cup Threads
  /\ attached \in BOOLEAN /\ linked \in BOOLEAN /\ closing \in BOOLEAN
  /\ poll \in {"none", "live", "freed"}
  /\ sig \in Sig
  /\ op \in [Threads -> Op]
  /\ held \subseteq {"ipc", "poll"}
  /\ running \in {"free"} \cup Threads

(***************************************************************************)
(* A thread in a call has the ipc, or is its only caller while it creates  *)
(* or destroys it: the host makes no other call then.                      *)
(***************************************************************************)
Calls ==
  /\ op["signal"] \notin Creating \cup {"destroy.join"}
  /\ op["signal"] # "idle" => sig = "callback"
  /\ \A t \in Threads :
       /\ op[t] # "idle" => ipc = "live"
       /\ op[t] \in Creating \cup Destroying =>
            held = {} /\ \A u \in Threads \ {t} : op[u] = "idle"
       /\ op[t] \notin {"idle"} \cup Creating \cup Destroying => "ipc" \in held
  /\ ipc = "live" /\ held = {} => \E t \in Threads : op[t] \in Creating \cup Destroying
  /\ held # {} => ipc = "live" /\ "ipc" \in held
  /\ closing <=> ipc = "freed" \/ op["host"] \in {"create.join", "destroy.join"}
  /\ running = IF sig \in Dispatching THEN "signal" ELSE "free"
  /\ sig = "none" <=> ipc = "none"

(***************************************************************************)
(* A poll is linked from when it is created until it is unset, and stays   *)
(* as long as the host has it or one call destroys it.  A dispatch that    *)
(* has found a poll goes on only with one that is linked.                  *)
(***************************************************************************)
Polls ==
  /\ linked <=> poll = "live" /\ \A t \in Threads : op[t] # "poll.free"
  /\ poll = "live" => "ipc" \in held
  /\ "poll" \in held => poll = "live"
  /\ poll = "live" /\ "poll" \notin held => \E t \in Threads : op[t] \in PollDestroying
  /\ \A t \in Threads : op[t] \in PollDestroying =>
       /\ poll = "live" /\ "poll" \notin held
       /\ \A u \in Threads \ {t} : op[u] \notin PollDestroying
  /\ op["host"] \in PollUsing => "poll" \in held
  /\ op["signal"] \in PollUsing =>
       linked /\ ("poll" \in held \/ op["host"] \in {"poll.destroy", "poll.unset"})
  /\ ipc = "none" \/ op["host"] \in Creating => poll = "none"
  /\ sig \in {"cb", "events", "ready", "call"} => linked
  /\ poll = "none" => events = {}

\* Who holds the lock of the ipc, and when there is one.
Locks ==
  /\ \A t \in Threads : lock = t <=> op[t] \in Locking
  /\ lock = "none" <=> ipc # "live" \/ op["host"] \in Creating

(***************************************************************************)
(* The host's end of the queue is attached, and open, as far as the calls  *)
(* that open and close it have come, and a queue that is destroyed is      *)
(* freed once and only when that end is not open.                          *)
(***************************************************************************)
Port ==
  /\ attached => ipc = "live"
  /\ \A t \in Threads :
       /\ op[t] \in {"create.open", "create.fail", "create.join", "destroy.signal", "destroy.join"}
            => ~attached
       /\ op[t] \in {"create.init", "end", "destroy"} \cup Closing => attached
  /\ bare_queue__listening(state["thread"]) <=>
       attached /\ \A t \in Threads : op[t] \notin Closing
  /\ state["thread"] = Idle => ipc = "none" \/ op["host"] = "create.open"
  /\ destroyed <=> worklet = "destroyed"
  /\ destroyed => state["thread"] # Idle
  /\ freeing + freed = IF destroyed /\ ~bare_queue__listening(state["thread"]) THEN 1 ELSE 0

Common == Calls /\ Polls /\ Locks /\ Port

\* There is no ipc at first.
LEMMA CommonInit == Init => Control /\ Common
<1> SUFFICES ASSUME Init PROVE Control /\ Common
  OBVIOUS
<1> USE DEF Init, Threads, End
<1>1. Control
  <2>1. state \in [End -> States]
    BY DEF States, Idle, Open, Closed
  <2>2. op \in [Threads -> Op] /\ sig \in Sig
    BY DEF Op, Sig
  <2>3. wake \in [End -> BOOLEAN]
    OBVIOUS
  <2>4. QED
    BY <2>1, <2>2, <2>3 DEF Control
<1>2. Calls
  BY DEF Calls, Creating, Destroying, Dispatching
<1>3. Polls
  BY DEF Polls, Creating, PollDestroying, PollUsing
<1>4. Locks
  BY DEF Locks, Creating, Locking
<1>5. Port
  BY DEF Port, Closing, bare_queue__listening, Idle, Open, Ended, Closed
<1>6. QED
  BY <1>1, <1>2, <1>3, <1>4, <1>5 DEF Common

-----------------------------------------------------------------------------
(* Steps that both platforms take *)

\* What both platforms have in common: all but how a dispatch begins and ends.
SharedHandler ==
  SigPoll \/ SigCb \/ SigEvents \/ SigReady \/ SigCall \/ SigReturn \/ SigUnlock

SharedContinue(t) ==
  \/ \E len \in 1 .. MaxMessage : ReadBytes(t, len)
  \/ ReadNothing(t) \/ HostEndSignal(t) \/ CloseSignal(t) \/ DestroyClose(t)
  \/ PollStartCb(t) \/ PollStartSignal(t) \/ PollStopCb(t) \/ PollUnset(t) \/ PollFree(t)

Shared ==
  \/ Worklet \/ SharedHandler
  \/ Create \/ CreateOpen \/ CreateInit \/ DestroyJoin \/ PollCreate
  \/ \E t \in Threads : Begin(t) \/ SharedContinue(t)

\* The worklet's end has nothing to do with the host's calls.
LEMMA WorkletFrame ==
  ASSUME Worklet
  PROVE  UNCHANGED <<sigVars, ipcVars, pollVars, op, held, got>>
BY DEF Worklet, WorkletWrite, WorkletRead, WorkletEnd, WorkletClose, WorkletDestroy, Free, ends

\* A dispatch changes where it is, and what the host is told.
LEMMA HandlerFrame ==
  ASSUME SharedHandler
  PROVE  UNCHANGED <<queueVars, sigRest, ipcVars, pollMem, stopped, starts, ends, op>>
BY DEF SharedHandler, SigPoll, SigCb, SigEvents, SigReady, SigCall, SigReturn, SigUnlock, pollVars

\* A call begins only with what it needs, and keeps it until it returns.
LEMMA CallsStep ==
  ASSUME Control, Common, Shared
  PROVE  Calls'
<1> USE DEF Control, Common, Calls, Creating, Destroying, Dispatching, Threads, Goto, Caller,
            sigVars, sigRest, ipcVars, ipcMem, pollVars, pollMem, ends
<1>1. CASE Worklet
  BY <1>1, WorkletFrame
<1>2. CASE SharedHandler
  <2>1. UNCHANGED <<op, ipc, held, closing>>
    BY <1>2, HandlerFrame
  <2>2. \/ sig \in Dispatching /\ sig' \in Dispatching /\ running' = running
        \/ sig = "unlock" /\ sig' = "loop" /\ running' = "free"
    BY <1>2 DEF SharedHandler, SigPoll, SigCb, SigEvents, SigReady, SigCall, SigReturn, SigUnlock
  <2>3. op["signal"] # "idle" => ~SharedHandler
    BY DEF SharedHandler, SigPoll, SigCb, SigEvents, SigReady, SigCall, SigReturn, SigUnlock
  <2>4. QED
    BY <1>2, <2>1, <2>2, <2>3
<1>3. CASE Create
  BY <1>3 DEF Create
<1>4. CASE CreateOpen
  BY <1>4 DEF CreateOpen
<1>5. CASE CreateInit
  BY <1>5 DEF CreateInit
<1>6. CASE DestroyJoin
  BY <1>6 DEF DestroyJoin
<1>7. CASE PollCreate
  BY <1>7 DEF PollCreate
<1>8. ASSUME NEW t \in Threads, Begin(t) PROVE Calls'
  <2>1. CASE Read(t) \/ Write(t)
    BY <2>1 DEF Read, Write
  <2>2. CASE HostEnd(t)
    BY <2>2 DEF HostEnd
  <2>3. CASE Close(t)
    BY <2>3 DEF Close, bare_ipc_close
  <2>4. CASE Destroy(t)
    BY <2>4 DEF Destroy
  <2>5. CASE PollStop(t)
    BY <2>5 DEF PollStop, MayPoll, Polls, PollDestroying
  <2>6. ASSUME NEW es \in SUBSET Events \ {{}}, PollStart(t, es) PROVE Calls'
    BY <2>6 DEF PollStart, MayPoll, Polls, PollDestroying
  <2>7. QED
    BY <1>8, <2>1, <2>2, <2>3, <2>4, <2>5, <2>6 DEF Begin
<1>9. ASSUME NEW t \in Threads, SharedContinue(t) PROVE Calls'
  <2>1. ASSUME NEW len \in 1 .. MaxMessage, ReadBytes(t, len) PROVE Calls'
    BY <2>1 DEF ReadBytes
  <2>2. CASE ReadNothing(t) \/ HostEndSignal(t)
    BY <2>2 DEF ReadNothing, HostEndSignal
  <2>3. CASE CloseSignal(t)
    BY <2>3 DEF CloseSignal
  <2>4. CASE DestroyClose(t)
    BY <2>4 DEF DestroyClose, bare_ipc_close
  <2>5. CASE PollStartCb(t) \/ PollStartSignal(t)
    BY <2>5 DEF PollStartCb, PollStartSignal
  <2>6. CASE PollStopCb(t)
    BY <2>6 DEF PollStopCb
  <2>7. CASE PollUnset(t) \/ PollFree(t)
    BY <2>7 DEF PollUnset, PollFree
  <2>8. QED
    BY <1>9, <2>1, <2>2, <2>3, <2>4, <2>5, <2>6, <2>7 DEF SharedContinue
<1>10. QED
  BY <1>1, <1>2, <1>3, <1>4, <1>5, <1>6, <1>7, <1>8, <1>9 DEF Shared

\* The poll outlives whoever uses it.
LEMMA PollsStep ==
  ASSUME Control, Common, Shared
  PROVE  Polls'
<1> USE DEF Control, Common, Calls, Polls, Creating, Destroying, PollDestroying, PollUsing,
            Threads, Goto, Caller,
            sigVars, sigRest, ipcVars, ipcMem, pollVars, pollMem, ends
<1>1. CASE Worklet
  BY <1>1, WorkletFrame
<1>2. CASE SharedHandler
  <2>1. UNCHANGED <<op, ipc, held, linked, poll, events>>
    BY <1>2, HandlerFrame
  <2>2. sig' \in {"cb", "events", "ready", "call"} => linked
    BY <1>2 DEF SharedHandler, SigPoll, SigCb, SigEvents, SigReady, SigCall, SigReturn, SigUnlock
  <2>3. QED
    BY <2>1, <2>2
<1>3. CASE Create
  BY <1>3 DEF Create
<1>4. CASE CreateOpen
  BY <1>4 DEF CreateOpen
<1>5. CASE CreateInit
  BY <1>5 DEF CreateInit
<1>6. CASE DestroyJoin
  BY <1>6 DEF DestroyJoin
<1>7. CASE PollCreate
  BY <1>7 DEF PollCreate
<1>8. ASSUME NEW t \in Threads, Begin(t) PROVE Polls'
  <2>1. CASE Read(t) \/ Write(t)
    BY <2>1 DEF Read, Write
  <2>2. CASE HostEnd(t)
    BY <2>2 DEF HostEnd
  <2>3. CASE Close(t)
    BY <2>3 DEF Close, bare_ipc_close
  <2>4. CASE Destroy(t)
    BY <2>4 DEF Destroy
  <2>5. CASE PollStop(t)
    BY <2>5 DEF PollStop, MayPoll
  <2>6. ASSUME NEW es \in SUBSET Events \ {{}}, PollStart(t, es) PROVE Polls'
    BY <2>6 DEF PollStart, MayPoll
  <2>7. QED
    BY <1>8, <2>1, <2>2, <2>3, <2>4, <2>5, <2>6 DEF Begin
<1>9. ASSUME NEW t \in Threads, SharedContinue(t) PROVE Polls'
  <2>1. ASSUME NEW len \in 1 .. MaxMessage, ReadBytes(t, len) PROVE Polls'
    BY <2>1 DEF ReadBytes
  <2>2. CASE ReadNothing(t) \/ HostEndSignal(t)
    BY <2>2 DEF ReadNothing, HostEndSignal
  <2>3. CASE CloseSignal(t)
    BY <2>3 DEF CloseSignal
  <2>4. CASE DestroyClose(t)
    BY <2>4 DEF DestroyClose, bare_ipc_close
  <2>5. CASE PollStartCb(t) \/ PollStartSignal(t)
    BY <2>5 DEF PollStartCb, PollStartSignal
  <2>6. CASE PollStopCb(t)
    BY <2>6 DEF PollStopCb
  <2>7. CASE PollUnset(t)
    BY <2>7 DEF PollUnset, CanLock, Dispatching
  <2>8. CASE PollFree(t)
    BY <2>8 DEF PollFree
  <2>9. QED
    BY <1>9, <2>1, <2>2, <2>3, <2>4, <2>5, <2>6, <2>7, <2>8 DEF SharedContinue
<1>10. QED
  BY <1>1, <1>2, <1>3, <1>4, <1>5, <1>6, <1>7, <1>8, <1>9 DEF Shared

\* The lock is taken when free, and let go of by who took it.
LEMMA LocksStep ==
  ASSUME Control, Common, Shared
  PROVE  Locks'
<1> USE DEF Control, Common, Calls, Locks, Creating, Destroying, Locking,
            Threads, Goto, Caller,
            sigVars, sigRest, ipcVars, ipcMem, pollVars, pollMem, ends
<1>1. CASE Worklet \/ SharedHandler
  BY <1>1, WorkletFrame, HandlerFrame
<1>3. CASE Create
  BY <1>3 DEF Create
<1>4. CASE CreateOpen
  BY <1>4 DEF CreateOpen
<1>5. CASE CreateInit
  BY <1>5 DEF CreateInit
<1>6. CASE DestroyJoin
  BY <1>6 DEF DestroyJoin
<1>7. CASE PollCreate
  BY <1>7 DEF PollCreate
<1>8. ASSUME NEW t \in Threads, Begin(t) PROVE Locks'
  <2>1. CASE Read(t) \/ Write(t)
    BY <2>1 DEF Read, Write
  <2>2. CASE HostEnd(t)
    BY <2>2 DEF HostEnd
  <2>3. CASE Close(t)
    BY <2>3 DEF Close, bare_ipc_close
  <2>4. CASE Destroy(t)
    BY <2>4 DEF Destroy
  <2>5. CASE PollStop(t)
    BY <2>5 DEF PollStop, MayPoll
  <2>6. ASSUME NEW es \in SUBSET Events \ {{}}, PollStart(t, es) PROVE Locks'
    BY <2>6 DEF PollStart, MayPoll
  <2>7. QED
    BY <1>8, <2>1, <2>2, <2>3, <2>4, <2>5, <2>6 DEF Begin
<1>9. ASSUME NEW t \in Threads, SharedContinue(t) PROVE Locks'
  <2>1. ASSUME NEW len \in 1 .. MaxMessage, ReadBytes(t, len) PROVE Locks'
    BY <2>1 DEF ReadBytes
  <2>2. CASE ReadNothing(t) \/ HostEndSignal(t)
    BY <2>2 DEF ReadNothing, HostEndSignal
  <2>3. CASE CloseSignal(t)
    BY <2>3 DEF CloseSignal
  <2>4. CASE DestroyClose(t)
    BY <2>4 DEF DestroyClose, bare_ipc_close
  <2>5. CASE PollStartCb(t) \/ PollStartSignal(t)
    BY <2>5 DEF PollStartCb, PollStartSignal
  <2>6. CASE PollStopCb(t)
    BY <2>6 DEF PollStopCb
  <2>7. CASE PollUnset(t) \/ PollFree(t)
    BY <2>7 DEF PollUnset, PollFree
  <2>8. QED
    BY <1>9, <2>1, <2>2, <2>3, <2>4, <2>5, <2>6, <2>7 DEF SharedContinue
<1>10. QED
  BY <1>1, <1>3, <1>4, <1>5, <1>6, <1>7, <1>8, <1>9 DEF Shared

\* The operations of the queue keep the types of what they change.
LEMMA SignalType ==
  ASSUME Control, NEW e \in End
  PROVE  Signalled(e) \in [End -> BOOLEAN]
BY DEF Control, Signalled, bare_queue__listening, End

\* The ends are each other's peers.
LEMMA PeerType ==
  ASSUME NEW e \in End
  PROVE  Peer(e) \in End /\ Peer(e) # e /\ Peer(Peer(e)) = e
BY DEF Peer, End

\* Reading and writing move no end.
LEMMA TransferType ==
  ASSUME Control, NEW e \in End, NEW m, bare_queue_read(e) \/ bare_queue_write(e, m)
  PROVE  wake' \in [End -> BOOLEAN] /\ UNCHANGED <<state, destroyed, async, freeing, freed>>
BY SignalType, PeerType DEF Control, bare_queue_read, bare_queue_write, bare_queue__signal_peer

\* Ending and closing count who is to free the queue, ...
LEMMA AdvanceType ==
  ASSUME Control, NEW e \in End, NEW s \in States, bare_queue__advance(e, s)
  PROVE  /\ state' \in [End -> States] /\ wake' \in [End -> BOOLEAN] /\ freeing' \in Nat
         /\ UNCHANGED <<destroyed, async, freed>>
BY SignalType, PeerType DEF bare_queue__advance, bare_queue__signal_peer, Control, States

\* ... and move one end.
LEMMA AdvanceValue ==
  ASSUME Control, NEW e \in End, NEW s \in {Ended, Closed}, bare_queue__advance(e, s)
  PROVE  /\ state' \in [End -> States] /\ wake' \in [End -> BOOLEAN] /\ freeing' \in Nat
         /\ UNCHANGED <<ring, destroyed, async, freed>>
         /\ e = "uv" => state'["thread"] = state["thread"]
         /\ e = "thread" => state'["thread"] = IF state["thread"] < s THEN s ELSE state["thread"]
         /\ freeing' = IF destroyed /\ ~bare_queue__listening(state'["thread"])
                         THEN freeing + 1 ELSE freeing
<1>1. s \in States /\ state \in [End -> States]
  BY DEF States, Ended, Closed, Idle, Control
<1>2. /\ state' \in [End -> States] /\ wake' \in [End -> BOOLEAN] /\ freeing' \in Nat
      /\ UNCHANGED <<ring, destroyed, async, freed>>
  BY <1>1, AdvanceType DEF bare_queue__advance
<1>3. state' = [state EXCEPT ![e] = IF @ < s THEN s ELSE @]
  BY DEF bare_queue__advance
<1>4. /\ e = "uv" => state'["thread"] = state["thread"]
      /\ e = "thread" => state'["thread"] = IF state["thread"] < s THEN s ELSE state["thread"]
  BY <1>1, <1>3 DEF End
<1>5. freeing' = IF destroyed /\ ~bare_queue__listening(state'["thread"])
                         THEN freeing + 1 ELSE freeing
  BY <1>2 DEF bare_queue__advance, bare_queue__unowned, bare_queue__listening, States, End,
              Idle, Open, Ended, Closed
<1>6. QED
  BY <1>2, <1>4, <1>5

\* The host's end is opened and closed by its calls alone.
LEMMA PortStep ==
  ASSUME Control, Common, Shared
  PROVE  Port'
<1> USE DEF Control, Common, Calls, Port, Creating, Destroying, Closing,
            Threads, Goto, Caller, queueVars, queueRest,
            sigVars, sigRest, ipcVars, ipcMem, pollVars, pollMem, ends
<1> USE DEF bare_queue__listening, Idle, Open, Ended, Closed, States, End
<1>1. CASE Worklet
  <2>0. UNCHANGED <<sigVars, ipcVars, pollVars, op, held, got>>
    BY <1>1, WorkletFrame
  <2>1. ASSUME NEW len \in 1 .. MaxMessage, WorkletWrite(len) PROVE Port'
    BY <2>0, <2>1, TransferType DEF WorkletWrite
  <2>2. CASE WorkletRead
    BY <2>0, <2>2, TransferType DEF WorkletRead
  <2>3. CASE WorkletEnd
    BY <2>0, <2>3, AdvanceValue DEF WorkletEnd, bare_queue_end
  <2>4. CASE WorkletClose
    BY <2>0, <2>4, AdvanceValue DEF WorkletClose, bare_queue_close
  <2>5. CASE WorkletDestroy
    BY <2>0, <2>5 DEF WorkletDestroy, bare_queue_destroy, bare_queue__unowned
  <2>6. CASE Free
    BY <2>0, <2>6 DEF Free, bare_queue__free
  <2>7. QED
    BY <1>1, <2>1, <2>2, <2>3, <2>4, <2>5, <2>6 DEF Worklet
<1>2. CASE SharedHandler
  <2>1. UNCHANGED <<queueVars, ipcVars, op, worklet>>
    BY <1>2, HandlerFrame
  <2>2. QED
    BY <2>1
<1>3. CASE Create
  BY <1>3 DEF Create
<1>4. CASE CreateOpen
  BY <1>4 DEF CreateOpen, bare_queue_open_thread
<1>5. CASE CreateInit
  BY <1>5 DEF CreateInit
<1>6. CASE DestroyJoin
  BY <1>6 DEF DestroyJoin
<1>7. CASE PollCreate
  BY <1>7 DEF PollCreate
<1>8. ASSUME NEW t \in Threads, Begin(t) PROVE Port'
  <2>1. CASE Read(t)
    <3>1. UNCHANGED <<state, destroyed, freeing, freed>>
      BY <2>1, TransferType DEF Read
    <3>2. QED
      BY <2>1, <3>1 DEF Read
  <2>2. CASE Write(t)
    BY <2>2, TransferType DEF Write
  <2>3. CASE HostEnd(t)
    BY <2>3, AdvanceValue DEF HostEnd, bare_queue_end, Locks, Locking
  <2>4. CASE Close(t)
    BY <2>4, AdvanceValue DEF Close, bare_ipc_close, bare_queue_close, Locks, Locking
  <2>5. CASE Destroy(t)
    BY <2>5 DEF Destroy
  <2>6. CASE PollStop(t)
    BY <2>6 DEF PollStop, MayPoll
  <2>7. ASSUME NEW es \in SUBSET Events \ {{}}, PollStart(t, es) PROVE Port'
    BY <2>7 DEF PollStart, MayPoll
  <2>8. QED
    BY <1>8, <2>1, <2>2, <2>3, <2>4, <2>5, <2>6, <2>7 DEF Begin
<1>9. ASSUME NEW t \in Threads, SharedContinue(t) PROVE Port'
  <2>1. ASSUME NEW len \in 1 .. MaxMessage, ReadBytes(t, len) PROVE Port'
    BY <2>1 DEF ReadBytes
  <2>2. CASE ReadNothing(t) \/ HostEndSignal(t)
    BY <2>2 DEF ReadNothing, HostEndSignal
  <2>3. CASE CloseSignal(t)
    BY <2>3 DEF CloseSignal, Locks, Locking
  <2>4. CASE DestroyClose(t)
    BY <2>4, AdvanceValue DEF DestroyClose, bare_ipc_close, bare_queue_close
  <2>5. CASE PollStartCb(t) \/ PollStartSignal(t)
    BY <2>5 DEF PollStartCb, PollStartSignal
  <2>6. CASE PollStopCb(t)
    BY <2>6 DEF PollStopCb
  <2>7. CASE PollUnset(t) \/ PollFree(t)
    BY <2>7 DEF PollUnset, PollFree
  <2>8. QED
    BY <1>9, <2>1, <2>2, <2>3, <2>4, <2>5, <2>6, <2>7 DEF SharedContinue
<1>10. QED
  BY <1>1, <1>2, <1>3, <1>4, <1>5, <1>6, <1>7, <1>8, <1>9 DEF Shared

\* Every step keeps these types.
LEMMA ControlStep ==
  ASSUME Control, Common, Shared
  PROVE  Control'
<1>1. CASE Worklet
  <2>0. UNCHANGED <<ipc, lock, attached, linked, closing, poll, sig, op, held, running>>
    BY <1>1, WorkletFrame DEF sigVars, sigRest, ipcVars, ipcMem, pollVars, pollMem
  <2>. USE DEF Control, queueVars, ends
  <2>1. ASSUME NEW len \in 1 .. MaxMessage, WorkletWrite(len) PROVE Control'
    BY <2>0, <2>1, TransferType DEF WorkletWrite, End
  <2>2. CASE WorkletRead
    BY <2>0, <2>2, TransferType DEF WorkletRead, End
  <2>3. CASE WorkletEnd
    BY <2>0, <2>3, AdvanceValue DEF WorkletEnd, bare_queue_end, End
  <2>4. CASE WorkletClose
    BY <2>0, <2>4, AdvanceValue DEF WorkletClose, bare_queue_close, End
  <2>5. CASE WorkletDestroy
    <3>1. freeing' \in Nat /\ destroyed' = TRUE /\ worklet' = "destroyed"
      BY <2>5 DEF WorkletDestroy, bare_queue_destroy, bare_queue__unowned
    <3>2. UNCHANGED <<state, wake, freed>>
      BY <2>5 DEF WorkletDestroy, bare_queue_destroy
    <3>3. QED
      BY <2>0, <3>1, <3>2
  <2>6. CASE Free
    BY <2>0, <2>6 DEF Free, bare_queue__free
  <2>7. QED
    BY <1>1, <2>1, <2>2, <2>3, <2>4, <2>5, <2>6 DEF Worklet
<1>2. CASE SharedHandler
  <2>1. /\ UNCHANGED <<state, destroyed, wake, freeing, freed, worklet>>
        /\ UNCHANGED <<ipc, lock, attached, linked, closing, poll, op, held>>
    BY <1>2, HandlerFrame DEF queueVars, ends, sigRest, ipcVars, ipcMem, pollMem
  <2>2. sig' \in Sig
    BY <1>2 DEF Sig, SharedHandler, SigPoll, SigCb, SigEvents, SigReady, SigCall, SigReturn,
         SigUnlock
  <2>3. running' \in {running, "free"}
    BY <1>2 DEF SharedHandler, SigPoll, SigCb, SigEvents, SigReady, SigCall, SigReturn, SigUnlock
  <2>4. QED
    BY <2>1, <2>2, <2>3 DEF Control
<1>. USE DEF Control, Threads, Op, Goto, queueVars, queueRest, ends,
             sigVars, sigRest, ipcVars, ipcMem, pollVars, pollMem
<1>3. CASE Create
  BY <1>3 DEF Create, Sig
<1>4. CASE CreateOpen
  <2>1. CASE state["thread"] = Idle /\ bare_queue_open_thread
    <3>1. state' \in [End -> States]
      <4>1. Open \in States
        BY DEF Open, States, Idle, Closed
      <4>2. state' = [state EXCEPT !["thread"] = Open]
        BY <2>1 DEF bare_queue_open_thread
      <4>3. QED
        BY <4>1, <4>2
    <3>2. wake' \in [End -> BOOLEAN]
      BY <2>1 DEF bare_queue_open_thread, bare_queue__ring_empty, End
    <3>3. UNCHANGED <<destroyed, freeing, freed>>
      BY <2>1 DEF bare_queue_open_thread
    <3>4. attached' \in BOOLEAN /\ op' \in [Threads -> Op]
      <4>1. /\ attached' \in {attached, TRUE}
            /\ Goto("host", "create.init") \/ Goto("host", "create.fail")
        BY <1>4 DEF CreateOpen
      <4>2. op' \in [Threads -> Op]
        BY <4>1
      <4>3. QED
        BY <4>1, <4>2
    <3>5. QED
      BY <1>4, <3>1, <3>2, <3>3, <3>4 DEF CreateOpen
  <2>2. CASE UNCHANGED <<queueVars, attached>>
    BY <1>4, <2>2 DEF CreateOpen
  <2>3. QED
    BY <1>4, <2>1, <2>2 DEF CreateOpen, bare_queue_open_thread
<1>5. CASE CreateInit
  BY <1>5 DEF CreateInit
<1>6. CASE DestroyJoin
  BY <1>6 DEF DestroyJoin
<1>7. CASE PollCreate
  BY <1>7 DEF PollCreate
<1>8. ASSUME NEW t \in Threads, Begin(t) PROVE Control'
  <2>1. CASE Read(t)
    <3>1. wake' \in [End -> BOOLEAN] /\ UNCHANGED <<state, destroyed, freeing, freed>>
      BY <2>1, TransferType DEF Read, End
    <3>2. QED
      BY <2>1, <3>1 DEF Read
  <2>2. CASE Write(t)
    BY <2>2, TransferType DEF Write, End
  <2>3. CASE HostEnd(t)
    <3>1. bare_queue__advance("thread", Ended)
      BY <2>3 DEF HostEnd, bare_queue_end
    <3>2. QED
      BY <2>3, <3>1, AdvanceValue DEF HostEnd, End
  <2>4. CASE Close(t)
    <3>1. bare_queue__advance("thread", Closed) /\ lock' = t
      BY <2>4 DEF Close, bare_ipc_close, bare_queue_close
    <3>2. QED
      BY <2>4, <3>1, AdvanceValue DEF Close, End
  <2>5. CASE Destroy(t)
    BY <2>5 DEF Destroy
  <2>6. CASE PollStop(t)
    <3>0. \/ Goto(t, "stop") /\ UNCHANGED held
          \/ Goto(t, "poll.destroy") /\ held' = {"ipc"}
      BY <2>6 DEF PollStop
    <3>1. op' \in [Threads -> Op] /\ held' \subseteq {"ipc", "poll"}
      <4>1. CASE Goto(t, "stop") /\ UNCHANGED held
        BY <4>1
      <4>2. CASE Goto(t, "poll.destroy") /\ held' = {"ipc"}
        BY <4>2
      <4>3. QED
        BY <3>0, <4>1, <4>2
    <3>2. UNCHANGED <<state, destroyed, wake, freeing, freed, worklet, ipc, lock, attached, linked,
                      closing, poll, sig, running>>
      BY <2>6 DEF PollStop
    <3>3. QED
      BY <3>1, <3>2
  <2>7. ASSUME NEW es \in SUBSET Events \ {{}}, PollStart(t, es) PROVE Control'
    BY <2>7 DEF PollStart
  <2>8. QED
    BY <1>8, <2>1, <2>2, <2>3, <2>4, <2>5, <2>6, <2>7 DEF Begin
<1>9. ASSUME NEW t \in Threads, SharedContinue(t) PROVE Control'
  <2>1. ASSUME NEW len \in 1 .. MaxMessage, ReadBytes(t, len) PROVE Control'
    <3>1. wake' \in [End -> BOOLEAN]
      BY <2>1 DEF ReadBytes, MoreToRead, End
    <3>2. QED
      BY <2>1, <3>1 DEF ReadBytes
  <2>2. CASE ReadNothing(t) \/ HostEndSignal(t)
    <3>1. op' \in [Threads -> Op] /\ lock' = "free"
      BY <2>2 DEF ReadNothing, HostEndSignal
    <3>2. wake' \in [End -> BOOLEAN]
      BY <2>2 DEF ReadNothing, HostEndSignal, Signal
    <3>3. UNCHANGED <<state, destroyed, freeing, freed, worklet, ipc, attached, linked,
                      closing, poll, sig, held, running>>
      BY <2>2 DEF ReadNothing, HostEndSignal
    <3>4. QED
      BY <3>1, <3>2, <3>3
  <2>3. CASE CloseSignal(t)
    <3>0. Goto(t, "idle") \/ Goto(t, "destroy.signal")
      BY <2>3 DEF CloseSignal
    <3>1. op' \in [Threads -> Op]
      BY <3>0
    <3>2. wake' \in [End -> BOOLEAN] /\ lock' = "free" /\ attached' = FALSE
      BY <2>3 DEF CloseSignal, Signal
    <3>3. UNCHANGED <<state, destroyed, freeing, freed, worklet, ipc, linked, closing, poll, sig,
                      held, running>>
      BY <2>3 DEF CloseSignal
    <3>4. QED
      BY <3>1, <3>2, <3>3
  <2>4. CASE DestroyClose(t)
    <3>1. bare_queue__advance("thread", Closed) /\ lock' = t
      BY <2>4 DEF DestroyClose, bare_ipc_close, bare_queue_close
    <3>2. QED
      BY <2>4, <3>1, AdvanceValue DEF DestroyClose, End
  <2>5. CASE PollStartCb(t) \/ PollStartSignal(t)
    <3>1. op' \in [Threads -> Op]
      BY <2>5 DEF PollStartCb, PollStartSignal
    <3>2. wake' \in [End -> BOOLEAN]
      BY <2>5 DEF PollStartCb, PollStartSignal, Signal
    <3>3. UNCHANGED <<state, destroyed, freeing, freed, worklet, ipc, lock, attached, linked,
                      closing, poll, sig, held, running>>
      BY <2>5 DEF PollStartCb, PollStartSignal
    <3>4. QED
      BY <3>1, <3>2, <3>3
  <2>6. CASE PollStopCb(t)
    BY <2>6 DEF PollStopCb
  <2>7. CASE PollUnset(t) \/ PollFree(t)
    <3>1. op' \in [Threads -> Op] /\ linked' \in BOOLEAN /\ poll' \in {"none", "live", "freed"}
      BY <2>7 DEF PollUnset, PollFree
    <3>2. UNCHANGED <<state, destroyed, wake, freeing, freed, worklet, ipc, lock, attached,
                      closing, sig, held, running>>
      BY <2>7 DEF PollUnset, PollFree
    <3>3. QED
      BY <3>1, <3>2
  <2>8. QED
    BY <1>9, <2>1, <2>2, <2>3, <2>4, <2>5, <2>6, <2>7 DEF SharedContinue
<1>10. QED
  BY <1>1, <1>2, <1>3, <1>4, <1>5, <1>6, <1>7, <1>8, <1>9 DEF Shared

\* Of what both platforms have in common, only these touch the signal or the memory of the ipc.
LEMMA SharedFrame ==
  ASSUME Shared
  PROVE  Create \/ DestroyJoin \/ SharedHandler \/ UNCHANGED <<sigVars, ipc>>
<1>. USE DEF ipcVars, ipcMem, ends
<1>1. Worklet => UNCHANGED <<sigVars, ipc>>
  BY WorkletFrame
<1>2. CreateOpen \/ CreateInit \/ PollCreate => UNCHANGED <<sigVars, ipc>>
  BY DEF CreateOpen, CreateInit, PollCreate
<1>3. ASSUME NEW t \in Threads, Begin(t) PROVE UNCHANGED <<sigVars, ipc>>
  BY <1>3 DEF Begin, Read, Write, HostEnd, Close, Destroy, PollStop, PollStart
<1>4. ASSUME NEW t \in Threads, SharedContinue(t) PROVE UNCHANGED <<sigVars, ipc>>
  BY <1>4 DEF SharedContinue, ReadBytes, ReadNothing, HostEndSignal, CloseSignal, DestroyClose,
       PollStartCb, PollStartSignal, PollStopCb, PollUnset, PollFree
<1>5. QED
  BY <1>1, <1>2, <1>3, <1>4 DEF Shared

-----------------------------------------------------------------------------
(* On a thread of its own *)

\* Where the signal thread is, and what is left of its memory.
SigThread ==
  /\ watching <=> ipc # "none" /\ ~closing
  /\ sig \in {"poll", "cb", "events", "ready", "call"} => ~closing
  /\ sig \in {"exit", "ended"} => closing
  /\ sig \notin {"none", "ended"} => signal = "live"
  /\ signal = "none" <=> ipc = "none"
  /\ detached => ipc = "freed"
  /\ signal = "freed" => ipc = "freed"

\* How a dispatch begins and ends on the signal thread, and how that ends.
OwnThread == SigWake \/ SigLock \/ SigClose \/ SigExit \/ \E t \in Threads : DestroySignal(t)

\* There is nothing else.
LEMMA ThreadSteps == Next => Shared \/ OwnThread
BY DEF Next, Shared, OwnThread, SharedHandler, SharedContinue, SignalThread, Continue

\* The thread runs as long as the ipc is not destroyed, and leaves it alone then.
LEMMA OwnThreadStep ==
  ASSUME Control, Common, SigThread, OwnThread
  PROVE  Control' /\ Common' /\ SigThread'
<1>. USE DEF Control, SigThread, Threads, Goto, queueVars, queueRest, ends,
             sigVars, sigRest, ipcVars, ipcMem, pollVars, pollMem
<1>1. CASE SigWake \/ SigLock \/ SigClose \/ SigExit
  <2>1. UNCHANGED <<state, destroyed, freeing, freed, worklet, ipc, lock, attached, linked, closing,
                    poll, events, op, held, watching, detached>>
    BY <1>1 DEF SigWake, SigLock, SigClose, SigExit
  <2>2. wake' \in [End -> BOOLEAN]
    BY <1>1 DEF SigWake, SigLock, SigClose, SigExit
  <2>3. sig' \in Sig /\ sig \notin {"none", "callback"} /\ sig' # "none"
    BY <1>1 DEF SigWake, SigLock, SigClose, SigExit, Sig
  <2>4. running' = IF sig' \in Dispatching THEN "signal" ELSE "free"
    BY <1>1 DEF SigWake, SigLock, SigClose, SigExit, Common, Calls, Dispatching
  <2>5. Control'
    BY <2>1, <2>2, <2>3, <2>4
  <2>6. Calls'
    BY <2>1, <2>3, <2>4 DEF Common, Calls
  <2>7. sig' \notin {"cb", "events", "ready", "call"}
    BY <1>1 DEF SigWake, SigLock, SigClose, SigExit
  <2>8. Polls' /\ Locks' /\ Port'
    BY <2>1, <2>7 DEF Common, Polls, Locks, Port
  <2>9. SigThread'
    BY <1>1, <2>1 DEF SigWake, SigLock, SigClose, SigExit, Common, Calls
  <2>10. QED
    BY <2>5, <2>6, <2>8, <2>9 DEF Common
<1>2. ASSUME NEW t \in Threads, DestroySignal(t) PROVE Control' /\ Common' /\ SigThread'
  <2>1. Control'
    BY <1>2 DEF DestroySignal, Op
  <2>2. Calls'
    BY <1>2 DEF DestroySignal, Common, Calls, Creating, Destroying
  <2>3. Polls'
    BY <1>2 DEF DestroySignal, Common, Calls, Polls, Creating, Destroying, PollDestroying,
         PollUsing
  <2>4. Locks'
    BY <1>2 DEF DestroySignal, Common, Calls, Locks, Creating, Destroying, Locking
  <2>5. Port'
    BY <1>2 DEF DestroySignal, Common, Calls, Port, Creating, Destroying, Closing,
         bare_queue__listening
  <2>6. SigThread'
    BY <1>2 DEF DestroySignal, CanLock, Common, Calls, Creating, Destroying, Dispatching
  <2>7. QED
    BY <2>1, <2>2, <2>3, <2>4, <2>5, <2>6 DEF Common
<1>3. QED
  BY <1>1, <1>2 DEF OwnThread

\* Nothing else disturbs the thread.
LEMMA SharedThread ==
  ASSUME Control, Common, SigThread, Shared
  PROVE  SigThread'
<1>. USE DEF SigThread, sigVars, sigRest, ipcVars, ipcMem, ends
<1>1. CASE Create
  BY <1>1 DEF Create, Caller, Common, Calls
<1>2. CASE DestroyJoin
  BY <1>2 DEF DestroyJoin, Common, Calls
<1>3. CASE SharedHandler
  <2>1. UNCHANGED <<ipc, closing, watching, detached, signal>>
    BY <1>3, HandlerFrame
  <2>2. /\ sig' \in {"poll", "cb", "events", "ready", "call"}
             => sig \in {"poll", "cb", "events", "ready", "call"}
        /\ sig' \notin {"exit", "ended"}
        /\ sig \notin {"none", "ended"}
    BY <1>3 DEF SharedHandler, SigPoll, SigCb, SigEvents, SigReady, SigCall, SigReturn, SigUnlock
  <2>3. QED
    BY <2>1, <2>2
<1>4. CASE UNCHANGED <<sigVars, ipc>>
  BY <1>4
<1>5. QED
  BY <1>1, <1>2, <1>3, <1>4, SharedFrame

\* The invariant of an ipc with a thread of its own.
IpcInv == Control /\ Common /\ SigThread

\* Every step keeps it.
LEMMA IpcStep == IpcInv /\ [Next]_vars => IpcInv'
<1>. SUFFICES ASSUME IpcInv, [Next]_vars PROVE IpcInv'
  OBVIOUS
<1>1. CASE Shared
  BY <1>1, ControlStep, CallsStep, PollsStep, LocksStep, PortStep, SharedThread DEF IpcInv, Common
<1>2. CASE OwnThread
  BY <1>2, OwnThreadStep DEF IpcInv
<1>3. CASE UNCHANGED vars
  BY <1>3 DEF vars, queueVars, sigVars, sigRest, ipcVars, ipcMem, pollVars, pollMem, ends, IpcInv,
       Control, Common, Calls, Polls, Locks, Port, SigThread
<1>4. QED
  BY <1>1, <1>2, <1>3, ThreadSteps

\* It holds at first.
LEMMA IpcInit == Init => IpcInv
BY CommonInit DEF Init, IpcInv, SigThread

\* Calls, polls, locks, the host's end and the signal thread are always as IpcInv
\* says, whatever calls are made of the ipc and from which threads (ipc.c,
\* standalone/ipc.c).
THEOREM IpcInvariant == Spec => []IpcInv
BY IpcInit, IpcStep, PTL DEF Spec

\* Nothing is touched before it was initialised or after it was freed, wherever the
\* threads are as the host destroys the poll and the ipc, from a callback or not
\* (ipc.c:24-43, 96-98; standalone/ipc.c:12-39, 115-159; queue.c:72-78).
THEOREM MemoryIsSafe == Spec => []MemorySafe
<1>1. IpcInv => MemorySafe
  <2>. SUFFICES ASSUME IpcInv PROVE MemorySafe
    OBVIOUS
  <2>. USE DEF IpcInv, Control, Threads
  <2>1. sig \notin {"none", "ended"} => signal = "live"
    BY DEF SigThread
  <2>2. sig \in {"poll", "cb", "events", "ready"} => ipc = "live"
    BY DEF SigThread, Common, Calls
  <2>3. sig \in {"cb", "events", "ready", "call"} => poll = "live" /\ "ipc" \in held
    BY DEF Common, Polls
  <2>4. ASSUME NEW t \in Threads
        PROVE  /\ op[t] # "idle" => ipc = "live"
               /\ op[t] \in PollUsing \cup PollDestroying => poll = "live"
    BY DEF Common, Calls, Polls, PollUsing, PollDestroying
  <2>5. bare_queue__listening(state["thread"])
         => ipc = "live" /\ signal = "live" /\ sig \notin {"exit", "ended"}
    BY DEF Common, Calls, Port, SigThread
  <2>6. attached /\ (\A t \in Threads : op[t] \notin Closing) => freeing + freed = 0
    BY DEF Common, Port
  <2>7. "ipc" \in held => lock # "none"
    BY DEF Common, Calls, Locks, Creating, Destroying
  <2>8. QED
    BY <2>1, <2>2, <2>3, <2>4, <2>5, <2>6, <2>7 DEF MemorySafe, PollUsing, PollDestroying, Closing
<1>2. QED
  BY <1>1, IpcInvariant, PTL

-----------------------------------------------------------------------------
(* On Apple platforms *)

\* The handler, and the memory of its source.
Apple ==
  /\ sig \notin {"lock", "exit"}
  /\ signal = ipc
  /\ sig \in {"poll", "cb", "events", "ready", "call"} => ipc = "live"
  /\ sig = "ended" => closing

\* How a dispatch begins and ends on a dispatch queue, and how its source is cancelled.
OwnQueue == Event \/ Cancelled \/ \E t \in Threads : Cancel(t)

\* There is nothing else.
LEMMA AppleSteps == AppleNext => Shared \/ OwnQueue
BY DEF AppleNext, Shared, OwnQueue, SharedHandler, SharedContinue, Handler, AppleContinue

\* The source is released as it is cancelled, and its handler called no more.
LEMMA OwnQueueStep ==
  ASSUME Control, Common, Apple, OwnQueue
  PROVE  Control' /\ Common' /\ Apple'
<1>. USE DEF Control, Apple, Threads, Goto, queueVars, queueRest, ends,
             sigVars, sigRest, ipcVars, ipcMem, pollVars, pollMem
<1>1. CASE Event \/ Cancelled
  <2>1. UNCHANGED <<state, destroyed, freeing, freed, worklet, ipc, lock, attached, linked, closing,
                    poll, events, op, held, signal>>
    BY <1>1 DEF Event, Cancelled
  <2>2. wake' \in [End -> BOOLEAN]
    BY <1>1 DEF Event, Cancelled
  <2>3. sig' \in Sig /\ sig = "loop" /\ sig' # "none"
    BY <1>1 DEF Event, Cancelled, Sig
  <2>4. running' = IF sig' \in Dispatching THEN "signal" ELSE "free"
    BY <1>1 DEF Event, Cancelled, Common, Calls, Dispatching
  <2>5. Control'
    BY <2>1, <2>2, <2>3, <2>4
  <2>6. Calls'
    BY <2>1, <2>3, <2>4 DEF Common, Calls
  <2>7. sig' \notin {"cb", "events", "ready", "call"}
    BY <1>1 DEF Event, Cancelled
  <2>8. Polls' /\ Locks' /\ Port'
    BY <2>1, <2>7 DEF Common, Polls, Locks, Port
  <2>9. Apple'
    BY <1>1, <2>1 DEF Event, Cancelled, Common, Calls
  <2>10. QED
    BY <2>5, <2>6, <2>8, <2>9 DEF Common
<1>2. ASSUME NEW t \in Threads, Cancel(t) PROVE Control' /\ Common' /\ Apple'
  <2>1. Control'
    BY <1>2 DEF Cancel, Op
  <2>2. Calls'
    BY <1>2 DEF Cancel, Common, Calls, Creating, Destroying
  <2>3. Polls'
    BY <1>2 DEF Cancel, Common, Calls, Polls, Creating, Destroying, PollDestroying, PollUsing
  <2>4. Locks'
    BY <1>2 DEF Cancel, Common, Calls, Locks, Creating, Destroying, Locking
  <2>5. Port'
    BY <1>2 DEF Cancel, Common, Calls, Port, Creating, Destroying, Closing, bare_queue__listening
  <2>6. Apple'
    BY <1>2 DEF Cancel, Common, Calls, Creating, Destroying, Dispatching
  <2>7. QED
    BY <2>1, <2>2, <2>3, <2>4, <2>5, <2>6 DEF Common
<1>3. QED
  BY <1>1, <1>2 DEF OwnQueue

\* Nothing else disturbs the handler.
LEMMA SharedApple ==
  ASSUME Control, Common, Apple, Shared
  PROVE  Apple'
<1>. USE DEF Apple, sigVars, sigRest, ipcVars, ipcMem, ends
<1>1. CASE Create
  BY <1>1 DEF Create, Common, Calls
<1>2. CASE DestroyJoin
  BY <1>2 DEF DestroyJoin, Common, Calls
<1>3. CASE SharedHandler
  <2>1. UNCHANGED <<ipc, closing, signal>>
    BY <1>3, HandlerFrame
  <2>2. /\ sig' \in {"poll", "cb", "events", "ready", "call"}
             => sig \in {"poll", "cb", "events", "ready", "call"}
        /\ sig' \notin {"lock", "exit", "ended"}
    BY <1>3 DEF SharedHandler, SigPoll, SigCb, SigEvents, SigReady, SigCall, SigReturn, SigUnlock
  <2>3. QED
    BY <2>1, <2>2
<1>4. CASE UNCHANGED <<sigVars, ipc>>
  BY <1>4
<1>5. QED
  BY <1>1, <1>2, <1>3, <1>4, SharedFrame

\* The invariant of an ipc on a dispatch queue.
HandlerInv == Control /\ Common /\ Apple

\* Every step keeps it.
LEMMA HandlerStep == HandlerInv /\ [AppleNext]_vars => HandlerInv'
<1>. SUFFICES ASSUME HandlerInv, [AppleNext]_vars PROVE HandlerInv'
  OBVIOUS
<1>1. CASE Shared
  BY <1>1, ControlStep, CallsStep, PollsStep, LocksStep, PortStep, SharedApple DEF HandlerInv,
       Common
<1>2. CASE OwnQueue
  BY <1>2, OwnQueueStep DEF HandlerInv
<1>3. CASE UNCHANGED vars
  BY <1>3 DEF vars, queueVars, sigVars, sigRest, ipcVars, ipcMem, pollVars, pollMem, ends,
       HandlerInv, Control, Common, Calls, Polls, Locks, Port, Apple
<1>4. QED
  BY <1>1, <1>2, <1>3, AppleSteps

\* It holds at first.
LEMMA HandlerInit == Init => HandlerInv
BY CommonInit DEF Init, HandlerInv, Apple

\* Calls, polls, locks, the host's end and the event handler are always as HandlerInv
\* says (ipc.c, apple/ipc.m).
THEOREM HandlerInvariant == AppleSpec => []HandlerInv
BY HandlerInit, HandlerStep, PTL DEF AppleSpec

\* The event handler holds on to the ipc without owning it, and is done with it and
\* with the poll before either is freed (apple/ipc.m:25-29, 54-79).
THEOREM HandlerIsOutlived == AppleSpec => []HandlerOutlived
<1>1. HandlerInv => HandlerOutlived
  BY DEF HandlerInv, Control, Common, Calls, Polls, Port, Apple, Threads, HandlerOutlived
<1>2. QED
  BY <1>1, HandlerInvariant, PTL

-----------------------------------------------------------------------------
(* Bytes *)

\* A ring of messages.
Ring == [slots : [Index -> Message], head : Index, tail : Index]

\* How many messages ring r holds, the i-th of them, and the byte before it if last is
\* the byte before the first.
Count(r) == (r.head + Capacity - r.tail) % Capacity

Item(r, i) == r.slots[(r.tail + i) % Capacity]

Prev(r, last, i) == IF i > 0 THEN Item(r, i - 1).first + Item(r, i - 1).len - 1 ELSE last

\* The messages in ring r are the bytes after last up to end, in order.
Chain(r, last, end) ==
  /\ \A i \in 0 .. Count(r) - 1 : Item(r, i).first = Prev(r, last, i) + 1 /\ Item(r, i).len > 0
  /\ Prev(r, last, Count(r)) = end

\* An index wraps around once.
LEMMA ModValue ==
  ASSUME NEW x \in 0 .. 2 * Capacity - 1
  PROVE  x % Capacity = (IF x < Capacity THEN x ELSE x - Capacity) /\ x % Capacity \in Index
BY DEF Index

\* So does the slot of a message.
LEMMA WrapValue ==
  ASSUME NEW t \in Index, NEW i \in 0 .. Capacity - 1
  PROVE  /\ (t + i) % Capacity \in Index
         /\ (t + i) % Capacity = IF t + i < Capacity THEN t + i ELSE t + i - Capacity
BY DEF Index

\* So does the index after the last.
LEMMA SuccValue ==
  ASSUME NEW i \in Index
  PROVE  /\ Succ(i) \in Index
         /\ Succ(i) = IF i = Capacity - 1 THEN 0 ELSE i + 1
BY DEF Index, Succ

\* A ring holds between none and Capacity - 1 messages; it is empty with none and full
\* with Capacity - 1.
LEMMA CountValue ==
  ASSUME NEW r \in Ring
  PROVE  /\ Count(r) = IF r.tail <= r.head THEN r.head - r.tail ELSE r.head + Capacity - r.tail
         /\ Count(r) \in 0 .. Capacity - 1
         /\ bare_queue__ring_empty(r) <=> Count(r) = 0
         /\ bare_queue__ring_full(r) <=> Count(r) = Capacity - 1
<1>1. r.head \in Index /\ r.tail \in Index
  BY DEF Ring
<1>2. r.head + Capacity - r.tail \in 0 .. 2 * Capacity - 1
  BY <1>1 DEF Index
<1>3. Count(r) = IF r.tail <= r.head THEN r.head - r.tail ELSE r.head + Capacity - r.tail
  BY <1>1, <1>2, ModValue DEF Count, Index
<1>4. Count(r) \in 0 .. Capacity - 1
  BY <1>1, <1>3 DEF Index
<1>5. bare_queue__ring_empty(r) <=> Count(r) = 0
  BY <1>1, <1>3 DEF bare_queue__ring_empty, Index
<1>6. bare_queue__ring_full(r) <=> Count(r) = Capacity - 1
  BY <1>1, <1>3, SuccValue DEF bare_queue__ring_full, Index
<1>7. QED
  BY <1>3, <1>4, <1>5, <1>6

\* A slot in use is not the one at the head.
LEMMA ItemValue ==
  ASSUME NEW r \in Ring, NEW i \in 0 .. Count(r)
  PROVE  /\ (r.tail + i) % Capacity \in Index
         /\ (r.tail + i) % Capacity
              = IF r.tail + i < Capacity THEN r.tail + i ELSE r.tail + i - Capacity
         /\ (r.tail + i) % Capacity = r.head <=> i = Count(r)
         /\ Item(r, i) \in Message
<1>1. r.head \in Index /\ r.tail \in Index /\ r.slots \in [Index -> Message]
  BY DEF Ring
<1>2. r.tail + i \in 0 .. 2 * Capacity - 1
  BY <1>1, CountValue DEF Index
<1>3. /\ (r.tail + i) % Capacity \in Index
      /\ (r.tail + i) % Capacity
              = IF r.tail + i < Capacity THEN r.tail + i ELSE r.tail + i - Capacity
  <2>1. i \in 0 .. Capacity - 1
    BY CountValue
  <2>2. QED
    BY <1>1, <2>1, WrapValue
<1>4. (r.tail + i) % Capacity = r.head <=> i = Count(r)
  <2>. DEFINE y == (r.tail + i) % Capacity
              c == Count(r)
  <2>1. y = IF r.tail + i < Capacity THEN r.tail + i ELSE r.tail + i - Capacity
    BY <1>3
  <2>2. c = IF r.tail <= r.head THEN r.head - r.tail ELSE r.head + Capacity - r.tail
    BY CountValue
  <2>3. i \in 0 .. c
    OBVIOUS
  <2>. HIDE DEF y, c
  <2>4. y = r.head <=> i = c
    <3>1. r.head \in 0 .. Capacity - 1 /\ r.tail \in 0 .. Capacity - 1
      BY <1>1 DEF Index
    <3>2. CASE r.tail <= r.head
      BY <2>1, <2>2, <2>3, <3>1, <3>2
    <3>3. CASE r.tail > r.head
      BY <2>1, <2>2, <2>3, <3>1, <3>3
    <3>4. QED
      BY <3>1, <3>2, <3>3
  <2>5. QED
    BY <2>4 DEF y, c
<1>5. QED
  BY <1>1, <1>3, <1>4 DEF Item

\* A push puts a message behind those that the ring holds.
LEMMA PushValue ==
  ASSUME NEW r \in Ring, NEW m \in Message, ~bare_queue__ring_full(r),
         NEW q, q = bare_queue__ring_push(r, m)
  PROVE  /\ q \in Ring
         /\ Count(q) = Count(r) + 1
         /\ \A i \in 0 .. Count(r) - 1 : Item(q, i) = Item(r, i)
         /\ Item(q, Count(r)) = m
<1>1. /\ r.head \in Index /\ r.tail \in Index /\ r.slots \in [Index -> Message]
      /\ Succ(r.head) = IF r.head = Capacity - 1 THEN 0 ELSE r.head + 1
      /\ Succ(r.head) \in Index
  BY SuccValue DEF Ring
<1>2. /\ q.slots = [r.slots EXCEPT ![r.head] = m]
      /\ q.head = Succ(r.head)
      /\ q.tail = r.tail
      /\ q \in Ring
  BY <1>1 DEF bare_queue__ring_push, Ring
<1>3. Count(q) = Count(r) + 1
  <2>1. Count(r) = IF r.tail <= r.head THEN r.head - r.tail ELSE r.head + Capacity - r.tail
    BY CountValue
  <2>2. Count(q) = IF q.tail <= q.head THEN q.head - q.tail ELSE q.head + Capacity - q.tail
    BY <1>2, CountValue
  <2>3. Succ(r.head) # r.tail
    BY DEF bare_queue__ring_full
  <2>4. QED
    <3>1. r.head \in 0 .. Capacity - 1 /\ r.tail \in 0 .. Capacity - 1
      BY <1>1 DEF Index
    <3>2. CASE r.head = Capacity - 1
      <4>1. q.head = 0 /\ q.tail = r.tail
        BY <1>1, <1>2, <3>2
      <4>2. QED
        BY <1>1, <2>1, <2>2, <2>3, <3>1, <3>2, <4>1
    <3>3. CASE r.head # Capacity - 1
      <4>1. q.head = r.head + 1 /\ q.tail = r.tail
        BY <1>1, <1>2, <3>3
      <4>2. QED
        BY <1>1, <2>1, <2>2, <2>3, <3>1, <3>3, <4>1
    <3>4. QED
      BY <3>2, <3>3
<1>4. Count(r) \in Nat
  BY CountValue
<1>5. ASSUME NEW i \in 0 .. Count(r) - 1
      PROVE  Item(q, i) = Item(r, i)
  <2>1. (r.tail + i) % Capacity \in Index /\ (r.tail + i) % Capacity # r.head
    BY <1>4, ItemValue
  <2>2. QED
    BY <1>1, <1>2, <2>1 DEF Item
<1>6. Item(q, Count(r)) = m
  <2>1. (r.tail + Count(r)) % Capacity = r.head
    BY <1>4, ItemValue
  <2>2. QED
    BY <1>1, <1>2, <2>1 DEF Item
<1>7. QED
  BY <1>2, <1>3, <1>5, <1>6

\* A shift leaves all but the first of them.
LEMMA ShiftValue ==
  ASSUME NEW r \in Ring, ~bare_queue__ring_empty(r),
         NEW q, q = bare_queue__ring_shift(r)
  PROVE  /\ q \in Ring
         /\ Count(q) = Count(r) - 1
         /\ \A i \in 0 .. Count(q) - 1 : Item(q, i) = Item(r, i + 1)
         /\ Item(r, 0) = r.slots[r.tail]
<1>1. /\ r.head \in Index /\ r.tail \in Index /\ r.slots \in [Index -> Message]
      /\ Succ(r.tail) = IF r.tail = Capacity - 1 THEN 0 ELSE r.tail + 1
      /\ Succ(r.tail) \in Index
  BY SuccValue DEF Ring
<1>2. /\ q.slots = r.slots
      /\ q.head = r.head
      /\ q.tail = Succ(r.tail)
      /\ q \in Ring
  BY <1>1 DEF bare_queue__ring_shift, Ring
<1>3. Count(q) = Count(r) - 1
  <2>1. Count(r) = IF r.tail <= r.head THEN r.head - r.tail ELSE r.head + Capacity - r.tail
    BY CountValue
  <2>2. Count(q) = IF q.tail <= q.head THEN q.head - q.tail ELSE q.head + Capacity - q.tail
    BY <1>2, CountValue
  <2>3. QED
    BY <1>1, <1>2, <2>1, <2>2 DEF Index, bare_queue__ring_empty
<1>4. Count(r) \in Nat /\ Count(q) \in Nat
  BY <1>2, CountValue
<1>5. ASSUME NEW i \in 0 .. Count(q) - 1
      PROVE  Item(q, i) = Item(r, i + 1)
  <2>1. i \in 0 .. Count(q) /\ i + 1 \in 0 .. Count(r)
    BY <1>3, <1>4
  <2>2. (q.tail + i) % Capacity
          = IF q.tail + i < Capacity THEN q.tail + i ELSE q.tail + i - Capacity
    BY <1>2, <2>1, ItemValue
  <2>3. (r.tail + (i + 1)) % Capacity
          = IF r.tail + (i + 1) < Capacity THEN r.tail + (i + 1) ELSE r.tail + (i + 1) - Capacity
    BY <2>1, ItemValue
  <2>4. (q.tail + i) % Capacity = (r.tail + (i + 1)) % Capacity
    <3>. DEFINE x == (q.tail + i) % Capacity
                y == (r.tail + (i + 1)) % Capacity
    <3>1. x = IF q.tail + i < Capacity THEN q.tail + i ELSE q.tail + i - Capacity
      BY <2>2
    <3>2. y = IF r.tail + (i + 1) < Capacity THEN r.tail + (i + 1) ELSE r.tail + (i + 1) - Capacity
      BY <2>3
    <3>3. i \in 0 .. Capacity - 2
      BY <1>3, <1>4, CountValue
    <3>. HIDE DEF x, y
    <3>4. x = y
      <4>1. CASE r.tail = Capacity - 1
        <5>1. q.tail = 0
          BY <1>1, <1>2, <4>1
        <5>2. x = i /\ y = i
          BY <3>1, <3>2, <3>3, <4>1, <5>1
        <5>3. QED
          BY <5>2
      <4>2. CASE r.tail # Capacity - 1
        <5>1. q.tail = r.tail + 1
          BY <1>1, <1>2, <4>2
        <5>2. QED
          <6>1. r.tail \in 0 .. Capacity - 1
            BY <1>1 DEF Index
          <6>2. QED
            BY <3>1, <3>2, <3>3, <5>1, <6>1
      <4>3. QED
        BY <4>1, <4>2
    <3>5. QED
      BY <3>4 DEF x, y
  <2>5. QED
    BY <1>2, <2>4 DEF Item
<1>6. Item(r, 0) = r.slots[r.tail]
  <2>1. (r.tail + 0) % Capacity = r.tail
    <3>1. 0 \in 0 .. Count(r) /\ r.tail \in 0 .. Capacity - 1
      BY <1>1, <1>4 DEF Index
    <3>2. (r.tail + 0) % Capacity
            = IF r.tail + 0 < Capacity THEN r.tail + 0 ELSE r.tail + 0 - Capacity
      BY <3>1, ItemValue
    <3>3. QED
      BY <3>1, <3>2
  <2>2. QED
    BY <2>1 DEF Item
<1>7. QED
  BY <1>2, <1>3, <1>5, <1>6

\* A message that follows on is pushed behind.
LEMMA ChainPush ==
  ASSUME NEW r \in Ring, NEW last \in Nat, NEW end \in Nat, NEW n \in Nat \ {0}, NEW m, NEW q,
         m = [first |-> end + 1, len |-> n],
         Chain(r, last, end), ~bare_queue__ring_full(r), q = bare_queue__ring_push(r, m)
  PROVE  Chain(q, last, end + n)
<1>1. m \in Message /\ m.first = end + 1 /\ m.len = n
  BY DEF Message
<1>2. /\ Count(q) = Count(r) + 1
      /\ \A i \in 0 .. Count(r) - 1 : Item(q, i) = Item(r, i)
      /\ Item(q, Count(r)) = m
      /\ Count(r) \in Nat
  BY <1>1, PushValue, CountValue
<1>3. \A i \in 0 .. Count(r) : Prev(q, last, i) = Prev(r, last, i)
  <2>1. ASSUME NEW i \in 0 .. Count(r), i > 0 PROVE Item(q, i - 1) = Item(r, i - 1)
    BY <1>2, <2>1
  <2>2. QED
    BY <2>1 DEF Prev
<1>4. Item(q, Count(r)).first = Prev(q, last, Count(r)) + 1 /\ Item(q, Count(r)).len > 0
  BY <1>1, <1>2, <1>3 DEF Chain
<1>5. \A i \in 0 .. Count(q) - 1 : Item(q, i).first = Prev(q, last, i) + 1 /\ Item(q, i).len > 0
  BY <1>2, <1>3, <1>4 DEF Chain
<1>6. Prev(q, last, Count(q)) = end + n
  BY <1>1, <1>2 DEF Prev
<1>7. QED
  BY <1>5, <1>6 DEF Chain

\* The message that is shifted comes next, and the others after it.
LEMMA ChainShift ==
  ASSUME NEW r \in Ring, NEW last \in Nat, NEW end \in Nat, NEW m, NEW q,
         Chain(r, last, end), ~bare_queue__ring_empty(r),
         m = r.slots[r.tail], q = bare_queue__ring_shift(r)
  PROVE  /\ m \in Message /\ m.first = last + 1 /\ m.len > 0
         /\ Chain(q, m.first + m.len - 1, end)
<1>1. /\ Count(q) = Count(r) - 1
      /\ \A i \in 0 .. Count(q) - 1 : Item(q, i) = Item(r, i + 1)
      /\ Item(r, 0) = m
      /\ Count(r) \in Nat /\ Count(r) > 0
      /\ Count(q) \in Nat
  BY ShiftValue, CountValue
<1>2. m \in Message /\ m.first = last + 1 /\ m.len > 0
  <2>1. 0 \in 0 .. Count(r) - 1
    BY <1>1
  <2>2. Item(r, 0) \in Message
    BY <1>1, ItemValue
  <2>3. QED
    BY <1>1, <2>1, <2>2 DEF Chain, Prev
<1>3. \A i \in 0 .. Count(q) : Prev(q, m.first + m.len - 1, i) = Prev(r, last, i + 1)
  <2>. SUFFICES ASSUME NEW i \in 0 .. Count(q)
                PROVE  Prev(q, m.first + m.len - 1, i) = Prev(r, last, i + 1)
    OBVIOUS
  <2>1. CASE i = 0
    BY <1>1, <2>1 DEF Prev
  <2>2. CASE i > 0
    <3>1. Item(q, i - 1) = Item(r, i)
      BY <1>1, <2>2
    <3>2. QED
      BY <2>2, <3>1 DEF Prev
  <2>3. QED
    BY <1>1, <2>1, <2>2
<1>4. ASSUME NEW i \in 0 .. Count(q) - 1
      PROVE  Item(q, i).first = Prev(q, m.first + m.len - 1, i) + 1 /\ Item(q, i).len > 0
  <2>1. i + 1 \in 0 .. Count(r) - 1
    BY <1>1
  <2>2. Item(r, i + 1).first = Prev(r, last, i + 1) + 1 /\ Item(r, i + 1).len > 0
    BY <2>1 DEF Chain
  <2>3. QED
    BY <1>1, <1>3, <2>2
<1>5. Prev(q, m.first + m.len - 1, Count(q)) = end
  BY <1>1, <1>3 DEF Chain
<1>6. QED
  BY <1>2, <1>4, <1>5 DEF Chain

\* What a write and a read make of the rings.
LEMMA WriteRing ==
  ASSUME ring \in [End -> Ring], NEW e \in End, NEW m \in Message, bare_queue_write(e, m)
  PROVE  /\ ring' \in [End -> Ring]
         /\ ring'[e] = ring[e]
         /\ WriteResult(e) = "ok" => /\ ~bare_queue__ring_full(ring[Peer(e)])
                                     /\ ring'[Peer(e)] = bare_queue__ring_push(ring[Peer(e)], m)
         /\ WriteResult(e) # "ok" => ring' = ring
<1>0. Peer(e) \in End /\ Peer(e) # e /\ ring[Peer(e)] \in Ring
  BY PeerType
<1>1. CASE WriteResult(e) = "ok"
  <2>1. ~bare_queue__ring_full(ring[Peer(e)])
    BY <1>1 DEF WriteResult, bare_queue__outbox
  <2>2. bare_queue__ring_push(ring[Peer(e)], m) \in Ring
    BY <1>0, <2>1, PushValue
  <2>3. ring' = [ring EXCEPT ![Peer(e)] = bare_queue__ring_push(ring[Peer(e)], m)]
    BY <1>1 DEF bare_queue_write
  <2>4. QED
    BY <1>0, <1>1, <2>1, <2>2, <2>3
<1>2. CASE WriteResult(e) # "ok"
  BY <1>2 DEF bare_queue_write
<1>3. QED
  BY <1>1, <1>2

\* Likewise for a read.
LEMMA ReadRing ==
  ASSUME ring \in [End -> Ring], NEW e \in End, bare_queue_read(e)
  PROVE  /\ ring' \in [End -> Ring]
         /\ ring'[Peer(e)] = ring[Peer(e)]
         /\ ReadResult(e) = "data" => /\ ~bare_queue__ring_empty(ring[e])
                                      /\ ring'[e] = bare_queue__ring_shift(ring[e])
         /\ ReadResult(e) # "data" => ring' = ring
<1>0. Peer(e) \in End /\ Peer(e) # e /\ ring[e] \in Ring
  BY PeerType
<1>1. CASE ReadResult(e) = "data"
  <2>1. ~bare_queue__ring_empty(ring[e])
    BY <1>1 DEF ReadResult, bare_queue__inbox
  <2>2. bare_queue__ring_shift(ring[e]) \in Ring
    BY <1>0, <2>1, ShiftValue
  <2>3. ring' = [ring EXCEPT ![e] = bare_queue__ring_shift(ring[e])]
    BY <1>1 DEF bare_queue_read
  <2>4. QED
    BY <1>0, <1>1, <2>1, <2>2, <2>3
<1>2. CASE ReadResult(e) # "data"
  BY <1>2 DEF bare_queue_read
<1>3. QED
  BY <1>1, <1>2

\* The types of what carries bytes.
Data ==
  /\ ring \in [End -> Ring]
  /\ pending \in Message /\ offset \in Nat
  /\ sent \in Nat /\ got \in Nat

\* The last byte of those that were taken from the queue.
Last == IF pending # None THEN pending.first + pending.len - 1 ELSE got

\* What was read in part goes on from the last byte read, and the host's inbox from
\* there, until the host's end is closed.
Stream ==
  /\ pending # None => attached /\ offset < pending.len /\ pending.first + offset = got + 1
  /\ state["thread"] # Closed => Chain(ring["thread"], Last, sent)

\* What Data and Stream are about.
byteVars == <<ring, pending, offset, sent, got, attached, state>>

\* The steps that move bytes, or open or close an end.
Moves ==
  \/ \E len \in 1 .. MaxMessage : WorkletWrite(len)
  \/ WorkletRead \/ WorkletEnd \/ WorkletClose \/ Free \/ CreateOpen
  \/ \E t \in Threads :
       \/ Read(t) \/ Write(t) \/ HostEnd(t) \/ Close(t) \/ DestroyClose(t) \/ CloseSignal(t)
       \/ \E len \in 1 .. MaxMessage : ReadBytes(t, len)

\* Nothing else that both platforms do moves a byte.
LEMMA SharedMoves ==
  ASSUME Shared
  PROVE  Moves \/ UNCHANGED byteVars
<1>. USE DEF byteVars, queueVars, queueRest, ipcVars, ipcMem, ends, Moves
<1>1. Worklet => Moves \/ UNCHANGED byteVars
  BY DEF Worklet, WorkletDestroy, bare_queue_destroy
<1>2. SharedHandler => UNCHANGED byteVars
  BY HandlerFrame DEF SharedHandler, SigPoll, SigCb, SigEvents, SigReady, SigCall, SigReturn,
       SigUnlock
<1>3. Create \/ CreateInit \/ PollCreate \/ DestroyJoin => UNCHANGED byteVars
  BY DEF Create, CreateInit, PollCreate, DestroyJoin
<1>4. ASSUME NEW t \in Threads, Begin(t) PROVE Moves \/ UNCHANGED byteVars
  BY <1>4 DEF Begin, Destroy, PollStop, PollStart
<1>5. ASSUME NEW t \in Threads, SharedContinue(t) PROVE Moves \/ UNCHANGED byteVars
  BY <1>5 DEF SharedContinue, ReadNothing, HostEndSignal,
       PollStartCb, PollStartSignal, PollStopCb, PollUnset, PollFree
<1>6. QED
  BY <1>1, <1>2, <1>3, <1>4, <1>5 DEF Shared

\* They keep the bytes in order: the worklet writes what comes next, and the host takes
\* the rest of a message before it takes another.
LEMMA MovesStep ==
  ASSUME Control, Common, Data, Stream, Moves
  PROVE  Data' /\ Stream'
<1>0. /\ ring["thread"] \in Ring /\ ring["uv"] \in Ring /\ Last \in Nat
      /\ state \in [End -> States] /\ sent \in Nat /\ got \in Nat
      /\ "uv" \in End /\ "thread" \in End /\ Peer("uv") = "thread" /\ Peer("thread") = "uv"
  BY DEF Data, Control, Stream, Last, Message, End, Peer
<1>1. ASSUME NEW len \in 1 .. MaxMessage, WorkletWrite(len) PROVE Data' /\ Stream'
  <2>. DEFINE m == [first |-> sent + 1, len |-> len]
  <2>1. m \in Message /\ len \in Nat \ {0}
    BY <1>0 DEF Message
  <2>2. bare_queue_write("uv", m) /\ UNCHANGED <<state, attached, pending, offset, got>>
    BY <1>1 DEF WorkletWrite, bare_queue_write, ipcVars, ipcMem
  <2>3. sent' = IF WriteResult("uv") = "ok" THEN sent + len ELSE sent
    BY <1>1 DEF WorkletWrite
  <2>4. /\ ring' \in [End -> Ring]
        /\ WriteResult("uv") = "ok" => /\ ~bare_queue__ring_full(ring["thread"])
                                       /\ ring'["thread"] = bare_queue__ring_push(ring["thread"], m)
        /\ WriteResult("uv") # "ok" => ring' = ring
    BY <1>0, <2>1, <2>2, WriteRing DEF Data
  <2>5. Data'
    BY <1>0, <2>1, <2>2, <2>3, <2>4 DEF Data
  <2>6. Last' = Last
    BY <2>2 DEF Last
  <2>7. state["thread"] # Closed => Chain(ring["thread"], Last, sent)'
    <3>1. CASE WriteResult("uv") = "ok"
      BY <1>0, <2>1, <2>3, <2>4, <2>6, <3>1, ChainPush DEF Stream
    <3>2. CASE WriteResult("uv") # "ok"
      BY <2>3, <2>4, <2>6, <3>2 DEF Stream
    <3>3. QED
      BY <3>1, <3>2
  <2>8. QED
    BY <2>2, <2>5, <2>7 DEF Stream
<1>2. CASE WorkletRead \/ \E t \in Threads : Write(t)
  <2>1. /\ UNCHANGED <<state, attached, pending, offset, sent, got>>
        /\ bare_queue_read("uv") \/ bare_queue_write("thread", [first |-> 1, len |-> 1])
    BY <1>2 DEF WorkletRead, Write, bare_queue_read, bare_queue_write, ipcVars, ipcMem, ends
  <2>2. [first |-> 1, len |-> 1] \in Message
    BY DEF Message
  <2>3. ring' \in [End -> Ring] /\ ring'["thread"] = ring["thread"]
    BY <1>0, <2>1, <2>2, WriteRing, ReadRing DEF Data
  <2>4. QED
    BY <2>1, <2>3 DEF Data, Stream, Last
<1>3. CASE WorkletEnd \/ WorkletClose
  <2>1. \E s \in {Ended, Closed} : bare_queue__advance("uv", s)
    BY <1>3 DEF WorkletEnd, WorkletClose, bare_queue_end, bare_queue_close
  <2>2. UNCHANGED ring /\ state'["thread"] = state["thread"]
    BY <1>0, <2>1, AdvanceValue
  <2>3. UNCHANGED <<attached, pending, offset, sent, got>>
    BY <1>3 DEF WorkletEnd, WorkletClose, ipcVars, ipcMem
  <2>4. QED
    BY <2>2, <2>3 DEF Data, Stream, Last
<1>4. CASE Free
  <2>1. freeing > 0 /\ UNCHANGED <<attached, pending, offset, sent, got, state>>
        /\ ring' = [e \in End |-> [ring[e] EXCEPT !.tail = ring[e].head]]
    BY <1>4 DEF Free, bare_queue__free, ipcVars, ipcMem, ends
  <2>2. ring' \in [End -> Ring]
    BY <2>1 DEF Data, Ring
  <2>3. state["thread"] = Closed
    BY <1>0, <2>1 DEF Control, Common, Port, bare_queue__listening, States, Idle, Open, Ended,
         Closed
  <2>4. QED
    BY <2>1, <2>2, <2>3 DEF Data, Stream
<1>5. CASE CreateOpen
  <2>1. UNCHANGED <<ring, pending, offset, sent, got>> /\ (attached => attached')
        /\ (state["thread"] = Closed => state'["thread"] = Closed)
    BY <1>0, <1>5 DEF CreateOpen, bare_queue_open_thread, queueVars, ends, Idle, Closed, Control
  <2>2. QED
    BY <2>1 DEF Data, Stream, Last
<1>6. ASSUME NEW t \in Threads, HostEnd(t) \/ Close(t) \/ DestroyClose(t) PROVE Data' /\ Stream'
  <2>1. \E s \in {Ended, Closed} : bare_queue__advance("thread", s)
    BY <1>6 DEF HostEnd, Close, DestroyClose, bare_ipc_close, bare_queue_end, bare_queue_close
  <2>2. UNCHANGED ring /\ (state["thread"] = Closed => state'["thread"] = Closed)
    BY <1>0, <2>1, AdvanceValue DEF Ended, Closed
  <2>3. UNCHANGED <<attached, pending, offset, sent, got>>
    BY <1>6 DEF HostEnd, Close, DestroyClose, ends
  <2>4. QED
    BY <2>2, <2>3 DEF Data, Stream, Last
<1>7. ASSUME NEW t \in Threads, CloseSignal(t) PROVE Data' /\ Stream'
  <2>1. UNCHANGED <<ring, state, offset, sent, got>> /\ pending' = None
    BY <1>7 DEF CloseSignal, queueRest, ends
  <2>2. state["thread"] = Closed
    BY <1>0, <1>7 DEF CloseSignal, Closing, Control, Common, Port, bare_queue__listening, States,
                      Idle, Open, Ended, Closed, Calls, Creating, Destroying, Threads
  <2>3. None \in Message
    BY DEF None, Message
  <2>4. QED
    BY <2>1, <2>2, <2>3 DEF Data, Stream
<1>8. ASSUME NEW t \in Threads, Read(t) PROVE Data' /\ Stream'
  <2>1. UNCHANGED <<attached, sent, got>>
    BY <1>8 DEF Read, ends
  <2>2. CASE attached /\ pending = None
    <3>1. /\ bare_queue_read("thread") /\ UNCHANGED state /\ offset' = 0
          /\ pending' = IF ReadResult("thread") = "data" THEN ReadMessage("thread") ELSE None
      BY <1>8, <2>2 DEF Read, bare_queue_read
    <3>2. state["thread"] # Closed
      BY <1>8, <2>2 DEF Read, Common, Port, Locks, Locking, Closing, bare_queue__listening,
           Threads, Open, Ended, Closed
    <3>3. Last = got /\ Chain(ring["thread"], got, sent)
      BY <2>2, <3>2 DEF Last, Stream
    <3>4. CASE ReadResult("thread") = "data"
      <4>. DEFINE m == ring["thread"].slots[ring["thread"].tail]
      <4>1. /\ ring' \in [End -> Ring] /\ ~bare_queue__ring_empty(ring["thread"])
            /\ ring'["thread"] = bare_queue__ring_shift(ring["thread"])
            /\ pending' = m
        BY <1>0, <3>1, <3>4, ReadRing DEF Data, ReadMessage, bare_queue__inbox
      <4>2. /\ m \in Message /\ m.first = got + 1 /\ m.len > 0
            /\ Chain(bare_queue__ring_shift(ring["thread"]), m.first + m.len - 1, sent)
        BY <1>0, <3>3, <4>1, ChainShift
      <4>. HIDE DEF m
      <4>3. Data'
        BY <2>1, <3>1, <4>1, <4>2 DEF Data
      <4>4. m # None
        BY <4>2 DEF None
      <4>5. Last' = m.first + m.len - 1
        BY <4>1, <4>4 DEF Last
      <4>6. Stream'
        BY <1>0, <2>1, <2>2, <3>1, <4>1, <4>2, <4>5 DEF Stream, Message
      <4>7. QED
        BY <4>3, <4>6
    <3>5. CASE ReadResult("thread") # "data"
      <4>1. ring' = ring /\ pending' = pending
        BY <1>0, <2>2, <3>1, <3>5, ReadRing DEF Data
      <4>2. QED
        BY <2>1, <2>2, <3>1, <4>1 DEF Data, Stream, Last
    <3>6. QED
      BY <3>4, <3>5
  <2>3. CASE ~(attached /\ pending = None)
    <3>1. UNCHANGED <<ring, state, offset, pending>>
      BY <1>8, <2>3 DEF Read, queueVars
    <3>2. QED
      BY <2>1, <3>1 DEF Data, Stream, Last
  <2>4. QED
    BY <2>2, <2>3
<1>9. ASSUME NEW t \in Threads, NEW len \in 1 .. MaxMessage, ReadBytes(t, len)
      PROVE  Data' /\ Stream'
  <2>. DEFINE left == pending.len - offset
              n    == IF len > left THEN left ELSE len
  <2>1. UNCHANGED <<ring, state, attached, sent>>
    BY <1>9 DEF ReadBytes, queueRest
  <2>2. /\ pending # None /\ pending.first \in Nat /\ pending.len \in Nat /\ offset \in Nat
        /\ offset < pending.len /\ pending.first + offset = got + 1
    BY <1>9 DEF ReadBytes, Data, Stream, Message
  <2>3. left \in Nat /\ n \in 1 .. left
    BY <2>2
  <2>4. /\ got' = pending.first + offset + n - 1
        /\ offset' = offset + n
        /\ pending' = IF n = left THEN None ELSE pending
    BY <1>9 DEF ReadBytes
  <2>5. None \in Message
    BY DEF None, Message
  <2>6. Data'
    BY <2>1, <2>2, <2>3, <2>4, <2>5 DEF Data
  <2>7. Last' = Last
    <3>1. Last = pending.first + pending.len - 1
      BY <2>2 DEF Last
    <3>2. CASE n = left
      BY <2>2, <2>3, <2>4, <3>1, <3>2 DEF Last
    <3>3. CASE n # left
      BY <2>2, <2>4, <3>1, <3>3 DEF Last
    <3>4. QED
      BY <3>2, <3>3
  <2>8. pending' # None =>
          attached' /\ offset' < pending'.len /\ pending'.first + offset' = got' + 1
    <3>1. CASE n = left
      BY <2>4, <3>1
    <3>2. CASE n # left
      BY <2>1, <2>2, <2>3, <2>4, <3>2 DEF Stream
    <3>3. QED
      BY <3>1, <3>2
  <2>9. QED
    BY <2>1, <2>6, <2>7, <2>8 DEF Stream
<1>10. QED
  BY <1>1, <1>2, <1>3, <1>4, <1>5, <1>6, <1>7, <1>8, <1>9 DEF Moves

\* There are no bytes at first.
LEMMA BytesInit == Init => Data /\ Stream
<1>. SUFFICES ASSUME Init PROVE Data /\ Stream
  OBVIOUS
<1>1. None \in Message /\ 0 \in Index
  BY DEF None, Message, Index
<1>2. ring \in [End -> Ring]
  BY <1>1 DEF Init, Ring
<1>3. Count(ring["thread"]) = 0
  BY <1>2, CountValue DEF Init, End
<1>4. Chain(ring["thread"], 0, 0)
  BY <1>3 DEF Chain, Prev
<1>5. QED
  BY <1>1, <1>2, <1>4 DEF Init, Data, Stream, Last

\* The invariant with the bytes.
BytesInv == IpcInv /\ Data /\ Stream

\* The signal thread moves no bytes, ...
LEMMA OwnThreadBytes ==
  ASSUME OwnThread
  PROVE  UNCHANGED byteVars
BY DEF OwnThread, SigWake, SigLock, SigClose, SigExit, DestroySignal, byteVars, queueVars,
       queueRest, ipcVars, ipcMem, ends

\* ... and bytes that are not moved stay in order.
LEMMA SameBytes ==
  ASSUME Data, Stream, UNCHANGED byteVars
  PROVE  Data' /\ Stream'
BY DEF Data, Stream, Last, byteVars

\* What the host has read, the rest of a message it has read in part, and what is in
\* its inbox are always the bytes that the worklet wrote (ipc.c, queue.c).
THEOREM BytesInvariant == Spec => []BytesInv
<1>1. Init => BytesInv
  BY IpcInit, BytesInit DEF BytesInv
<1>2. BytesInv /\ [Next]_vars => BytesInv'
  <2>. SUFFICES ASSUME BytesInv, [Next]_vars PROVE BytesInv'
    OBVIOUS
  <2>1. IpcInv'
    BY IpcStep DEF BytesInv
  <2>2. Moves \/ UNCHANGED byteVars
    <3>1. CASE Shared
      BY <3>1, SharedMoves
    <3>2. CASE OwnThread
      BY <3>2, OwnThreadBytes
    <3>3. CASE UNCHANGED vars
      BY <3>3 DEF vars, byteVars, queueVars, ipcVars, ipcMem, ends
    <3>4. QED
      BY <3>1, <3>2, <3>3, ThreadSteps
  <2>3. Data' /\ Stream'
    BY <2>2, MovesStep, SameBytes DEF BytesInv, IpcInv
  <2>4. QED
    BY <2>1, <2>3 DEF BytesInv
<1>3. QED
  BY <1>1, <1>2, PTL DEF Spec

\* Which is what BytesInOrder says.
LEMMA BytesPromise == Common /\ Stream => BytesInOrder
<1>. SUFFICES ASSUME Common, Stream PROVE BytesInOrder
  OBVIOUS
<1>1. pending # None => attached /\ offset < pending.len /\ pending.first + offset = got + 1
  BY DEF Stream
<1>2. ASSUME attached, \A t \in Threads : op[t] \notin {"close", "destroy.close"}
      PROVE  Chain(ring["thread"], Last, sent)
  BY <1>2 DEF Common, Port, Closing, bare_queue__listening, Open, Ended, Closed, Stream
<1>3. \A i : Before(i) = Prev(ring["thread"], Last, i) /\ Inbox(i) = Item(ring["thread"], i)
  BY DEF Before, Inbox, Prev, Item, Last
<1>4. InboxCount = Count(ring["thread"])
  BY DEF InboxCount, Count
<1>5. QED
  BY <1>1, <1>2, <1>3, <1>4 DEF Chain, BytesInOrder

\* Reads of any length hand out the worklet's bytes in order, none twice and none left
\* out, from whichever thread (ipc.c:119-160).
THEOREM BytesAreInOrder == Spec => []BytesInOrder
<1>1. BytesInv => BytesInOrder
  BY BytesPromise DEF BytesInv, IpcInv
<1>2. QED
  BY <1>1, BytesInvariant, PTL

-----------------------------------------------------------------------------
(* Polls that are not lost *)

\* Calls that are yet to signal.
Signalling == {"start.cb", "start.signal", "end", "close"}

\* The host has been told of x, or is going to be.
Alerted(x) ==
  \/ x \in told
  \/ wake["thread"]
  \/ sig \in {"lock", "poll", "cb", "events"}
  \/ sig \in {"ready", "call"} /\ x \in ready
  \/ \E t \in Threads : op[t] \in Signalling

\* All that a poll in use waits for, and that is so, the host is told.
PollInv == "poll" \in held /\ cb => \A x \in events \cap IpcReady : Alerted(x)

\* What the worklet does makes nothing ready without a wakeup.
LEMMA WorkletWakes ==
  ASSUME Control, Data, UNCHANGED <<attached, pending>>,
         attached => bare_queue__listening(state["thread"]),
         \/ bare_queue_read("uv")
         \/ \E m \in Message : bare_queue_write("uv", m)
         \/ \E s \in {Ended, Closed} : bare_queue__advance("uv", s)
  PROVE  /\ wake["thread"] => wake'["thread"]
         /\ wake'["thread"] \/ IpcReady' \subseteq IpcReady
<1>0. /\ "uv" \in End /\ "thread" \in End /\ Peer("uv") = "thread" /\ Peer("thread") = "uv"
      /\ wake \in [End -> BOOLEAN] /\ ring \in [End -> Ring]
  BY DEF Control, Data, End, Peer
<1>1. /\ Signalled("thread")["thread"] = (wake["thread"] \/ bare_queue__listening(state["thread"]))
      /\ bare_queue__signal_peer("uv") = Signalled("thread")
  BY <1>0 DEF Signalled, bare_queue__signal_peer
<1>2. CASE ~attached
  <2>1. IpcReady' \subseteq IpcReady
    BY <1>2 DEF IpcReady
  <2>2. wake["thread"] => wake'["thread"]
    BY <1>1 DEF bare_queue_read, bare_queue_write, bare_queue__advance
  <2>3. QED
    BY <2>1, <2>2
<1>3. CASE attached
  <2>1. Signalled("thread")["thread"]
    BY <1>1, <1>3
  <2>2. CASE wake' = Signalled("thread")
    BY <2>1, <2>2
  <2>3. CASE bare_queue_read("uv") /\ wake' # Signalled("thread")
    <3>1. wake' = wake /\ UNCHANGED state
      BY <1>1, <2>3 DEF bare_queue_read
    <3>2. ring'["thread"] = ring["thread"]
      BY <1>0, <2>3, ReadRing
    <3>3. ring'["uv"] = ring["uv"] \/ ~bare_queue__ring_full(ring["uv"])
      BY <1>1, <2>3 DEF bare_queue_read, bare_queue__inbox
    <3>4. IpcReady' \subseteq IpcReady
      BY <1>0, <3>1, <3>2, <3>3 DEF IpcReady, bare_queue_readable, bare_queue_writable,
        bare_queue__inbox, bare_queue__outbox
    <3>5. QED
      BY <3>1, <3>4
  <2>4. ASSUME NEW m \in Message, bare_queue_write("uv", m), wake' # Signalled("thread")
        PROVE  (wake["thread"] => wake'["thread"]) /\ IpcReady' \subseteq IpcReady
    <3>1. wake' = wake /\ UNCHANGED state
      BY <1>1, <2>4 DEF bare_queue_write
    <3>2. ring'["uv"] = ring["uv"]
      BY <1>0, <2>4, WriteRing
    <3>3. ring'["thread"] = ring["thread"] \/ ~bare_queue__ring_empty(ring["thread"])
      BY <1>0, <1>1, <2>4 DEF bare_queue_write, bare_queue__outbox
    <3>4. IpcReady' \subseteq IpcReady
      BY <1>0, <3>1, <3>2, <3>3 DEF IpcReady, bare_queue_readable, bare_queue_writable,
        bare_queue__inbox, bare_queue__outbox
    <3>5. QED
      BY <3>1, <3>4
  <2>5. ASSUME NEW s \in {Ended, Closed}, bare_queue__advance("uv", s)
        PROVE  wake' = Signalled("thread")
    BY <1>1, <2>5 DEF bare_queue__advance
  <2>6. QED
    BY <2>2, <2>3, <2>4, <2>5
<1>4. QED
  BY <1>2, <1>3

\* A step that takes nothing back that the host was told or will be.
LEMMA PollKept ==
  ASSUME PollInv, UNCHANGED <<held, cb, events, sig, ready>>,
         told \subseteq told',
         wake["thread"] => wake'["thread"],
         wake'["thread"] \/ IpcReady' \subseteq IpcReady,
         wake'["thread"] \/ \A t \in Threads : op[t] \in Signalling => op'[t] \in Signalling
  PROVE  PollInv'
BY DEF PollInv, Alerted

\* What the worklet does wakes the host if it makes anything ready.
LEMMA PollWorklet ==
  ASSUME Control, Common, Data, PollInv, Worklet
  PROVE  PollInv'
<1>0. /\ UNCHANGED <<held, cb, events, sig, ready, told, op, attached, pending>>
  BY WorkletFrame DEF sigVars, ipcVars, ipcMem, pollVars, pollMem
<1>1. CASE "poll" \notin held \/ \E t \in Threads : op[t] = "close"
  BY <1>0, <1>1 DEF PollInv, Alerted, Signalling
<1>2. CASE "poll" \in held /\ \A t \in Threads : op[t] # "close"
  <2>1. attached => bare_queue__listening(state["thread"])
    BY <1>2 DEF Common, Calls, Port, Closing, Destroying
  <2>2. CASE WorkletDestroy \/ Free
    <3>1. wake' = wake /\ UNCHANGED state
      BY <2>2 DEF WorkletDestroy, Free, bare_queue_destroy, bare_queue__free
    <3>2. IpcReady' \subseteq IpcReady
      <4>1. CASE WorkletDestroy
        BY <1>0, <4>1 DEF WorkletDestroy, bare_queue_destroy, IpcReady, bare_queue_readable,
             bare_queue_writable, bare_queue__inbox, bare_queue__outbox
      <4>2. CASE Free
        <5>1. freeing > 0
          BY <4>2 DEF Free, bare_queue__free
        <5>2. ~attached
          BY <2>1, <5>1 DEF Control, Common, Port
        <5>3. QED
          BY <1>0, <5>2 DEF IpcReady
      <4>3. QED
        BY <2>2, <4>1, <4>2
    <3>3. QED
      BY <1>0, <3>1, <3>2, PollKept
  <2>3. CASE ~(WorkletDestroy \/ Free)
    <3>1. \/ bare_queue_read("uv")
          \/ \E m \in Message : bare_queue_write("uv", m)
          \/ \E s \in {Ended, Closed} : bare_queue__advance("uv", s)
      <4>1. ASSUME NEW len \in 1 .. MaxMessage, WorkletWrite(len)
            PROVE  \E m \in Message : bare_queue_write("uv", m)
        <5>1. [first |-> sent + 1, len |-> len] \in Message
          BY DEF Data, Message
        <5>2. QED
          BY <4>1, <5>1 DEF WorkletWrite
      <4>2. QED
        BY <2>3, <4>1 DEF Worklet, WorkletRead, WorkletEnd, WorkletClose, bare_queue_end,
             bare_queue_close
    <3>2. /\ wake["thread"] => wake'["thread"]
          /\ wake'["thread"] \/ IpcReady' \subseteq IpcReady
      BY <1>0, <2>1, <3>1, WorkletWakes
    <3>3. QED
      BY <1>0, <3>2, PollKept
  <2>4. QED
    BY <2>2, <2>3
<1>3. QED
  BY <1>1, <1>2

\* A dispatch does not drop an event on its way.
LEMMA PollHandler ==
  ASSUME Control, Common, PollInv, SharedHandler
  PROVE  PollInv'
<1>0. UNCHANGED <<held, cb, events, op, wake>> /\ IpcReady' = IpcReady
  BY HandlerFrame DEF SharedHandler, SigPoll, SigCb, SigEvents, SigReady, SigCall, SigReturn,
       SigUnlock, queueVars, ipcVars, ipcMem, pollVars, pollMem, ends, IpcReady,
       bare_queue_readable,
       bare_queue_writable, bare_queue__inbox, bare_queue__outbox
<1>. SUFFICES ASSUME "poll" \in held, cb, NEW x \in events \cap IpcReady
              PROVE  Alerted(x)'
  BY <1>0 DEF PollInv
<1>1. Alerted(x)
  BY DEF PollInv
<1>2. linked
  BY DEF Common, Polls, PollDestroying
<1>. USE DEF Alerted, pollVars, pollMem
<1>3. CASE SigPoll
  BY <1>2, <1>3 DEF SigPoll
<1>4. CASE SigCb
  BY <1>4 DEF SigCb
<1>5. CASE SigEvents
  BY <1>5 DEF SigEvents
<1>6. CASE SigReady
  BY <1>0, <1>1, <1>6 DEF SigReady
<1>7. CASE SigCall
  BY <1>0, <1>1, <1>7 DEF SigCall
<1>8. CASE SigReturn \/ SigUnlock
  BY <1>0, <1>1, <1>8 DEF SigReturn, SigUnlock
<1>9. QED
  BY <1>3, <1>4, <1>5, <1>6, <1>7, <1>8 DEF SharedHandler

\* Reads and writes use up what the host was told, unless there is more.
LEMMA PollRead ==
  ASSUME Control, Data, PollInv, NEW t \in Threads, Read(t)
  PROVE  PollInv'
<1>0. UNCHANGED <<held, cb, events, sig, ready, attached>>
  BY DEF Read, ends, sigVars, pollMem
<1>1. op[t] = "idle" /\ \A u \in Threads : op[u] \in Signalling => op'[u] \in Signalling
  BY DEF Read, Caller, Goto, Control, Signalling
<1>2. CASE ~(attached /\ pending = None)
  <2>1. UNCHANGED <<ring, state, wake, pending, told>>
    BY <1>2 DEF Read, queueVars
  <2>2. IpcReady' = IpcReady
    BY <1>0, <2>1 DEF IpcReady, bare_queue_readable, bare_queue_writable, bare_queue__inbox,
         bare_queue__outbox
  <2>3. QED
    BY <1>0, <1>1, <2>1, <2>2, PollKept
<1>3. CASE attached /\ pending = None
  <2>0. /\ "uv" \in End /\ "thread" \in End /\ Peer("uv") = "thread" /\ Peer("thread") = "uv"
        /\ wake \in [End -> BOOLEAN] /\ ring \in [End -> Ring]
    BY DEF Control, Data, End, Peer
  <2>1. /\ bare_queue_read("thread")
        /\ pending' = IF ReadResult("thread") = "data" THEN ReadMessage("thread") ELSE None
        /\ told' = IF ReadResult("thread") = "would_block" THEN told \ {"readable"} ELSE told
    BY <1>3 DEF Read
  <2>2. UNCHANGED state /\ ring'["uv"] = ring["uv"]
    BY <2>0, <2>1, ReadRing DEF bare_queue_read
  <2>3. wake'["thread"] = wake["thread"]
    BY <2>0, <2>1 DEF bare_queue_read, bare_queue__signal_peer, Signalled
  <2>4. CASE ReadResult("thread") = "would_block"
    <3>1. UNCHANGED <<ring, pending>>
      BY <1>3, <2>0, <2>1, <2>4, ReadRing
    <3>2. "readable" \notin IpcReady' /\ IpcReady' = IpcReady
      BY <1>0, <1>3, <2>2, <2>4, <3>1 DEF IpcReady, ReadResult, bare_queue_readable,
           bare_queue_writable, bare_queue__inbox, bare_queue__outbox
    <3>3. QED
      BY <1>0, <1>1, <2>1, <2>3, <2>4, <3>2 DEF PollInv, Alerted
  <2>5. CASE ReadResult("thread") # "would_block"
    <3>1. "readable" \in IpcReady
      BY <1>3, <2>5 DEF IpcReady, ReadResult, bare_queue_readable, Events
    <3>2. "writable" \in IpcReady' => "writable" \in IpcReady
      BY <1>0, <1>3, <2>0, <2>2 DEF IpcReady, bare_queue_writable, bare_queue__outbox
    <3>3. IpcReady' \subseteq IpcReady
      BY <3>1, <3>2 DEF IpcReady, Events
    <3>4. QED
      BY <1>0, <1>1, <2>1, <2>3, <2>5, <3>3, PollKept
  <2>6. QED
    BY <2>4, <2>5
<1>4. QED
  BY <1>2, <1>3

\* Likewise for the rest of a message.
LEMMA PollReadBytes ==
  ASSUME Control, Data, Stream, PollInv,
         NEW t \in Threads, NEW len \in 1 .. MaxMessage, ReadBytes(t, len)
  PROVE  PollInv'
<1>0. UNCHANGED <<held, cb, events, sig, ready, attached, ring, state>>
  BY DEF ReadBytes, queueRest, sigVars, pollMem
<1>1. \A u \in Threads : op[u] \in Signalling => op'[u] \in Signalling
  BY DEF ReadBytes, Goto, Control, Signalling
<1>2. told' = told \ {"readable"}
  BY DEF ReadBytes
<1>. DEFINE left == pending.len - offset
            n    == IF len > left THEN left ELSE len
<1>3. /\ pending' = IF n = left THEN None ELSE pending
      /\ wake' = [wake EXCEPT !["thread"] = @ \/ MoreToRead(n, left)]
      /\ n # left => n < left
  BY DEF ReadBytes, Data, Message
<1>4. wake'["thread"] = (wake["thread"] \/ MoreToRead(n, left))
  BY <1>3 DEF Control, End
<1>. HIDE DEF left, n
<1>5. CASE MoreToRead(n, left)
  BY <1>4, <1>5 DEF PollInv, Alerted
<1>6. CASE ~MoreToRead(n, left)
  <2>1. ~bare_queue_readable("thread") /\ pending' = None
    BY <1>3, <1>6 DEF MoreToRead
  <2>2. attached /\ pending # None
    BY DEF ReadBytes, Stream
  <2>3. "readable" \notin IpcReady' /\ IpcReady' \subseteq IpcReady
    BY <1>0, <2>1, <2>2 DEF IpcReady, bare_queue_readable, bare_queue_writable,
        bare_queue__inbox, bare_queue__outbox
  <2>4. QED
    BY <1>0, <1>1, <1>2, <1>4, <2>3 DEF PollInv, Alerted
<1>7. QED
  BY <1>5, <1>6

\* A write that would block is the only one to use up that the ipc was writable.
LEMMA PollWrite ==
  ASSUME Control, Data, PollInv, NEW t \in Threads, Write(t)
  PROVE  PollInv'
<1>0. UNCHANGED <<held, cb, events, sig, ready, attached, pending, op>>
  BY DEF Write, ends, sigVars, ipcVars, ipcMem, pollMem
<1>1. /\ "uv" \in End /\ "thread" \in End /\ Peer("uv") = "thread" /\ Peer("thread") = "uv"
      /\ wake \in [End -> BOOLEAN] /\ ring \in [End -> Ring]
      /\ [first |-> 1, len |-> 1] \in Message
  BY DEF Control, Data, End, Peer, Message
<1>2. /\ bare_queue_write("thread", [first |-> 1, len |-> 1]) /\ attached
      /\ told' = IF WriteResult("thread") = "would_block" THEN told \ {"writable"} ELSE told
  BY DEF Write
<1>3. UNCHANGED state /\ ring'["thread"] = ring["thread"]
  BY <1>1, <1>2, WriteRing DEF bare_queue_write
<1>4. wake'["thread"] = wake["thread"]
  BY <1>1, <1>2 DEF bare_queue_write, bare_queue__signal_peer, Signalled
<1>5. "readable" \in IpcReady' => "readable" \in IpcReady
  BY <1>0, <1>1, <1>2, <1>3 DEF IpcReady, bare_queue_readable, bare_queue__inbox
<1>6. CASE WriteResult("thread") = "would_block"
  <2>1. UNCHANGED ring
    BY <1>1, <1>2, <1>6, WriteRing
  <2>2. "writable" \notin IpcReady'
    BY <1>0, <1>1, <1>2, <1>3, <1>6, <2>1 DEF IpcReady, WriteResult, bare_queue_writable,
         bare_queue__outbox
  <2>3. IpcReady' \subseteq IpcReady
    BY <1>5, <2>2 DEF IpcReady, Events
  <2>4. QED
    BY <1>0, <1>2, <1>4, <1>6, <2>2, <2>3 DEF PollInv, Alerted
<1>7. CASE WriteResult("thread") # "would_block"
  <2>1. "writable" \in IpcReady
    BY <1>1, <1>2, <1>7 DEF IpcReady, WriteResult, bare_queue_writable, bare_queue__outbox, Events
  <2>2. IpcReady' \subseteq IpcReady
    BY <1>5, <2>1 DEF IpcReady, Events
  <2>3. QED
    BY <1>0, <1>2, <1>4, <1>7, <2>2, PollKept
<1>8. QED
  BY <1>6, <1>7

\* A call that wakes the host has nothing to make up for.
LEMMA PollWoken ==
  ASSUME wake'["thread"] \/ (\E t \in Threads : op'[t] \in Signalling) \/ "poll" \notin held'
         \/ ~cb' \/ events' = {}
  PROVE  PollInv'
BY DEF PollInv, Alerted

\* No step that both platforms take loses a poll.
LEMMA PollShared ==
  ASSUME Control, Common, Data, Stream, PollInv, Shared
  PROVE  PollInv'
<1>0. op \in [Threads -> Op] /\ wake \in [End -> BOOLEAN] /\ "thread" \in End
  BY DEF Control, End
<1>1. CASE Worklet
  BY <1>1, PollWorklet
<1>2. CASE SharedHandler
  BY <1>2, PollHandler
<1>3. CASE Create \/ CreateOpen \/ CreateInit \/ DestroyJoin \/ PollCreate
  <2>1. CASE PollCreate
    <3>1. events' = {}
      BY <2>1 DEF PollCreate, Common, Polls
    <3>2. QED
      BY <3>1, PollWoken
  <2>2. CASE Create \/ CreateOpen \/ CreateInit \/ DestroyJoin
    <3>1. "poll" \notin held'
      BY <2>2 DEF Create, CreateOpen, CreateInit, DestroyJoin, ends, Control, Common, Calls,
           Creating, Destroying, Threads
    <3>2. QED
      BY <3>1, PollWoken
  <2>3. QED
    BY <1>3, <2>1, <2>2
<1>4. ASSUME NEW t \in Threads, Begin(t) PROVE PollInv'
  <2>1. CASE Read(t)
    BY <2>1, PollRead
  <2>2. CASE Write(t)
    BY <2>2, PollWrite
  <2>3. CASE HostEnd(t) \/ Close(t)
    <3>1. op'[t] \in Signalling
      BY <1>0, <2>3 DEF HostEnd, Close, Goto, Signalling
    <3>2. QED
      BY <3>1, PollWoken
  <2>4. CASE Destroy(t)
    <3>1. "poll" \notin held'
      BY <2>4 DEF Destroy
    <3>2. QED
      BY <3>1, PollWoken
  <2>5. CASE PollStop(t)
    <3>1. events' = {}
      BY <2>5 DEF PollStop
    <3>2. QED
      BY <3>1, PollWoken
  <2>6. ASSUME NEW es \in SUBSET Events \ {{}}, PollStart(t, es) PROVE PollInv'
    <3>1. op'[t] \in Signalling
      BY <1>0, <2>6 DEF PollStart, Goto, Signalling
    <3>2. QED
      BY <3>1, PollWoken
  <2>7. QED
    BY <1>4, <2>1, <2>2, <2>3, <2>4, <2>5, <2>6 DEF Begin
<1>5. ASSUME NEW t \in Threads, SharedContinue(t) PROVE PollInv'
  <2>1. ASSUME NEW len \in 1 .. MaxMessage, ReadBytes(t, len) PROVE PollInv'
    BY <2>1, PollReadBytes
  <2>2. CASE ReadNothing(t) \/ PollUnset(t) \/ PollFree(t)
    <3>1. UNCHANGED <<held, cb, events, sig, ready, told, wake, ring, state, attached, pending>>
      BY <2>2 DEF ReadNothing, PollUnset, PollFree, queueVars, sigVars, ipcVars, ipcMem,
           pollVars, pollMem, ends
    <3>2. \A u \in Threads : op[u] \in Signalling => op'[u] \in Signalling
      BY <1>0, <2>2 DEF ReadNothing, PollUnset, PollFree, Goto, Signalling
    <3>3. IpcReady' = IpcReady
      BY <3>1 DEF IpcReady, bare_queue_readable, bare_queue_writable, bare_queue__inbox,
           bare_queue__outbox
    <3>4. QED
      BY <3>1, <3>2, <3>3, PollKept
  <2>3. CASE HostEndSignal(t) \/ CloseSignal(t) \/ PollStartSignal(t)
    <3>1. wake'["thread"] = TRUE
      BY <1>0, <2>3 DEF HostEndSignal, CloseSignal, PollStartSignal, Signal
    <3>2. QED
      BY <3>1, PollWoken
  <2>4. CASE DestroyClose(t)
    <3>1. held' = {}
      BY <2>4 DEF DestroyClose, ends, Common, Calls, Destroying
    <3>2. QED
      BY <3>1, PollWoken
  <2>5. CASE PollStartCb(t)
    <3>1. op'[t] \in Signalling
      BY <1>0, <2>5 DEF PollStartCb, Goto, Signalling
    <3>2. QED
      BY <3>1, PollWoken
  <2>6. CASE PollStopCb(t)
    <3>1. ~cb'
      BY <2>6 DEF PollStopCb
    <3>2. QED
      BY <3>1, PollWoken
  <2>7. QED
    BY <1>5, <2>1, <2>2, <2>3, <2>4, <2>5, <2>6 DEF SharedContinue
<1>6. QED
  BY <1>1, <1>2, <1>3, <1>4, <1>5 DEF Shared

\* A dispatch takes the wakeup with it as it begins, and ends with nothing untold.
LEMMA PollThread ==
  ASSUME Control, Common, SigThread, PollInv, OwnThread
  PROVE  PollInv'
<1>. USE DEF queueVars, queueRest, sigVars, sigRest, ipcVars, ipcMem, pollVars, pollMem, ends
<1>1. ASSUME NEW t \in Threads, DestroySignal(t) PROVE PollInv'
  <2>1. held' = {}
    BY <1>1 DEF DestroySignal, Common, Calls, Creating, Destroying
  <2>2. QED
    BY <2>1, PollWoken
<1>2. CASE SigWake \/ SigLock \/ SigClose \/ SigExit
  <2>0. UNCHANGED <<held, cb, events, op, told, ring, state, attached, pending>>
    BY <1>2 DEF SigWake, SigLock, SigClose, SigExit
  <2>1. IpcReady' = IpcReady
    BY <2>0 DEF IpcReady, bare_queue_readable, bare_queue_writable, bare_queue__inbox,
         bare_queue__outbox
  <2>2. "poll" \in held => watching
    BY DEF Control, Common, Calls, SigThread, Creating, Destroying, Threads
  <2>3. CASE SigWake
    BY <2>3 DEF SigWake, PollInv, Alerted
  <2>4. CASE SigLock
    BY <2>0, <2>2, <2>4 DEF SigLock, PollInv, Alerted
  <2>5. CASE SigClose \/ SigExit
    BY <2>0, <2>1, <2>5 DEF SigClose, SigExit, PollInv, Alerted
  <2>6. QED
    BY <1>2, <2>3, <2>4, <2>5
<1>3. QED
  BY <1>1, <1>2 DEF OwnThread

\* Likewise on a dispatch queue.
LEMMA PollQueue ==
  ASSUME Control, Common, PollInv, OwnQueue
  PROVE  PollInv'
<1>. USE DEF queueVars, queueRest, sigVars, sigRest, ipcVars, ipcMem, pollVars, pollMem, ends
<1>1. ASSUME NEW t \in Threads, Cancel(t) PROVE PollInv'
  <2>1. held' = {}
    BY <1>1 DEF Cancel, Common, Calls, Creating, Destroying
  <2>2. QED
    BY <2>1, PollWoken
<1>2. CASE Event
  BY <1>2 DEF Event, PollInv, Alerted
<1>3. CASE Cancelled
  <2>1. UNCHANGED <<held, cb, events, op, told, wake, ready, ring, state, attached, pending>>
    BY <1>3 DEF Cancelled
  <2>2. IpcReady' = IpcReady
    BY <2>1 DEF IpcReady, bare_queue_readable, bare_queue_writable, bare_queue__inbox,
         bare_queue__outbox
  <2>3. QED
    BY <1>3, <2>1, <2>2 DEF Cancelled, PollInv, Alerted
<1>4. QED
  BY <1>1, <1>2, <1>3 DEF OwnQueue

\* Nor does a step that changes nothing.
LEMMA SamePoll ==
  ASSUME PollInv, UNCHANGED vars
  PROVE  PollInv'
BY DEF vars, queueVars, sigVars, ipcVars, ipcMem, pollVars, pollMem, ends, PollInv, Alerted,
       IpcReady, bare_queue_readable, bare_queue_writable, bare_queue__inbox, bare_queue__outbox

\* There is no poll at first.
LEMMA PollInit == Init => PollInv
BY DEF Init, PollInv

\* PollInv says what PollNotLost does.
LEMMA PollPromise == PollInv => PollNotLost
BY DEF PollInv, Alerted, PollNotLost, Signalling

\* A poll that is started is told of every event that is ready, or will be: a host that
\* reads once per callback does not stall (ipc.c:153-154).
THEOREM PollsAreNotLost == Spec => []PollNotLost
<1>1. BytesInv /\ PollInv /\ [Next]_vars => PollInv'
  BY PollShared, PollThread, SamePoll, ThreadSteps DEF BytesInv, IpcInv
<1>2. QED
  BY <1>1, BytesInvariant, PollInit, PollPromise, PTL DEF Spec

-----------------------------------------------------------------------------
(* The same on Apple platforms, and types *)

\* The dispatch queue moves no bytes.
LEMMA OwnQueueBytes ==
  ASSUME OwnQueue
  PROVE  UNCHANGED byteVars
BY DEF OwnQueue, Event, Cancelled, Cancel, byteVars, queueVars, queueRest, ipcVars, ipcMem, ends

\* The invariant with the bytes.
AppleBytesInv == HandlerInv /\ Data /\ Stream

\* The bytes are in order on Apple platforms, too (ipc.c, apple/ipc.m), ...
THEOREM AppleBytesInvariant == AppleSpec => []AppleBytesInv
<1>1. Init => AppleBytesInv
  BY HandlerInit, BytesInit DEF AppleBytesInv
<1>2. AppleBytesInv /\ [AppleNext]_vars => AppleBytesInv'
  <2>. SUFFICES ASSUME AppleBytesInv, [AppleNext]_vars PROVE AppleBytesInv'
    OBVIOUS
  <2>1. HandlerInv'
    BY HandlerStep DEF AppleBytesInv
  <2>2. Moves \/ UNCHANGED byteVars
    <3>1. CASE Shared
      BY <3>1, SharedMoves
    <3>2. CASE OwnQueue
      BY <3>2, OwnQueueBytes
    <3>3. CASE UNCHANGED vars
      BY <3>3 DEF vars, byteVars, queueVars, ipcVars, ipcMem, ends
    <3>4. QED
      BY <3>1, <3>2, <3>3, AppleSteps
  <2>3. Data' /\ Stream'
    BY <2>2, MovesStep, SameBytes DEF AppleBytesInv, HandlerInv
  <2>4. QED
    BY <2>1, <2>3 DEF AppleBytesInv
<1>3. QED
  BY <1>1, <1>2, PTL DEF AppleSpec

\* ... as BytesInOrder says: a handler that reads goes on where the last read stopped.
THEOREM AppleBytesAreInOrder == AppleSpec => []BytesInOrder
<1>1. AppleBytesInv => BytesInOrder
  BY BytesPromise DEF AppleBytesInv, HandlerInv
<1>2. QED
  BY <1>1, AppleBytesInvariant, PTL

\* A poll is not lost on Apple platforms, though a data source merges the wakeups that
\* come while its handler runs (apple/ipc.m).
THEOREM ApplePollsAreNotLost == AppleSpec => []PollNotLost
<1>1. AppleBytesInv /\ PollInv /\ [AppleNext]_vars => PollInv'
  BY PollShared, PollQueue, SamePoll, AppleSteps DEF AppleBytesInv, HandlerInv
<1>2. QED
  BY <1>1, AppleBytesInvariant, PollInit, PollPromise, PTL DEF AppleSpec

\* The types that no other part needs.
Rest ==
  /\ async \in {"none", "active", "closed"}
  /\ events \subseteq Events /\ ready \subseteq Events /\ told \subseteq Events
  /\ cb \in BOOLEAN /\ stopped \in BOOLEAN /\ starts \in Nat
  /\ signal \in {"none", "live", "freed"}
  /\ watching \in BOOLEAN /\ detached \in BOOLEAN

\* Every step keeps them.
LEMMA RestStep ==
  ASSUME Rest, Shared \/ OwnThread \/ OwnQueue
  PROVE  Rest'
<1>. USE DEF Rest, queueVars, queueRest, sigVars, sigRest, pollVars, pollMem
<1>1. CASE Worklet
  <2>1. UNCHANGED <<sigVars, pollVars>>
    BY <1>1, WorkletFrame
  <2>2. UNCHANGED async
    BY <1>1 DEF Worklet, WorkletWrite, WorkletRead, WorkletEnd, WorkletClose, WorkletDestroy,
         Free, bare_queue_write, bare_queue_read, bare_queue_end, bare_queue_close,
         bare_queue__advance,
         bare_queue_destroy, bare_queue__free
  <2>3. QED
    BY <2>1, <2>2
<1>2. CASE SharedHandler
  <2>1. UNCHANGED <<async, events, cb, stopped, starts, signal, watching, detached>>
    BY <1>2, HandlerFrame
  <2>2. ready' \subseteq Events /\ told' \subseteq Events
    BY <1>2 DEF SharedHandler, SigPoll, SigCb, SigEvents, SigReady, SigCall, SigReturn, SigUnlock
  <2>3. QED
    BY <2>1, <2>2
<1>3. CASE OwnThread
  <2>1. UNCHANGED <<async, ready, pollVars>>
    BY <1>3 DEF OwnThread, SigWake, SigLock, SigClose, SigExit, DestroySignal
  <2>2. /\ signal' \in {signal, "freed"} /\ watching' \in {watching, FALSE}
        /\ detached' \in {detached, TRUE}
    BY <1>3 DEF OwnThread, SigWake, SigLock, SigClose, SigExit, DestroySignal
  <2>3. QED
    BY <2>1, <2>2
<1>4. CASE OwnQueue
  BY <1>4 DEF OwnQueue, Event, Cancelled, Cancel
<1>5. CASE Create \/ CreateInit \/ DestroyJoin \/ PollCreate
  BY <1>5 DEF Create, CreateInit, DestroyJoin, PollCreate
<1>6. CASE CreateOpen
  <2>1. UNCHANGED <<async, sigVars, pollVars>>
    BY <1>6 DEF CreateOpen, bare_queue_open_thread
  <2>2. QED
    BY <2>1
<1>7. ASSUME NEW t \in Threads, Begin(t) PROVE Rest'
  <2>1. CASE Read(t) \/ Write(t)
    <3>1. UNCHANGED <<async, sigVars, pollMem, stopped, starts>> /\ told' \subseteq told
      BY <2>1 DEF Read, Write, bare_queue_read, bare_queue_write
    <3>2. QED
      BY <3>1
  <2>2. CASE HostEnd(t) \/ Close(t) \/ Destroy(t)
    <3>1. UNCHANGED <<async, sigVars, pollVars>>
      BY <2>2 DEF HostEnd, Close, Destroy, bare_ipc_close, bare_queue_end, bare_queue_close,
           bare_queue__advance
    <3>2. QED
      BY <3>1
  <2>3. CASE PollStop(t)
    BY <2>3 DEF PollStop
  <2>4. ASSUME NEW es \in SUBSET Events \ {{}}, PollStart(t, es) PROVE Rest'
    <3>1. /\ events' = es /\ told' = {} /\ stopped' = FALSE /\ starts' = starts + 1
          /\ UNCHANGED <<async, sigVars, cb>>
      BY <2>4 DEF PollStart
    <3>2. es \subseteq Events /\ {} \subseteq Events /\ starts + 1 \in Nat
      OBVIOUS
    <3>3. QED
      BY <3>1, <3>2
  <2>5. QED
    BY <1>7, <2>1, <2>2, <2>3, <2>4 DEF Begin
<1>8. ASSUME NEW t \in Threads, SharedContinue(t) PROVE Rest'
  <2>1. ASSUME NEW len \in 1 .. MaxMessage, ReadBytes(t, len) PROVE Rest'
    BY <2>1 DEF ReadBytes
  <2>2. CASE ReadNothing(t) \/ HostEndSignal(t) \/ CloseSignal(t) \/ DestroyClose(t)
             \/ PollStartSignal(t) \/ PollUnset(t) \/ PollFree(t)
    <3>1. UNCHANGED <<async, sigVars, events, cb, told, stopped, starts>>
      BY <2>2 DEF ReadNothing, HostEndSignal, CloseSignal, DestroyClose, PollStartSignal,
           PollUnset, PollFree, bare_ipc_close, bare_queue_close, bare_queue__advance
    <3>2. QED
      BY <3>1
  <2>3. CASE PollStartCb(t)
    BY <2>3 DEF PollStartCb
  <2>4. CASE PollStopCb(t)
    BY <2>4 DEF PollStopCb
  <2>5. QED
    BY <1>8, <2>1, <2>2, <2>3, <2>4 DEF SharedContinue
<1>9. QED
  BY <1>1, <1>2, <1>3, <1>4, <1>5, <1>6, <1>7, <1>8 DEF Shared

\* The variables of the ipc keep their types (ipc.c, standalone/ipc.c).
THEOREM TypeCorrect == Spec => []TypeOK
<1>1. Init => Rest
  <2>1. {} \subseteq Events /\ 0 \in Nat
    OBVIOUS
  <2>2. QED
    BY <2>1 DEF Init, Rest
<1>2. Rest /\ [Next]_vars => Rest'
  <2>1. Rest /\ UNCHANGED vars => Rest'
    BY DEF Rest, vars, queueVars, sigVars, sigRest, pollVars, pollMem
  <2>2. QED
    BY <2>1, RestStep, ThreadSteps
<1>3. BytesInv /\ Rest => TypeOK
  BY DEF BytesInv, IpcInv, Control, Data, Ring, Rest, TypeOK
<1>4. QED
  BY <1>1, <1>2, <1>3, BytesInvariant, PTL DEF Spec

=============================================================================
