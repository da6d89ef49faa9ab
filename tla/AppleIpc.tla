------------------------------ MODULE AppleIpc ------------------------------
(***************************************************************************)
(* The host end of the ipc on Apple platforms (src/src/apple/ipc.m): ipc.c *)
(* as in BareIpc, with a source on a serial dispatch queue for the signal  *)
(* thread.  What differs is how a dispatch begins, and how it is brought   *)
(* to an end.                                                              *)
(*                                                                         *)
(* The state of BareIpc is read as that of libdispatch, which is external: *)
(* sig is where the source's event handler is ("loop" while it does not    *)
(* run, "ended" once it is cancelled for good), wake["thread"] the data    *)
(* merged into the source, closing whether the source is cancelled, and    *)
(* running who occupies the queue, be it the handler or the block of a     *)
(* dispatch_sync.  watching and detached are not used.                     *)
(***************************************************************************)
EXTENDS BareIpc

\* The event handler begins, unless the source is cancelled.
Event ==
  /\ sig = "loop" /\ wake["thread"] /\ ~closing /\ running = "free"
  /\ wake' = [wake EXCEPT !["thread"] = FALSE]
  /\ running' = "signal"
  /\ sig' = "poll"
  /\ UNCHANGED <<queueRest, sigRest, ipcVars, pollVars, ends, ready, op>>

\* The source is cancelled for good, on its queue, and its cancel handler runs.
Cancelled ==
  /\ sig = "loop" /\ closing /\ running = "free"
  /\ sig' = "ended"
  /\ UNCHANGED <<queueVars, sigRest, ipcVars, pollVars, ends, running, ready, op>>

Handler ==
  \/ Event \/ SigPoll \/ SigCb \/ SigEvents \/ SigReady \/ SigCall \/ SigUnlock \/ Cancelled

\* Faulty: the cancellation is not waited for.
MutCancel(t) ==
  /\ op[t] \in {"destroy.signal", "create.fail"}
  /\ closing' = TRUE
  /\ Goto(t, "idle")
  /\ ipc' = "freed" /\ lock' = "none" /\ signal' = "freed"
  /\ UNCHANGED <<queueVars, pollVars, ends, running, watching, detached, sig, ready, attached,
                 pending, offset, linked>>

\* Faulty: the handler waits for the cancellation it is itself part of.
MutCancelWait(t) ==
  /\ op[t] \in {"destroy.signal", "create.fail"}
  /\ closing' = TRUE
  /\ Goto(t, IF op[t] = "create.fail" THEN "create.join" ELSE "destroy.join")
  /\ UNCHANGED <<queueVars, pollVars, ends, ipc, lock, signal, running, watching, detached, sig,
                 ready, attached, pending, offset, linked>>

\* bare_ipc__signal_destroy: the source is cancelled, and the cancellation waited
\* for (DestroyJoin), unless it is the handler that destroys the ipc.
Cancel(t) ==
  /\ closing' = TRUE
  /\ \/ /\ t = "signal" /\ op[t] = "destroy.signal"
        /\ Goto(t, "idle")
        /\ signal' = "freed" /\ ipc' = "freed" /\ lock' = "none"
     \/ /\ t = "host"
        /\ \/ op[t] = "destroy.signal" /\ Goto(t, "destroy.join")
           \/ op[t] = "create.fail" /\ Goto(t, "create.join")
        /\ UNCHANGED <<signal, ipc, lock>>
  /\ UNCHANGED <<queueVars, pollVars, ends, running, watching, detached, sig, ready, attached,
                 pending, offset, linked>>

\* The rest of a call of ipc.c.  bare_ipc__set_poll, in PollCreate and PollUnset,
\* is a dispatch_sync, or a plain call on the queue itself.
AppleContinue(t) ==
  \/ \E len \in 1 .. MaxMessage : ReadBytes(t, len)
  \/ ReadNothing(t) \/ HostEndSignal(t) \/ CloseSignal(t) \/ Cancel(t) \/ DestroyClose(t)
  \/ PollStartCb(t) \/ PollStartSignal(t) \/ PollStopCb(t) \/ PollUnset(t) \/ PollFree(t)

AppleNext ==
  \/ Worklet \/ Handler \/ SigReturn
  \/ Create \/ CreateOpen \/ CreateInit \/ DestroyJoin \/ PollCreate
  \/ \E t \in Threads : Begin(t) \/ AppleContinue(t)

AppleSpec == Init /\ [][AppleNext]_vars

-----------------------------------------------------------------------------
(* Properties *)

(***************************************************************************)
(* The event handler, which holds on to the ipc without owning it, is done *)
(* with the ipc and the poll, for good, before either is freed, though a   *)
(* handler that destroys the ipc goes on to return on a queue whose source *)
(* and memory it has released; and the worklet signals a source that is    *)
(* there (apple/ipc.m:25-29, 54-79).  A thread that is detached, and so    *)
(* there is none on a queue, frees its signal itself, later.               *)
(***************************************************************************)
HandlerOutlived ==
  /\ sig \in {"poll", "cb", "events", "ready"} => ipc = "live"
  /\ sig \in {"cb", "events", "call"} => poll = "live"
  /\ sig = "loop" /\ ~closing => ipc = "live" /\ signal = "live"
  /\ \A t \in Threads : op[t] # "idle" => ipc = "live" /\ signal = "live"
  /\ bare_queue__listening(state["thread"]) => ipc = "live" /\ signal = "live" /\ ~closing
  /\ ipc = "freed" => closing /\ (signal = "freed" \/ detached)

=============================================================================
