------------------------------ MODULE IpcStream ------------------------------
(***************************************************************************)
(* Bare.IPC (class IPCStream of src/src/worklet.js), the worklet's stream  *)
(* over the queue of BareQueue, and how it keeps the worklet's loop alive: *)
(* through the wakeup handle, which it refs and unrefs.                    *)
(*                                                                         *)
(* QueueProtocol has both ends of the queue in every order of opening and  *)
(* closing; here both are open, and what matters is the life of the stream *)
(* and the length of what it writes.  A unit of length is INT_MAX bytes,   *)
(* the most that one call of bare_queue_write takes, so every message is   *)
(* one.  The stream library and the events of Bare are external.           *)
(***************************************************************************)
EXTENDS BareQueue

CONSTANTS
  MaxChunk,   \* bound on the length of a chunk, in calls of bare_queue_write
  MaxWrites   \* bound on the chunks the program writes and on the host's messages

ASSUME StreamBounds == MaxChunk \in Nat \ {0} /\ MaxWrites \in Nat

VARIABLES
  pendingWrite,  \* the rest of the chunk to be retried; 0 if there is none
  reading,       \* this._reading
  busy,          \* what the loop is in the middle of: "idle", "retry" or "drain"
  stream,        \* "open", "destroying" (or about to be) or "destroyed"
  eof,           \* whether the stream has read the end of it
  ending,        \* whether the program has ended the stream
  refd,          \* whether the wakeup handle keeps the loop running
  suspended,     \* whether the worklet is suspended
  loop,          \* "running" or "exited"
  writes,        \* writes[e]: chunks or messages that end e wrote
  failed         \* whether the stream was destroyed by the program or an error

streamVars == <<pendingWrite, reading, eof, ending, writes>>
loopVars   == <<refd, suspended, loop>>

vars == <<queueVars, streamVars, busy, stream, loopVars, failed>>

TypeOK ==
  /\ pendingWrite \in 0 .. MaxChunk
  /\ reading \in BOOLEAN /\ eof \in BOOLEAN /\ ending \in BOOLEAN /\ failed \in BOOLEAN
  /\ refd \in BOOLEAN /\ suspended \in BOOLEAN
  /\ busy \in {"idle", "retry", "drain"}
  /\ stream \in {"open", "destroying", "destroyed"}
  /\ loop \in {"running", "exited"}
  /\ writes \in [End -> 0 .. MaxWrites]

\* openIPC, and bare_ipc_create on the host.
Init ==
  /\ ring = [e \in End |-> [slots |-> [i \in Index |-> 0], head |-> 0, tail |-> 0]]
  /\ state = [e \in End |-> Open]
  /\ destroyed = FALSE /\ async = "active" /\ wake = [e \in End |-> FALSE]
  /\ freeing = 0 /\ freed = 0
  /\ pendingWrite = 0 /\ reading = FALSE /\ busy = "idle" /\ stream = "open"
  /\ eof = FALSE /\ ending = FALSE /\ refd = TRUE /\ suspended = FALSE
  /\ loop = "running" /\ writes = [e \in End |-> 0] /\ failed = FALSE

-----------------------------------------------------------------------------
(* The worklet's thread *)

InLoop == loop = "running" /\ busy = "idle"

\* A stream that fails is destroyed.
Fail(error) ==
  /\ failed' = (failed \/ error)
  /\ stream' = IF error /\ stream = "open" THEN "destroying" ELSE stream

\* _send of n units: one is taken, the rest kept for a signal; or all is kept; or
\* the write fails.
_send(n) ==
  /\ bare_queue_write("uv", 1)
  /\ pendingWrite' = CASE WriteResult("uv") = "ok" -> n - 1
                       [] WriteResult("uv") = "would_block" -> n
                       [] OTHER -> 0
  /\ Fail(WriteResult("uv") = "closed")

\* _write of a chunk, when the last one is through.
Write(n) ==
  /\ InLoop /\ stream = "open" /\ ~ending /\ pendingWrite = 0
  /\ writes["uv"] < MaxWrites
  /\ writes' = [writes EXCEPT !["uv"] = @ + 1]
  /\ _send(n)
  /\ UNCHANGED <<reading, busy, eof, ending, loopVars>>

\* _read.
Read ==
  /\ InLoop /\ stream = "open" /\ ~reading /\ ~eof
  /\ reading' = TRUE
  /\ busy' = "drain"
  /\ UNCHANGED <<queueVars, pendingWrite, stream, eof, ending, writes, loopVars, failed>>

\* A signal, to _onsignal: ...
Wake ==
  /\ InLoop /\ wake["uv"]
  /\ wake' = [wake EXCEPT !["uv"] = FALSE]
  /\ busy' = "retry"
  /\ UNCHANGED <<ring, state, destroyed, async, freeing, freed, streamVars, stream, loopVars,
                 failed>>

\* ... _retry ...
Retry ==
  /\ busy = "retry"
  /\ IF pendingWrite > 0 THEN _send(pendingWrite)
                         ELSE UNCHANGED <<queueVars, pendingWrite, failed, stream>>
  /\ busy' = IF reading THEN "drain" ELSE "idle"
  /\ UNCHANGED <<reading, eof, ending, writes, loopVars>>

\* ... and one read of _drain.
Drain ==
  /\ busy = "drain"
  /\ bare_queue_read("uv")
  /\ eof' = (eof \/ ReadResult("uv") = "eof")
  /\ \E full \in BOOLEAN :
       LET stop == ReadResult("uv") # "data" \/ full \/ stream # "open"
       IN  /\ busy' = IF stop THEN "idle" ELSE "drain"
           /\ reading' = (~stop \/ ReadResult("uv") = "would_block")
  /\ UNCHANGED <<pendingWrite, stream, ending, writes, loopVars, failed>>

\* The program ends the stream, ...
EndStream ==
  /\ InLoop /\ stream = "open" /\ ~ending
  /\ ending' = TRUE
  /\ UNCHANGED <<queueVars, pendingWrite, reading, busy, stream, eof, writes, loopVars, failed>>

\* ... which calls _final once pending writes have drained, ...
_final ==
  /\ InLoop /\ stream = "open" /\ ending /\ pendingWrite = 0 /\ state["uv"] = Open
  /\ bare_queue_end("uv")
  /\ UNCHANGED <<streamVars, busy, stream, loopVars, failed>>

\* ... and is destroyed once it is through both ways; or the program destroys it.
DestroyStream ==
  /\ InLoop /\ stream = "open"
  /\ stream' = "destroying"
  /\ failed' = (failed \/ ~(eof /\ state["uv"] = Ended))
  /\ UNCHANGED <<queueVars, streamVars, busy, loopVars>>

\* _destroy.
_destroy ==
  /\ InLoop /\ stream = "destroying"
  /\ stream' = "destroyed"
  /\ refd' = FALSE
  /\ UNCHANGED <<queueVars, streamVars, busy, suspended, loop, failed>>

Suspend ==
  /\ InLoop /\ ~suspended
  /\ suspended' = TRUE
  /\ refd' = FALSE
  /\ UNCHANGED <<queueVars, streamVars, busy, stream, loop, failed>>

\* Faulty: the loop is kept by a stream that is gone.
MutRef == TRUE

\* Faulty: the loop is not kept again.
MutRefNone == refd

\* ref.
ref == refd \/ stream = "open"

Resume ==
  /\ InLoop /\ suspended
  /\ suspended' = FALSE
  /\ refd' = ref
  /\ UNCHANGED <<queueVars, streamVars, busy, stream, loop, failed>>

\* The loop runs out of work, upon which bare_run returns and the end is closed;
\* a worklet that is suspended goes idle instead.
Exit ==
  /\ InLoop /\ ~refd /\ ~suspended
  /\ loop' = "exited"
  /\ bare_queue_close("uv")
  /\ UNCHANGED <<streamVars, busy, stream, refd, suspended, failed>>

-----------------------------------------------------------------------------
(* The host *)

HostRead ==
  /\ state["thread"] # Closed /\ ReadResult("thread") = "data"
  /\ bare_queue_read("thread")
  /\ UNCHANGED <<streamVars, busy, stream, loopVars, failed>>

HostWrite ==
  /\ state["thread"] = Open /\ writes["thread"] < MaxWrites
  /\ WriteResult("thread") = "ok"
  /\ bare_queue_write("thread", 1)
  /\ writes' = [writes EXCEPT !["thread"] = @ + 1]
  /\ UNCHANGED <<pendingWrite, reading, busy, stream, eof, ending, loopVars, failed>>

HostEnd ==
  /\ state["thread"] = Open
  /\ bare_queue_end("thread")
  /\ UNCHANGED <<streamVars, busy, stream, loopVars, failed>>

HostClose ==
  /\ state["thread"] # Closed
  /\ bare_queue_close("thread")
  /\ UNCHANGED <<streamVars, busy, stream, loopVars, failed>>

-----------------------------------------------------------------------------

Next ==
  \/ \E n \in 1 .. MaxChunk : Write(n)
  \/ Read \/ Wake \/ Retry \/ Drain \/ EndStream \/ _final \/ DestroyStream \/ _destroy
  \/ Suspend \/ Resume \/ Exit
  \/ HostRead \/ HostWrite \/ HostEnd \/ HostClose

(***************************************************************************)
(* The loop runs what there is to run, and a program that has read asks    *)
(* for more; the stream library finishes and destroys a stream that is     *)
(* through.  The host reads.  Nobody is assumed to write, end, suspend or  *)
(* resume.                                                                 *)
(***************************************************************************)
Fairness ==
  /\ SF_vars(Wake) /\ WF_vars(Retry) /\ WF_vars(Drain) /\ SF_vars(Read)
  /\ SF_vars(_final) /\ SF_vars(_destroy) /\ SF_vars(Exit)
  /\ SF_vars(DestroyStream /\ eof /\ state["uv"] = Ended)
  /\ WF_vars(HostRead)

Spec == Init /\ [][Next]_vars

FairSpec == Spec /\ Fairness

-----------------------------------------------------------------------------
(* Properties *)

(***************************************************************************)
(* "An open IPC keeps the worklet running until both the worklet and the   *)
(* host have ended their side of it, just like a pipe would" (README.md,   *)
(* Lifecycle), however often it is suspended and resumed in between,       *)
(* unless the program destroys the stream or a write fails; and it has     *)
(* then read and written all there was (worklet.js:76-108).                *)
(***************************************************************************)
OpenKeepsRunning ==
  [][loop' = "exited" /\ loop = "running" /\ ~failed =>
       /\ state["uv"] = Ended /\ state["thread"] >= Ended
       /\ eof /\ pendingWrite = 0 /\ bare_queue__ring_empty(ring["uv"])]_vars

\* "Lets the worklet exit once both ends are done" (worklet.js:77-78): a worklet
\* that has ended its side exits once the host has, unless it stays suspended.
ExitsOnceDone ==
  (ending /\ state["thread"] >= Ended) ~> (loop = "exited" \/ suspended)

\* "Callers write the rest" (queue.c:181) of what bare_queue_write does not take: a
\* write that was begun is through in the end, as the host reads.
RestIsWritten ==
  (pendingWrite > 0 /\ stream = "open") ~> (pendingWrite = 0 \/ stream # "open")

=============================================================================
