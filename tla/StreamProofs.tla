---------------------------- MODULE StreamProofs ----------------------------
(***************************************************************************)
(* What IpcStream guarantees for rings of every capacity, chunks of every  *)
(* length and any number of them, proved: an open stream keeps its loop    *)
(* running until both ends are through, and nothing is then left unread or *)
(* unwritten.                                                              *)
(*                                                                         *)
(* The step that ends the loop finds only that nothing refs it.  Why that  *)
(* means that the stream is through is a chain over the steps before:      *)
(* suspend, resume and _destroy on one side (Life), the queue and the      *)
(* stream's own state on the other (Through).                              *)
(***************************************************************************)
EXTENDS IpcStream, TLAPS

USE CapacityAssumption, StreamBounds DEF Idle, Open, Ended, Closed, States, End, Peer

-----------------------------------------------------------------------------
(* The inductive invariant *)

\* What the queue is, of both ends.
QueueType == state \in [End -> States] /\ DOMAIN ring = End

\* A loop that nothing refs, and that is not suspended, has no open stream; and a
\* stream is not destroyed before it is through, unless it has failed.
Life ==
  /\ ~refd /\ ~suspended => stream # "open"
  /\ loop = "running" /\ stream # "open" /\ ~failed => eof /\ state["uv"] = Ended
  /\ loop = "running" => state["uv"] \in {Open, Ended}

\* A stream that is through has read all that the host will write, and one that
\* has ended has written all that it will.
Through ==
  /\ eof => state["thread"] >= Ended /\ bare_queue__ring_empty(ring["uv"])
  /\ state["uv"] = Ended => ending /\ pendingWrite = 0

StreamInv == QueueType /\ TypeOK /\ Life /\ Through

\* A stream starts open, at both ends.
LEMMA InitHolds == Init => StreamInv
<1> SUFFICES ASSUME Init PROVE StreamInv
  OBVIOUS
<1>1. QueueType
  BY DEF Init, QueueType
<1>2. TypeOK
  <2>1. writes \in [End -> 0 .. MaxWrites] /\ pendingWrite \in 0 .. MaxChunk
    BY DEF Init
  <2>2. QED
    BY <2>1 DEF Init, TypeOK
<1>3. Life /\ Through
  BY DEF Init, Life, Through
<1>4. QED
  BY <1>1, <1>2, <1>3 DEF StreamInv

-----------------------------------------------------------------------------
(* The queue *)

\* What an end writes goes into the ring of the other, and nowhere if that is closed.
LEMMA WriteFrame ==
  ASSUME QueueType, NEW e \in End, NEW m, bare_queue_write(e, m)
  PROVE  /\ QueueType' /\ state' = state
         /\ ring'[e] = ring[e]
<1>1. /\ state' = state
      /\ \/ ring' = ring
         \/ ring' = [ring EXCEPT ![Peer(e)] = bare_queue__ring_push(@, m)]
  BY DEF bare_queue_write
<1>2. QED
  BY <1>1 DEF QueueType

\* Reading takes from the reader's ring, and nothing from one that is empty.
LEMMA ReadFrame ==
  ASSUME QueueType, NEW e \in End, bare_queue_read(e)
  PROVE  /\ QueueType' /\ state' = state
         /\ ring'[Peer(e)] = ring[Peer(e)]
         /\ ReadResult(e) # "data" => ring' = ring
<1>1. /\ state' = state
      /\ IF ReadResult(e) = "data" THEN ring' = [ring EXCEPT ![e] = bare_queue__ring_shift(@)]
                                   ELSE ring' = ring
  BY DEF bare_queue_read
<1>2. QED
  BY <1>1 DEF QueueType

\* Ending or closing moves an end forward, and leaves the other and the rings alone.
LEMMA AdvanceFrame ==
  ASSUME QueueType, NEW e \in End, NEW s \in States, bare_queue__advance(e, s)
  PROVE  /\ QueueType' /\ ring' = ring
         /\ state'[Peer(e)] = state[Peer(e)]
         /\ state'[e] = IF state[e] < s THEN s ELSE state[e]
<1>1. ring' = ring /\ state' = [state EXCEPT ![e] = IF @ < s THEN s ELSE @]
  BY DEF bare_queue__advance
<1>2. QED
  BY <1>1 DEF QueueType

-----------------------------------------------------------------------------
(* Steps *)

\* A write, first or retried: a stream that it fails is destroyed, as failed.
LEMMA SendStep ==
  ASSUME StreamInv, NEW n \in 1 .. MaxChunk, _send(n), ~ending \/ pendingWrite > 0
  PROVE  /\ QueueType' /\ state' = state /\ ring'["uv"] = ring["uv"] /\ state["uv"] # Ended
         /\ pendingWrite' \in 0 .. MaxChunk /\ failed' \in BOOLEAN
         /\ \/ failed' = failed /\ stream' = stream
            \/ failed' = TRUE /\ stream' = IF stream = "open" THEN "destroying" ELSE stream
<1>1. QueueType' /\ state' = state /\ ring'["uv"] = ring["uv"]
  BY WriteFrame DEF StreamInv, _send
<1>2. state["uv"] # Ended
  BY DEF StreamInv, Through
<1>3. pendingWrite' \in 0 .. MaxChunk
  BY DEF _send
<1>4. /\ failed' \in BOOLEAN
      /\ \/ failed' = failed /\ stream' = stream
         \/ failed' = TRUE /\ stream' = IF stream = "open" THEN "destroying" ELSE stream
  <2>1. CASE WriteResult("uv") = "closed"
    BY <2>1 DEF _send, Fail, StreamInv, TypeOK
  <2>2. CASE WriteResult("uv") # "closed"
    BY <2>2 DEF _send, Fail, StreamInv, TypeOK
  <2>3. QED
    BY <2>1, <2>2
<1>5. QED
  BY <1>1, <1>2, <1>3, <1>4

\* The steps of the worklet's thread that use the queue.
LEMMA QueueSteps ==
  ASSUME StreamInv, NEW n \in 1 .. MaxChunk, Write(n) \/ Retry \/ Drain \/ _final \/ Exit
  PROVE  StreamInv'
<1> USE DEF StreamInv
<1>1. CASE Write(n)
  <2>1. /\ QueueType' /\ state' = state /\ ring'["uv"] = ring["uv"] /\ state["uv"] # Ended
        /\ pendingWrite' \in 0 .. MaxChunk /\ failed' \in BOOLEAN
        /\ \/ failed' = failed /\ stream' = stream
           \/ failed' = TRUE /\ stream' = IF stream = "open" THEN "destroying" ELSE stream
    BY <1>1, SendStep DEF Write
  <2>2. TypeOK'
    BY <1>1, <2>1 DEF Write, TypeOK, loopVars
  <2>3. Life' /\ Through'
    BY <1>1, <2>1 DEF Write, Life, Through, loopVars, TypeOK, bare_queue__ring_empty
  <2>4. QED
    BY <2>1, <2>2, <2>3
<1>2. CASE Retry /\ pendingWrite > 0
  <2>1. /\ QueueType' /\ state' = state /\ ring'["uv"] = ring["uv"] /\ state["uv"] # Ended
        /\ pendingWrite' \in 0 .. MaxChunk /\ failed' \in BOOLEAN
        /\ \/ failed' = failed /\ stream' = stream
           \/ failed' = TRUE /\ stream' = IF stream = "open" THEN "destroying" ELSE stream
    <3>1. pendingWrite \in 1 .. MaxChunk /\ _send(pendingWrite)
      BY <1>2 DEF Retry, TypeOK
    <3>2. QED
      BY <1>2, <3>1, SendStep
  <2>2. TypeOK'
    BY <1>2, <2>1 DEF Retry, TypeOK, loopVars
  <2>3. Life' /\ Through'
    BY <1>2, <2>1 DEF Retry, Life, Through, loopVars, TypeOK, bare_queue__ring_empty
  <2>4. QED
    BY <2>1, <2>2, <2>3
<1>3. CASE Retry /\ ~(pendingWrite > 0)
  BY <1>3 DEF Retry, QueueType, TypeOK, Life, Through, loopVars, queueVars
<1>4. CASE Drain
  <2>1. /\ QueueType' /\ state' = state
        /\ ReadResult("uv") # "data" => ring' = ring
    BY <1>4, ReadFrame DEF Drain
  <2>2. ReadResult("uv") = "data" => ~bare_queue__ring_empty(ring["uv"])
    BY DEF ReadResult, bare_queue__inbox
  <2>3. ReadResult("uv") = "eof" => /\ bare_queue__ring_empty(ring["uv"])
                                    /\ state["thread"] >= Ended
    BY DEF ReadResult, bare_queue__inbox
  <2>4. TypeOK'
    BY <1>4 DEF Drain, TypeOK, loopVars
  <2>5. Life'
    BY <1>4, <2>1 DEF Drain, Life, loopVars, TypeOK
  <2>6. Through'
    BY <1>4, <2>1, <2>2, <2>3 DEF Drain, Through, TypeOK
  <2>7. QED
    BY <2>1, <2>4, <2>5, <2>6
<1>5. CASE _final
  <2>1. /\ QueueType' /\ ring' = ring /\ state'["thread"] = state["thread"]
        /\ state'["uv"] = Ended
    BY <1>5, AdvanceFrame DEF _final, bare_queue_end
  <2>2. QED
    BY <1>5, <2>1 DEF _final, TypeOK, Life, Through, streamVars, loopVars
<1>6. CASE Exit
  <2>1. /\ QueueType' /\ ring' = ring /\ state'["thread"] = state["thread"]
        /\ state'["uv"] = Closed
    BY <1>6, AdvanceFrame DEF Exit, bare_queue_close, QueueType
  <2>2. QED
    BY <1>6, <2>1 DEF Exit, TypeOK, Life, Through, streamVars
<1>7. QED
  BY <1>1, <1>2, <1>3, <1>4, <1>5, <1>6

\* Those that do not.
LEMMA LoopSteps ==
  ASSUME StreamInv,
         \/ Read \/ Wake \/ EndStream \/ DestroyStream \/ _destroy \/ Suspend \/ Resume
         \/ UNCHANGED vars
  PROVE  StreamInv'
<1> USE DEF StreamInv, QueueType, TypeOK, Life, Through, streamVars, loopVars, queueVars
<1>1. CASE Read
  BY <1>1 DEF Read
<1>2. CASE Wake
  BY <1>2 DEF Wake
<1>3. CASE EndStream
  BY <1>3 DEF EndStream
<1>4. CASE DestroyStream
  BY <1>4 DEF DestroyStream
<1>5. CASE _destroy
  BY <1>5 DEF _destroy
<1>6. CASE Suspend
  BY <1>6 DEF Suspend
<1>7. CASE Resume
  BY <1>7 DEF Resume, ref
<1>8. CASE UNCHANGED vars
  BY <1>8 DEF vars
<1>9. QED
  BY <1>1, <1>2, <1>3, <1>4, <1>5, <1>6, <1>7, <1>8

\* The host's: it writes nothing once it has ended.
LEMMA HostSteps ==
  ASSUME StreamInv, HostRead \/ HostWrite \/ HostEnd \/ HostClose
  PROVE  StreamInv'
<1> USE DEF StreamInv, streamVars, loopVars
<1>1. CASE HostRead
  <2>1. QueueType' /\ state' = state /\ ring'["uv"] = ring["uv"]
    BY <1>1, ReadFrame DEF HostRead
  <2>2. QED
    BY <1>1, <2>1 DEF HostRead, TypeOK, Life, Through
<1>2. CASE HostWrite
  <2>1. QueueType' /\ state' = state
    BY <1>2, WriteFrame DEF HostWrite
  <2>2. ~eof
    BY <1>2 DEF HostWrite, Through
  <2>3. QED
    BY <1>2, <2>1, <2>2 DEF HostWrite, TypeOK, Life, Through
<1>3. CASE HostEnd \/ HostClose
  <2>1. /\ QueueType' /\ ring' = ring /\ state'["uv"] = state["uv"]
        /\ state'["thread"] >= Ended
    BY <1>3, AdvanceFrame DEF HostEnd, HostClose, bare_queue_end, bare_queue_close, QueueType
  <2>2. UNCHANGED <<streamVars, busy, stream, loopVars, failed>>
    BY <1>3 DEF HostEnd, HostClose
  <2>3. QED
    BY <2>1, <2>2 DEF TypeOK, Life, Through
<1>4. QED
  BY <1>1, <1>2, <1>3

\* The invariant holds in every reachable state.
LEMMA Invariance == Spec => []StreamInv
<1>1. StreamInv /\ [Next]_vars => StreamInv'
  <2> SUFFICES ASSUME StreamInv, [Next]_vars PROVE StreamInv'
    OBVIOUS
  <2>1. 1 \in 1 .. MaxChunk
    OBVIOUS
  <2>2. QED
    BY <2>1, QueueSteps, LoopSteps, HostSteps DEF Next
<1>2. QED
  BY <1>1, InitHolds, PTL DEF Spec

-----------------------------------------------------------------------------

\* The variables of the stream keep their types.
THEOREM StreamTypes == Spec => []TypeOK
<1>1. StreamInv => TypeOK
  BY DEF StreamInv
<1>2. QED
  BY <1>1, Invariance, PTL

\* "An open IPC keeps the worklet running until both the worklet and the host have
\* ended their side of it" (README.md, Lifecycle; worklet.js:76-108), whatever it
\* writes and reads and however often it is suspended and resumed: the loop ends
\* with all read and written, unless the stream was destroyed or has failed.
THEOREM OpenStreamKeepsRunning == Spec => OpenKeepsRunning
<1> DEFINE Done ==
      loop' = "exited" /\ loop = "running" /\ ~failed =>
        /\ state["uv"] = Ended /\ state["thread"] >= Ended
        /\ eof /\ pendingWrite = 0 /\ bare_queue__ring_empty(ring["uv"])
<1>1. StreamInv /\ [Next]_vars => [Done]_vars
  <2> SUFFICES ASSUME StreamInv, Next, loop' = "exited", loop = "running", ~failed
               PROVE  /\ state["uv"] = Ended /\ state["thread"] >= Ended
                      /\ eof /\ pendingWrite = 0 /\ bare_queue__ring_empty(ring["uv"])
    OBVIOUS
  <2>1. Exit
    BY DEF Next, Write, Read, Wake, Retry, Drain, EndStream, _final, DestroyStream, _destroy,
           Suspend, Resume, HostRead, HostWrite, HostEnd, HostClose, loopVars
  <2>2. QED
    BY <2>1 DEF Exit, StreamInv, Life, Through
<1>2. QED
  BY <1>1, Invariance, PTL DEF Spec, OpenKeepsRunning

=============================================================================
