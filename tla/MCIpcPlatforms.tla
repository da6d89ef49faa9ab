--------------------------- MODULE MCIpcPlatforms ---------------------------
(***************************************************************************)
(* Both platforms' ipc for TLC: a signal thread (BareIpc) or a dispatch    *)
(* queue (AppleIpc), chosen at the start, with the fairness of each, which *)
(* is that of BareIpc: threads and queues run, and callbacks return.       *)
(*                                                                         *)
(* The host polls for writing alone.  Which event it is that leads to a    *)
(* callback makes no difference to destroying, and there is room to write  *)
(* without the worklet doing anything.                                     *)
(***************************************************************************)
EXTENDS AppleIpc

VARIABLE platform  \* "thread" or "queue"

On(p) == platform = p

PlatformNext ==
  /\ \/ On("thread") /\ Next
     \/ On("queue") /\ AppleNext
  /\ events' \subseteq {"writable"}
  /\ UNCHANGED platform

PlatformFairness ==
  /\ SF_vars(\/ On("thread") /\ SignalThread
             \/ On("queue") /\ Handler
             \/ SigReturn)
  /\ SF_vars(\/ On("thread") /\ Continue("signal")
             \/ On("queue") /\ AppleContinue("signal"))
  /\ SF_vars(\/ On("thread") /\ Continue("host")
             \/ On("queue") /\ AppleContinue("host")
             \/ CreateOpen \/ CreateInit \/ DestroyJoin)

PlatformSpec ==
  /\ Init /\ platform \in {"thread", "queue"}
  /\ [][PlatformNext]_<<vars, platform>>
  /\ PlatformFairness

=============================================================================
