------------------------------- MODULE Worklet -------------------------------
(***************************************************************************)
(* The life of the worklets of a process (src/src/worklet.c): how the host *)
(* creates, starts, terminates and destroys them, how each one's thread    *)
(* sets up, runs and tears down its runtime, and how bare_worklet_teardown *)
(* waits for all of them before it takes away the platform they share.     *)
(*                                                                         *)
(* The queue of a worklet is left to QueueProtocol.  The runtime (Bare) is *)
(* external: bare_run returns whenever the program is done, and does so    *)
(* for certain once bare_terminate was called.                             *)
(***************************************************************************)
EXTENDS Integers, FiniteSets

CONSTANT Worklets

ASSUME WorkletsAssumption == IsFiniteSet(Worklets)

VARIABLES
  worklet,      \* memory of the bare_worklet_t: "none", "live" or "freed"
  state,        \* memory of its bare_worklet_state_t
  host,         \* the host's call on a worklet, below
  thread,       \* where the worklet's thread is, below
  bare,         \* whether state->bare is not NULL
  terminating,  \* whether bare_terminate was called on the runtime
  finished,     \* the semaphore worklet->finished
  exits,        \* how often the exit callback was called
  running,      \* bare_worklet__running
  torn_down,    \* bare_worklet__torn_down
  teardown,     \* where bare_worklet_teardown is, below
  platform      \* bare_worklet__platform: "none", "starting", "ready" or "gone"

perWorklet == <<worklet, state, host, thread, bare, terminating, finished, exits>>
shared     == <<running, torn_down, teardown, platform>>
vars       == <<perWorklet, shared>>

(***************************************************************************)
(* The thread: not there; awaiting the platform; about to publish its      *)
(* semaphore; about to publish its runtime; at the barrier; in bare_run;   *)
(* about to withdraw the runtime; about to tear it down; about to call the *)
(* exit callback; about to stop counting as running; awaiting the          *)
(* semaphore; about to free its state; gone.                               *)
(***************************************************************************)
Thread == {"none", "once", "init", "setup", "ready", "run", "clear", "teardown", "exit",
           "stopped", "wait", "free", "gone"}

\* The stages in which the thread has a runtime, on the platform.
Live == {"setup", "ready", "run", "clear", "teardown"}

\* The stages in which a worklet counts as running.
Counted == {"once", "init"} \cup Live \cup {"exit", "stopped"}

\* The host is in bare_worklet_start, before it has a thread or at the barrier, or
\* in bare_worklet_destroy, having terminated the worklet.
Host == {"idle", "create", "barrier", "post"}

Teardown == {"idle", "check", "waiting", "shutdown", "join", "done"}

TypeOK ==
  /\ worklet \in [Worklets -> {"none", "live", "freed"}]
  /\ state \in [Worklets -> {"none", "live", "freed"}]
  /\ host \in [Worklets -> Host]
  /\ thread \in [Worklets -> Thread]
  /\ bare \in [Worklets -> BOOLEAN]
  /\ terminating \in [Worklets -> BOOLEAN]
  /\ finished \in [Worklets -> {"none", "zero", "posted"}]
  /\ exits \in [Worklets -> Nat]
  /\ running \in Nat
  /\ torn_down \in BOOLEAN
  /\ teardown \in Teardown
  /\ platform \in {"none", "starting", "ready", "gone"}

Init ==
  /\ worklet = [w \in Worklets |-> "none"]
  /\ state = [w \in Worklets |-> "none"]
  /\ host = [w \in Worklets |-> "idle"]
  /\ thread = [w \in Worklets |-> "none"]
  /\ bare = [w \in Worklets |-> FALSE]
  /\ terminating = [w \in Worklets |-> FALSE]
  /\ finished = [w \in Worklets |-> "none"]
  /\ exits = [w \in Worklets |-> 0]
  /\ running = 0
  /\ torn_down = FALSE
  /\ teardown = "idle"
  /\ platform = "none"

-----------------------------------------------------------------------------
(* The host *)

\* bare_worklet_create.
Create(w) ==
  /\ worklet[w] = "none"
  /\ worklet' = [worklet EXCEPT ![w] = "live"]
  /\ state' = [state EXCEPT ![w] = "live"]
  /\ UNCHANGED <<host, thread, bare, terminating, finished, exits, shared>>

\* Start, had it not counted the worklet.
MutStart(w) ==
  /\ worklet[w] = "live" /\ host[w] = "idle" /\ thread[w] = "none" /\ ~torn_down
  /\ host' = [host EXCEPT ![w] = "create"]
  /\ UNCHANGED <<worklet, state, thread, bare, terminating, finished, exits, shared>>

\* bare_worklet_start: counts as running from here, or fails.
Start(w) ==
  /\ worklet[w] = "live" /\ host[w] = "idle" /\ thread[w] = "none" /\ ~torn_down
  /\ running' = running + 1
  /\ host' = [host EXCEPT ![w] = "create"]
  /\ UNCHANGED <<worklet, state, thread, bare, terminating, finished, exits, torn_down,
                 teardown, platform>>

\* The thread is created, ...
StartThread(w) ==
  /\ host[w] = "create"
  /\ thread' = [thread EXCEPT ![w] = "once"]
  /\ host' = [host EXCEPT ![w] = "barrier"]
  /\ UNCHANGED <<worklet, state, bare, terminating, finished, exits, shared>>

\* bare_worklet__on_stopped, had it not signalled the condition.
MutOnStopped ==
  /\ running' = running - 1
  /\ UNCHANGED <<torn_down, teardown, platform>>

\* bare_worklet__on_stopped: the last one to stop signals whoever tears down.
bare_worklet__on_stopped ==
  /\ running' = running - 1
  /\ teardown' = IF running = 1 /\ teardown = "waiting" THEN "check" ELSE teardown
  /\ UNCHANGED <<torn_down, platform>>

\* StartFails, had it left the worklet counted.
MutStartFails(w) ==
  /\ host[w] = "create"
  /\ host' = [host EXCEPT ![w] = "idle"]
  /\ UNCHANGED <<worklet, state, thread, bare, terminating, finished, exits, shared>>

\* ... or cannot be.
StartFails(w) ==
  /\ host[w] = "create"
  /\ host' = [host EXCEPT ![w] = "idle"]
  /\ bare_worklet__on_stopped
  /\ UNCHANGED <<worklet, state, thread, bare, terminating, finished, exits>>

\* The host and the thread meet at the barrier, and start returns.
Barrier(w) ==
  /\ host[w] = "barrier" /\ thread[w] = "ready"
  /\ host' = [host EXCEPT ![w] = "idle"]
  /\ thread' = [thread EXCEPT ![w] = "run"]
  /\ UNCHANGED <<worklet, state, bare, terminating, finished, exits, shared>>

\* Terminated, had it tested for the runtime the wrong way round.
MutTerminated(w) == [terminating EXCEPT ![w] = @ \/ ~bare[w]]

\* bare_terminate, if there is a runtime to terminate.
Terminated(w) == [terminating EXCEPT ![w] = @ \/ bare[w]]

\* bare_worklet_terminate, safe from any thread, in the middle of start as well.
Terminate(w) ==
  /\ worklet[w] = "live" /\ host[w] # "post"
  /\ terminating' = Terminated(w)
  /\ UNCHANGED <<worklet, state, host, thread, bare, finished, exits, shared>>

\* bare_worklet_destroy of a worklet that was started: terminated, ...
DestroyStarted(w) ==
  /\ worklet[w] = "live" /\ host[w] = "idle" /\ thread[w] # "none"
  /\ terminating' = Terminated(w)
  /\ host' = [host EXCEPT ![w] = "post"]
  /\ UNCHANGED <<worklet, state, thread, bare, finished, exits, shared>>

\* ... and handed over to its thread.
DestroyPost(w) ==
  /\ host[w] = "post"
  /\ finished' = [finished EXCEPT ![w] = "posted"]
  /\ worklet' = [worklet EXCEPT ![w] = "freed"]
  /\ host' = [host EXCEPT ![w] = "idle"]
  /\ UNCHANGED <<state, thread, bare, terminating, exits, shared>>

\* bare_worklet_destroy of a worklet that has no thread.
DestroyUnstarted(w) ==
  /\ worklet[w] = "live" /\ host[w] = "idle" /\ thread[w] = "none"
  /\ worklet' = [worklet EXCEPT ![w] = "freed"]
  /\ state' = [state EXCEPT ![w] = "freed"]
  /\ UNCHANGED <<host, thread, bare, terminating, finished, exits, shared>>

-----------------------------------------------------------------------------
(* The worklet's thread, bare_worklet__on_thread *)

Goto(w, s) == thread' = [thread EXCEPT ![w] = s]

\* The first thread has the platform created, on a thread of its own; uv_once
\* makes every other one wait for it, too.
PlatformInit(w) ==
  /\ thread[w] = "once" /\ platform = "none"
  /\ platform' = "starting"
  /\ UNCHANGED <<perWorklet, running, torn_down, teardown>>

PlatformReady ==
  /\ platform = "starting"
  /\ platform' = "ready"
  /\ UNCHANGED <<perWorklet, running, torn_down, teardown>>

\* ThreadOnce, had it not waited for a platform another thread is creating.
MutThreadOnce(w) ==
  /\ thread[w] = "once" /\ platform # "none"
  /\ Goto(w, "init")
  /\ UNCHANGED <<worklet, state, host, bare, terminating, finished, exits, shared>>

\* The platform is there, and the thread goes on.
ThreadOnce(w) ==
  /\ thread[w] = "once" /\ platform \notin {"none", "starting"}
  /\ Goto(w, "init")
  /\ UNCHANGED <<worklet, state, host, bare, terminating, finished, exits, shared>>

\* The semaphore, on the thread's stack, is published to the host.
ThreadInit(w) ==
  /\ thread[w] = "init"
  /\ finished' = [finished EXCEPT ![w] = "zero"]
  /\ Goto(w, "setup")
  /\ UNCHANGED <<worklet, state, host, bare, terminating, exits, shared>>

\* So is the runtime, under the lock; the worklet's end of the queue is opened.
ThreadSetup(w) ==
  /\ thread[w] = "setup"
  /\ bare' = [bare EXCEPT ![w] = TRUE]
  /\ Goto(w, "ready")
  /\ UNCHANGED <<worklet, state, host, terminating, finished, exits, shared>>

\* bare_run returns; the end of the queue is closed.
ThreadRun(w) ==
  /\ thread[w] = "run"
  /\ Goto(w, "clear")
  /\ UNCHANGED <<worklet, state, host, bare, terminating, finished, exits, shared>>

\* ThreadClear, had it left the runtime to the host.
MutThreadClear(w) ==
  /\ thread[w] = "clear"
  /\ Goto(w, "teardown")
  /\ UNCHANGED <<worklet, state, host, bare, terminating, finished, exits, shared>>

\* Under the lock: the host no longer reaches the runtime, ...
ThreadClear(w) ==
  /\ thread[w] = "clear"
  /\ bare' = [bare EXCEPT ![w] = FALSE]
  /\ Goto(w, "teardown")
  /\ UNCHANGED <<worklet, state, host, terminating, finished, exits, shared>>

\* ... which is torn down.
ThreadTeardown(w) ==
  /\ thread[w] = "teardown"
  /\ Goto(w, "exit")
  /\ UNCHANGED <<worklet, state, host, bare, terminating, finished, exits, shared>>

ThreadExit(w) ==
  /\ thread[w] = "exit"
  /\ exits' = [exits EXCEPT ![w] = @ + 1]
  /\ Goto(w, "stopped")
  /\ UNCHANGED <<worklet, state, host, bare, terminating, finished, shared>>

ThreadStopped(w) ==
  /\ thread[w] = "stopped"
  /\ bare_worklet__on_stopped
  /\ Goto(w, "wait")
  /\ UNCHANGED <<worklet, state, host, bare, terminating, finished, exits>>

\* The host may still use the worklet until it destroys it.
ThreadWait(w) ==
  /\ thread[w] = "wait" /\ finished[w] = "posted"
  /\ Goto(w, "free")
  /\ UNCHANGED <<worklet, state, host, bare, terminating, finished, exits, shared>>

ThreadFree(w) ==
  /\ thread[w] = "free"
  /\ state' = [state EXCEPT ![w] = "freed"]
  /\ Goto(w, "gone")
  /\ UNCHANGED <<worklet, host, bare, terminating, finished, exits, shared>>

-----------------------------------------------------------------------------
(* bare_worklet_teardown, which is called at most once *)

TeardownBegin ==
  /\ teardown = "idle"
  /\ torn_down' = TRUE
  /\ teardown' = "check"
  /\ UNCHANGED <<perWorklet, running, platform>>

\* TeardownCheck, had it waited for all but one.
MutTeardownCheck ==
  /\ teardown = "check"
  /\ teardown' = IF running > 1 THEN "waiting" ELSE "shutdown"
  /\ UNCHANGED <<perWorklet, running, torn_down, platform>>

\* Under the lock: waits on the condition while a worklet is running.
TeardownCheck ==
  /\ teardown = "check"
  /\ teardown' = IF running > 0 THEN "waiting" ELSE "shutdown"
  /\ UNCHANGED <<perWorklet, running, torn_down, platform>>

\* A condition may be woken for no reason.
TeardownSpurious ==
  /\ teardown = "waiting"
  /\ teardown' = "check"
  /\ UNCHANGED <<perWorklet, running, torn_down, platform>>

\* The platform, if there is one, is told to shut down, ...
TeardownShutdown ==
  /\ teardown = "shutdown"
  /\ teardown' = IF platform = "none" THEN "done" ELSE "join"
  /\ UNCHANGED <<perWorklet, running, torn_down, platform>>

\* ... upon which its thread leaves the loop and destroys it, ...
PlatformShutdown ==
  /\ teardown = "join" /\ platform = "ready"
  /\ platform' = "gone"
  /\ UNCHANGED <<perWorklet, running, torn_down, teardown>>

\* ... and is waited for.
TeardownJoin ==
  /\ teardown = "join" /\ platform = "gone"
  /\ teardown' = "done"
  /\ UNCHANGED <<perWorklet, running, torn_down, platform>>

-----------------------------------------------------------------------------
(* The specification *)

HostStep(w) ==
  \/ Create(w) \/ Start(w) \/ StartThread(w) \/ StartFails(w) \/ Barrier(w)
  \/ Terminate(w) \/ DestroyStarted(w) \/ DestroyPost(w) \/ DestroyUnstarted(w)

ThreadStep(w) ==
  \/ PlatformInit(w) \/ ThreadOnce(w) \/ ThreadInit(w) \/ ThreadSetup(w) \/ ThreadRun(w)
  \/ ThreadClear(w) \/ ThreadTeardown(w) \/ ThreadExit(w) \/ ThreadStopped(w)
  \/ ThreadWait(w) \/ ThreadFree(w)

TeardownStep ==
  TeardownBegin \/ TeardownCheck \/ TeardownSpurious \/ TeardownShutdown \/ TeardownJoin

Next ==
  \/ \E w \in Worklets : HostStep(w) \/ ThreadStep(w)
  \/ PlatformReady \/ PlatformShutdown
  \/ TeardownStep

Spec == Init /\ [][Next]_vars

(***************************************************************************)
(* Threads that can go on do, and so do calls that were made.  No call of  *)
(* the host is certain, nor is that a program ends unless it is            *)
(* terminated, nor is a spurious wakeup.                                   *)
(***************************************************************************)
Fairness ==
  /\ \A w \in Worklets :
       /\ WF_vars(StartThread(w) \/ StartFails(w))
       /\ WF_vars(Barrier(w))
       /\ WF_vars(DestroyPost(w))
       /\ WF_vars(ThreadStep(w) /\ (thread[w] = "run" => terminating[w]))
  /\ WF_vars(PlatformReady) /\ WF_vars(PlatformShutdown)
  /\ WF_vars(TeardownCheck \/ TeardownShutdown \/ TeardownJoin)

FairSpec == Spec /\ Fairness

-----------------------------------------------------------------------------
(* Properties *)

\* The stages in which the thread reads the bare_worklet_t.
ReadsWorklet == {"once", "init", "setup", "ready"}

\* The stages in which its semaphore can be posted.
HasSemaphore == {"setup", "ready", "run", "clear", "teardown", "exit", "stopped", "wait"}

(***************************************************************************)
(* Neither side uses what the other has freed, though bare_worklet_destroy *)
(* frees the worklet without waiting for its thread, and the thread frees  *)
(* the state: the thread reads the worklet only until start returns, the   *)
(* host finds worklet, state and semaphore in place in every call it is    *)
(* in, and state->bare never points to a runtime being torn down.          *)
(***************************************************************************)
MemorySafe ==
  \A w \in Worklets :
    /\ thread[w] \in ReadsWorklet => worklet[w] = "live"
    /\ thread[w] \notin {"none", "gone"} => state[w] = "live"
    /\ host[w] # "idle" => worklet[w] = "live" /\ state[w] = "live"
    /\ host[w] = "post" => finished[w] = "zero" /\ thread[w] \in HasSemaphore
    /\ bare[w] => thread[w] \in {"ready", "run", "clear"}

(***************************************************************************)
(* A worklet's runtime has its platform from the first use to the last:    *)
(* bare_setup finds it created, and bare_worklet_teardown does not take it *)
(* away under bare_run or bare_teardown.                                   *)
(***************************************************************************)
PlatformAlive ==
  \A w \in Worklets : thread[w] \in {"init"} \cup Live => platform = "ready"

\* The worklets that have started but not yet torn down.
Occupied == {w \in Worklets : host[w] = "create" \/ thread[w] \in Counted}

(***************************************************************************)
(* bare_worklet__running counts the worklets that are starting, running or *)
(* tearing down, through failed starts, exits and destroys alike.          *)
(***************************************************************************)
RunningExact == running = Cardinality(Occupied)

(***************************************************************************)
(* Once bare_worklet_teardown has stopped waiting, every worklet that ever *)
(* ran has called its exit callback, once, no start is under way that was  *)
(* let in before, and the platform is not half created.                    *)
(***************************************************************************)
TeardownWaits ==
  teardown \in {"shutdown", "join", "done"} =>
    /\ \A w \in Worklets : host[w] \notin {"create", "barrier"}
    /\ \A w \in Worklets : thread[w] # "none" => exits[w] = 1
    /\ platform # "starting"

(***************************************************************************)
(* A worklet that is destroyed, in whatever stage its thread is, is torn   *)
(* down: the exit callback is called and the thread frees the state.       *)
(***************************************************************************)
DestroyedGoes ==
  \A w \in Worklets :
    host[w] = "post" ~> thread[w] = "gone" /\ exits[w] = 1 /\ state[w] = "freed"

\* What bare_worklet_teardown requires: a worklet with a thread was terminated,
\* or its program ended.
Stopping(w) ==
  /\ host[w] # "create"
  /\ thread[w] \in ReadsWorklet \cup {"run"} => terminating[w]

(***************************************************************************)
(* bare_worklet_teardown returns if every worklet was terminated or        *)
(* destroyed first: the last one to stop does wake it.                     *)
(***************************************************************************)
TeardownReturns ==
  teardown = "check" /\ (\A w \in Worklets : Stopping(w)) ~> teardown = "done"

=============================================================================
