----------------------------- MODULE Suspension -----------------------------
(***************************************************************************)
(* Suspending, waking up and resuming a worklet (src/src/worklet.c), with  *)
(* the background tasks that keep an iOS application running meanwhile     *)
(* (src/src/ios/suspension.m).                                             *)
(*                                                                         *)
(* The worklet's state is guarded by state->lock, the identifier of the    *)
(* task is not: the expiration handler of a task runs on the main thread   *)
(* whenever the system wants, so each atomic access of it is a step.  What *)
(* the lock holder does between them is `op' and `step'.  Tasks are        *)
(* numbered as they are begun; 0 is UIBackgroundTaskInvalid.               *)
(*                                                                         *)
(* The runtime (Bare) is external: it takes the requests in the order in   *)
(* which they were made, goes idle whenever it has nothing left to do, and *)
(* ignores resuming when active.                                           *)
(***************************************************************************)
EXTENDS Naturals, Sequences

CONSTANTS
  MaxTasks,    \* bound on calls of bare_worklet_suspend and bare_worklet_wakeup
  MaxResumes   \* bound on calls of bare_worklet_resume

ASSUME SuspensionBounds == MaxTasks \in Nat /\ MaxResumes \in Nat

VARIABLES
  app,         \* whether there is a UIApplication, and so background tasks
  thread,      \* the worklet thread: "setup", "run", "clear", "teardown" or "gone"
  bare,        \* whether state->bare is not NULL
  suspended,   \* state->suspended
  resuming,    \* state->resuming
  op,          \* what holds the lock: "none", or the function it is held in
  step,        \* where that is: "begun" or "refused", "known", "swapped"
  prev,        \* its local of that name in bare_suspension_start and _end
  identifier,  \* task->identifier
  last,        \* the last task that was begun, or asked for
  live,        \* the tasks that are begun and not ended
  fired,       \* the tasks that the system refused, or whose handler it called
  firing,      \* the tasks that expiration handlers are about to end
  requests,    \* what the runtime was asked to do and has not yet done
  runtime,     \* what it does, below
  lingers,     \* the suspend request that it lingers for
  resumes,     \* how often bare_worklet_resume was called
  overlapped   \* whether a resume was made before the one before it was observed, and
               \* the worklet has not caught up with the host's suspends since

lockVars == <<op, step, prev>>
taskVars == <<identifier, last, live, fired, firing>>
hostVars == <<suspended, resuming, resumes, overlapped>>
bareVars == <<requests, runtime, lingers>>

vars == <<app, thread, bare, lockVars, taskVars, hostVars, bareVars>>

Invalid == 0

(***************************************************************************)
(* The runtime is active; lingers; is about to call the idle callback, or  *)
(* the resume callback; is idle; or is at work again until it is idle.     *)
(***************************************************************************)
Runtime == {"active", "lingering", "idling", "resuming", "idle", "awake"}

TypeOK ==
  /\ app \in BOOLEAN /\ bare \in BOOLEAN
  /\ thread \in {"setup", "run", "clear", "teardown", "gone"}
  /\ suspended \in BOOLEAN /\ resuming \in BOOLEAN /\ overlapped \in BOOLEAN
  /\ op \in {"none", "suspend", "wakeup", "resume", "idle", "clear"}
  /\ step \in {"begun", "refused", "known", "swapped"}
  /\ prev \in Nat /\ identifier \in Nat /\ last \in Nat /\ lingers \in Nat /\ resumes \in Nat
  /\ live \subseteq 1 .. last /\ fired \subseteq 1 .. last /\ firing \subseteq 1 .. last
  /\ requests \in Seq([kind : {"suspend", "wakeup", "resume"}, task : Nat])
  /\ runtime \in Runtime

\* bare_suspension_init, before the host can reach the runtime.
Init ==
  /\ app \in BOOLEAN
  /\ thread = "setup" /\ bare = FALSE
  /\ suspended = FALSE /\ resuming = FALSE /\ resumes = 0 /\ overlapped = FALSE
  /\ op = "none" /\ step = "swapped" /\ prev = Invalid
  /\ identifier = Invalid /\ last = 0 /\ live = {} /\ fired = {} /\ firing = {}
  /\ requests = <<>> /\ runtime = "active" /\ lingers = 0

-----------------------------------------------------------------------------
(* Background tasks *)

\* bare_suspension_start, under the lock: a task is begun, unless the system refuses
\* it, and is then UIBackgroundTaskInvalid, ...
bare_suspension_start(f) ==
  /\ op = "none"
  /\ op' = f
  /\ prev' = Invalid
  /\ last' = last + 1
  /\ \/ app /\ step' = "begun" /\ live' = live \cup {last + 1} /\ UNCHANGED fired
     \/ app /\ step' = "refused" /\ fired' = fired \cup {last + 1} /\ UNCHANGED live
     \/ ~app /\ step' = "swapped" /\ UNCHANGED <<live, fired>>
  /\ UNCHANGED <<identifier, firing>>

\* ... its identifier known to the handler, ...
TaskKnown ==
  /\ op # "none" /\ step = "begun"
  /\ step' = "known"
  /\ UNCHANGED <<app, thread, bare, op, prev, taskVars, hostVars, bareVars>>

\* What the task that was asked for is known as.
NextTask == IF step = "refused" THEN Invalid ELSE last

\* Faulty: the task that is replaced is forgotten.
MutTaskSwap ==
  /\ op # "none" /\ step \in {"known", "refused"}
  /\ identifier' = NextTask
  /\ step' = "swapped"
  /\ UNCHANGED <<app, thread, bare, op, prev, last, live, fired, firing, hostVars, bareVars>>

\* ... and swapped for the one before, be it refused or not.
TaskSwap ==
  /\ op # "none" /\ step \in {"known", "refused"}
  /\ prev' = identifier
  /\ identifier' = NextTask
  /\ step' = "swapped"
  /\ UNCHANGED <<app, thread, bare, op, last, live, fired, firing, hostVars, bareVars>>

\* bare_suspension_end, likewise.
bare_suspension_end(f) ==
  /\ op = "none"
  /\ op' = f
  /\ prev' = identifier
  /\ identifier' = Invalid
  /\ step' = "swapped"
  /\ UNCHANGED <<last, live, fired, firing>>

\* The end of either, which ends the task that was swapped out, and of the
\* function f that called it.
Finish(f) ==
  /\ op = f /\ step = "swapped"
  /\ live' = live \ {prev}
  /\ op' = "none"
  /\ UNCHANGED <<app, step, prev, identifier, last, fired, firing>>

\* A handler finds no task it knows, or a task of before, when it is called
\* before its own is known to it: the variable it reads is not yet initialised.
Expiring(n) == IF n = last /\ op # "none" /\ step = "begun" THEN 0 .. n - 1 ELSE {n}

\* Faulty: a task is ended only if it is the current one.
MutExpire(n) ==
  /\ n \in live \ fired
  /\ fired' = fired \cup {n}
  /\ \E next \in Expiring(n) :
       /\ identifier' = IF identifier = next THEN Invalid ELSE identifier
       /\ firing' = IF identifier = next THEN firing \cup ({next} \ {Invalid}) ELSE firing
  /\ UNCHANGED <<app, thread, bare, lockVars, last, live, hostVars, bareVars>>

\* The expiration handler of task n: the identifier is cleared if it is the task's, ...
Expire(n) ==
  /\ n \in live \ fired
  /\ fired' = fired \cup {n}
  /\ \E next \in Expiring(n) :
       /\ identifier' = IF identifier = next THEN Invalid ELSE identifier
       /\ firing' = firing \cup ({next} \ {Invalid})
  /\ UNCHANGED <<app, thread, bare, lockVars, last, live, hostVars, bareVars>>

\* ... and the task ended in any case.
ExpireEnd(n) ==
  /\ n \in firing
  /\ firing' = firing \ {n}
  /\ live' = live \ {n}
  /\ UNCHANGED <<app, thread, bare, lockVars, identifier, last, fired, hostVars, bareVars>>

-----------------------------------------------------------------------------
(* The host, from any of its threads; without a runtime its calls do nothing. *)

Request(k, n) == requests' = Append(requests, [kind |-> k, task |-> n])

\* bare_worklet_suspend and bare_worklet_wakeup.
Suspend ==
  /\ bare /\ last < MaxTasks
  /\ \E f \in {"suspend", "wakeup"} : bare_suspension_start(f)
  /\ UNCHANGED <<app, thread, bare, hostVars, bareVars>>

SuspendFinish ==
  /\ Finish("suspend")
  /\ suspended' = TRUE
  /\ Request("suspend", last)
  /\ UNCHANGED <<thread, bare, resuming, resumes, overlapped, runtime, lingers>>

WakeupFinish ==
  /\ Finish("wakeup")
  /\ Request("wakeup", last)
  /\ UNCHANGED <<thread, bare, hostVars, runtime, lingers>>

\* bare_worklet_resume.
Resume ==
  /\ bare /\ resumes < MaxResumes
  /\ bare_suspension_end("resume")
  /\ resumes' = resumes + 1
  /\ UNCHANGED <<app, thread, bare, suspended, resuming, overlapped, bareVars>>

\* Faulty: every resume is noted, though Bare may ignore it.
MutResumeFinish ==
  /\ Finish("resume")
  /\ resuming' = TRUE
  /\ suspended' = FALSE
  /\ Request("resume", 0)
  /\ UNCHANGED <<thread, bare, resumes, overlapped, runtime, lingers>>

\* Only a resume that follows a suspend will be observed.
ResumeFinish ==
  /\ Finish("resume")
  /\ overlapped' = (overlapped \/ (suspended /\ resuming))
  /\ resuming' = (resuming \/ suspended)
  /\ suspended' = FALSE
  /\ Request("resume", 0)
  /\ UNCHANGED <<thread, bare, resumes, runtime, lingers>>

-----------------------------------------------------------------------------
(* The worklet thread *)

\* The runtime is published.
ThreadSetup ==
  /\ thread = "setup" /\ op = "none"
  /\ thread' = "run"
  /\ bare' = TRUE
  /\ UNCHANGED <<app, lockVars, taskVars, hostVars, bareVars>>

\* The runtime, in bare_run and, for what is left, in bare_teardown, is not in
\* the middle of a callback.
InLoop == thread \in {"run", "teardown"} /\ runtime \notin {"idling", "resuming"}

\* The runtime takes a request: it lingers before it suspends, and only then; it
\* may wake up, or be suspended again, unless it is active.
Take ==
  /\ InLoop /\ requests # <<>>
  /\ requests' = Tail(requests)
  /\ LET r == Head(requests)
     IN  \/ r.kind = "suspend" /\ runtime = "active" /\ runtime' = "lingering" /\ lingers' = r.task
         \/ r.kind # "resume" /\ runtime # "active" /\ runtime' = "awake" /\ UNCHANGED lingers
         \/ r.kind = "resume" /\ runtime # "active" /\ runtime' = "resuming" /\ UNCHANGED lingers
         \/ (r.kind = "resume" <=> runtime = "active") /\ UNCHANGED <<runtime, lingers>>
         \/ r.kind = "wakeup" /\ runtime = "active" /\ UNCHANGED <<runtime, lingers>>
  /\ UNCHANGED <<app, thread, bare, lockVars, taskVars, hostVars>>

\* It runs out of work.
GoIdle ==
  /\ InLoop /\ runtime \in {"lingering", "awake", "idle"}
  /\ runtime' = "idling"
  /\ UNCHANGED <<app, thread, bare, lockVars, taskVars, hostVars, requests, lingers>>

\* Faulty: the task is ended whatever the host has done since.
MutOnIdle ==
  /\ runtime = "idling"
  /\ bare_suspension_end("idle")
  /\ UNCHANGED <<app, thread, bare, hostVars, bareVars>>

\* bare_worklet__on_idle: the task is ended unless a resume is pending.
OnIdle ==
  /\ runtime = "idling" /\ ~resuming
  /\ bare_suspension_end("idle")
  /\ UNCHANGED <<app, thread, bare, hostVars, bareVars>>

OnIdleFinish ==
  /\ \/ Finish("idle")
     \/ runtime = "idling" /\ op = "none" /\ resuming /\ UNCHANGED <<app, lockVars, taskVars>>
  /\ runtime' = "idle"
  /\ UNCHANGED <<thread, bare, hostVars, requests, lingers>>

\* bare_worklet__on_resume.
OnResume ==
  /\ runtime = "resuming" /\ op = "none"
  /\ resuming' = FALSE
  /\ overlapped' = (overlapped /\ \E i \in 1 .. Len(requests) : requests[i].kind = "suspend")
  /\ runtime' = "active"
  /\ UNCHANGED <<app, thread, bare, lockVars, taskVars, suspended, resumes, requests, lingers>>

\* bare_run returns, ...
ThreadRun ==
  /\ thread = "run" /\ InLoop
  /\ thread' = "clear"
  /\ UNCHANGED <<app, bare, lockVars, taskVars, hostVars, bareVars>>

\* Faulty: the runtime is withdrawn but the task kept.
MutClear ==
  /\ thread = "clear" /\ op = "none"
  /\ op' = "clear" /\ step' = "swapped" /\ prev' = Invalid
  /\ bare' = FALSE
  /\ UNCHANGED <<app, thread, taskVars, hostVars, bareVars>>

\* ... the host no longer reaches the runtime, and the task is ended.
Clear ==
  /\ thread = "clear"
  /\ bare_suspension_end("clear")
  /\ bare' = FALSE
  /\ UNCHANGED <<app, thread, hostVars, bareVars>>

ClearFinish ==
  /\ Finish("clear")
  /\ thread' = "teardown"
  /\ UNCHANGED <<bare, hostVars, bareVars>>

\* bare_suspension_destroy; handlers still to be called keep the identifier.
Destroy ==
  /\ thread = "teardown" /\ InLoop
  /\ thread' = "gone"
  /\ UNCHANGED <<app, bare, lockVars, taskVars, hostVars, bareVars>>

-----------------------------------------------------------------------------

Callbacks == OnIdle \/ OnIdleFinish \/ OnResume

Locked == TaskKnown \/ TaskSwap \/ SuspendFinish \/ WakeupFinish \/ ResumeFinish \/ ClearFinish

Next ==
  \/ Suspend \/ Resume \/ Locked
  \/ ThreadSetup \/ Take \/ GoIdle \/ Callbacks \/ ThreadRun \/ Clear \/ Destroy
  \/ \E n \in 1 .. last : Expire(n) \/ ExpireEnd(n)

(***************************************************************************)
(* Whoever holds the lock goes on, and callbacks get it in the end.  The   *)
(* system expires a task that is not ended.  Neither the host's calls are  *)
(* certain nor that the runtime goes idle, takes requests, or ends.        *)
(***************************************************************************)
Fairness ==
  /\ WF_vars(Locked) /\ SF_vars(Callbacks) /\ SF_vars(Clear)
  /\ \A n \in 1 .. MaxTasks : WF_vars(Expire(n)) /\ WF_vars(ExpireEnd(n))

Spec == Init /\ [][Next]_vars

FairSpec == Spec /\ Fairness

-----------------------------------------------------------------------------
(* Properties *)

(***************************************************************************)
(* No background task is lost track of, however its expiry races with its  *)
(* being begun, replaced or ended: one that is not ended is the current    *)
(* one, or in the hands of someone about to make it that or to end it      *)
(* (ios/suspension.m:34-45, 66-68).                                        *)
(***************************************************************************)
NoTaskLost ==
  live \subseteq
    {identifier} \cup firing
      \cup (IF op = "none" THEN {} ELSE IF step = "swapped" THEN {prev} ELSE {NextTask})

(***************************************************************************)
(* Once the worklet thread has withdrawn the runtime, the worklet holds no *)
(* background task and begins none, though the host may be in the middle   *)
(* of a suspend when the program ends (worklet.c:642-649, 734-743).        *)
(***************************************************************************)
NoTaskAfterExit ==
  thread \in {"teardown", "gone"} => identifier = Invalid /\ live \subseteq firing

(***************************************************************************)
(* "On iOS, the worklet holds a background task for as long as it lingers" *)
(* (bare-kit.h:192-193), unless the host has resumed it since, or the      *)
(* system has refused the task or taken it away.                           *)
(***************************************************************************)
LingersWithTask ==
  (/\ app /\ thread = "run" /\ runtime = "lingering" /\ op = "none"
   /\ \A i \in 1 .. Len(requests) : requests[i].kind # "resume")
  => \E n \in lingers .. last : n \in live \/ n \in fired

(***************************************************************************)
(* So it does, whatever the order in which idles of earlier suspensions,   *)
(* later suspends and wakeups, and expiries arrive (worklet.c:326-331),    *)
(* for a host that does not suspend and resume again before its last       *)
(* resume was observed.  After one that did, it does again once the        *)
(* worklet has resumed with no other suspend to follow.                    *)
(***************************************************************************)
LingersUnderTask == ~overlapped => LingersWithTask

\* A resume that is pending and was made after a suspend is noted, and is observed
\* before the worklet is active again: the flag is not left behind, to keep a
\* later idle from ending its task (worklet.c:762-767, 346); for a host as in
\* LingersUnderTask.
ResumingIsPending ==
  ~overlapped =>
    (resuming <=>
       \/ runtime = "resuming"
       \/ \E j \in 1 .. Len(requests) :
            /\ requests[j].kind = "resume"
            /\ runtime # "active" \/ \E i \in 1 .. j - 1 : requests[i].kind = "suspend")

\* Every background task is ended, in time for the system, unless its handler was
\* called before it could know the task (ios/suspension.m:34-41).
TasksEnd ==
  \A n \in 1 .. MaxTasks :
    (n \in live /\ n \notin fired /\ (op = "none" \/ step # "begun" \/ n # last)) ~> n \notin live

=============================================================================
