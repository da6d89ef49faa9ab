--------------------------- MODULE AndroidWorklet ---------------------------
(***************************************************************************)
(* Worklets on Android: the life of Worklet, with what each step of it     *)
(* does to the Java virtual machine (src/src/android/platform.c and        *)
(* resources.c).  Which threads are attached to the machine, and which     *)
(* global references there are, is state of the machine; a call of it on a *)
(* thread that is not attached, or on a reference that was deleted, is a   *)
(* crash.                                                                  *)
(*                                                                         *)
(* The host is code on a thread of Java, on a native thread, or in a       *)
(* callback: of the ipc, on the thread of standalone/ipc.c, or of the exit *)
(* of a worklet, on that worklet's thread.  The machine is known, from     *)
(* JNI_OnLoad or from the options of the first worklet.                    *)
(***************************************************************************)
EXTENDS Worklet

VARIABLES
  attached,  \* the threads that are attached to the machine
  context,   \* context[w]: whether w was given an application context
  refs,      \* refs[w]: the global references taken for w and not deleted
  caller,    \* caller[w]: the thread that destroys w, or "nobody"
  poll       \* the thread of an ipc: "none", "running" or "gone"

jvmVars == <<attached, context, refs, caller, poll>>

allVars == <<vars, jvmVars>>

\* A worklet's thread goes by the name of the worklet.
ASSUME NamesAssumption == Worklets \cap {"java", "native", "poll", "nobody"} = {}

Threads == {"java", "native", "poll"} \cup Worklets

\* The reference of worklet->options, that of the runtime's context, and that of
\* the assets.
Kinds == {"options", "published", "assets"}

AndroidTypeOK ==
  /\ attached \subseteq Threads
  /\ context \in [Worklets -> BOOLEAN]
  /\ refs \in [Worklets -> [Kinds -> 0 .. 1]]
  /\ caller \in [Worklets -> Threads \cup {"nobody"}]
  /\ poll \in {"none", "running", "gone"}

AndroidInit ==
  /\ Init
  /\ attached = {"java"}
  /\ context = [w \in Worklets |-> FALSE]
  /\ refs = [w \in Worklets |-> [k \in Kinds |-> 0]]
  /\ caller = [w \in Worklets |-> "nobody"]
  /\ poll = "none"

-----------------------------------------------------------------------------
(* The host *)

\* bare_kit__retain_context, on a thread that is attached if there is a context.
AndroidCreate(w) ==
  /\ Create(w)
  /\ \E c \in BOOLEAN :
       /\ context' = [context EXCEPT ![w] = c]
       /\ refs' = [refs EXCEPT ![w].options = IF c THEN 1 ELSE 0]
  /\ UNCHANGED <<attached, caller, poll>>

\* The threads on which the host may call.
Callers ==
  {t \in Threads :
     /\ \A w \in Worklets : caller[w] # t
     /\ \/ t \in {"java", "native"}
        \/ t = "poll" /\ poll = "running"
        \/ t \in Worklets /\ thread[t] = "exit"}

\* Faulty: the thread is detached whoever attached it.
MutRelease(w, t) ==
  /\ attached' = IF context[w] THEN attached \ {t} ELSE attached
  /\ refs' = [refs EXCEPT ![w].options = 0]

\* Faulty: the reference is kept.
MutReleaseNot(w, t) == UNCHANGED <<attached, refs>>

\* bare_kit__release_context on thread t, attached for the call if it was not.
bare_kit__release_context(w, t) ==
  /\ LET during == attached \cup {t}
     IN  attached' = IF t \in attached THEN during ELSE during \ {t}
  /\ refs' = [refs EXCEPT ![w].options = IF context[w] THEN @ - 1 ELSE @]

AndroidDestroyStarted(w) ==
  /\ DestroyStarted(w)
  /\ \E t \in Callers : caller' = [caller EXCEPT ![w] = t]
  /\ UNCHANGED <<attached, context, refs, poll>>

AndroidDestroyPost(w) ==
  /\ DestroyPost(w)
  /\ bare_kit__release_context(w, caller[w])
  /\ caller' = [caller EXCEPT ![w] = "nobody"]
  /\ UNCHANGED <<context, poll>>

AndroidDestroyUnstarted(w) ==
  /\ DestroyUnstarted(w)
  /\ \E t \in Callers : bare_kit__release_context(w, t)
  /\ UNCHANGED <<context, caller, poll>>

-----------------------------------------------------------------------------
(* The threads of a worklet and of an ipc *)

\* bare_kit__on_thread_enter.
AndroidThreadInit(w) ==
  /\ ThreadInit(w)
  /\ attached' = attached \cup {w}
  /\ UNCHANGED <<context, refs, caller, poll>>

\* The references r once those of w are taken, if it has a context, ...
bare_kit__publish_context(w, r) ==
  [r EXCEPT ![w].published = IF context[w] THEN @ + 1 ELSE @]

bare_kit__create_resources(w, r) ==
  [r EXCEPT ![w].assets = IF context[w] THEN @ + 1 ELSE @]

\* ... and once they are deleted.
bare_kit__on_context_destroy(w, r) ==
  [r EXCEPT ![w].published = IF context[w] THEN @ - 1 ELSE @]

\* A function is finalized once.
bare_kit__on_resources_finalize(w, r) ==
  [r EXCEPT ![w].assets = IF @ = 1 THEN @ - 1 ELSE @]

AndroidThreadSetup(w) ==
  /\ ThreadSetup(w)
  /\ refs' = bare_kit__create_resources(w, bare_kit__publish_context(w, refs))
  /\ UNCHANGED <<attached, context, caller, poll>>

\* The program is done with its assets, and they are collected, ...
Finalize(w) ==
  /\ thread[w] = "run" /\ refs[w].assets = 1
  /\ refs' = bare_kit__on_resources_finalize(w, refs)
  /\ UNCHANGED <<vars, attached, context, caller, poll>>

\* ... or are in bare_teardown, along with the context.
AndroidThreadTeardown(w) ==
  /\ ThreadTeardown(w)
  /\ refs' = bare_kit__on_resources_finalize(w, bare_kit__on_context_destroy(w, refs))
  /\ UNCHANGED <<attached, context, caller, poll>>

\* The exit callback has returned.
AndroidThreadExit(w) ==
  /\ ThreadExit(w)
  /\ \A v \in Worklets : caller[v] # w
  /\ UNCHANGED jvmVars

\* bare_kit__on_thread_exit.
AndroidThreadFree(w) ==
  /\ ThreadFree(w)
  /\ attached' = attached \ {w}
  /\ UNCHANGED <<context, refs, caller, poll>>

\* bare_ipc__signal_thread enters and leaves the machine likewise.
PollEnter ==
  /\ poll = "none" /\ \E w \in Worklets : worklet[w] = "live"
  /\ poll' = "running"
  /\ attached' = attached \cup {"poll"}
  /\ UNCHANGED <<vars, context, refs, caller>>

PollExit ==
  /\ poll = "running" /\ \A w \in Worklets : caller[w] # "poll"
  /\ poll' = "gone"
  /\ attached' = attached \ {"poll"}
  /\ UNCHANGED <<vars, context, refs, caller>>

-----------------------------------------------------------------------------

AndroidThreadStep(w) ==
  \/ AndroidThreadInit(w) \/ AndroidThreadSetup(w) \/ AndroidThreadTeardown(w)
  \/ AndroidThreadExit(w) \/ AndroidThreadFree(w)
  \/ /\ \/ PlatformInit(w) \/ ThreadOnce(w) \/ ThreadRun(w) \/ ThreadClear(w)
        \/ ThreadStopped(w) \/ ThreadWait(w)
     /\ UNCHANGED jvmVars

\* The other steps of Worklet that do not involve the machine.
Other ==
  /\ \/ \E w \in Worklets :
          Start(w) \/ StartThread(w) \/ StartFails(w) \/ Barrier(w) \/ Terminate(w)
     \/ PlatformReady \/ PlatformShutdown \/ TeardownStep
  /\ UNCHANGED jvmVars

AndroidNext ==
  \/ \E w \in Worklets :
       \/ AndroidCreate(w) \/ AndroidDestroyStarted(w) \/ AndroidDestroyPost(w)
       \/ AndroidDestroyUnstarted(w)
       \/ AndroidThreadStep(w) \/ Finalize(w)
  \/ PollEnter \/ PollExit
  \/ Other

AndroidSpec == AndroidInit /\ [][AndroidNext]_allVars

\* As in Worklet: what the machine adds to a step is part of it.
AndroidFairness ==
  /\ \A w \in Worklets :
       /\ WF_allVars((StartThread(w) \/ StartFails(w)) /\ UNCHANGED jvmVars)
       /\ WF_allVars(Barrier(w) /\ UNCHANGED jvmVars)
       /\ WF_allVars(AndroidDestroyPost(w))
       /\ WF_allVars(AndroidThreadStep(w) /\ (thread[w] = "run" => terminating[w]))
  /\ WF_allVars(PlatformReady /\ UNCHANGED jvmVars)
  /\ WF_allVars(PlatformShutdown /\ UNCHANGED jvmVars)
  /\ WF_allVars((TeardownCheck \/ TeardownShutdown \/ TeardownJoin) /\ UNCHANGED jvmVars)

AndroidFairSpec == AndroidSpec /\ AndroidFairness

-----------------------------------------------------------------------------
(* Properties *)

\* The stages between bare_kit__on_thread_enter and bare_kit__on_thread_exit.
Entered == {"setup", "ready", "run", "clear", "teardown", "exit", "stopped", "wait", "free"}

(***************************************************************************)
(* Exactly the threads that belong there are attached: Java's own, and     *)
(* those of worklets and ipcs from their first call to their last, which   *)
(* assert it (platform.c:73, 96, 160, 194), whichever thread destroys a    *)
(* worklet, on a native one, in a poll callback or in the exit callback of *)
(* that worklet or of another, and is attached for it or was already       *)
(* (platform.c:122-150).                                                   *)
(***************************************************************************)
AttachedAsEntered ==
  attached = {"java"} \cup {t \in {"poll"} : poll = "running"}
                      \cup {w \in Worklets : thread[w] \in Entered}

(***************************************************************************)
(* The references of a context are deleted exactly once, by whoever holds  *)
(* each of them: that of the options lasts until the thread has made its   *)
(* own of it, though bare_worklet_destroy does not wait for the thread     *)
(* (platform.c:119, 144); that of the runtime until teardown; and nothing  *)
(* of a worklet that is destroyed and gone is left in the machine.         *)
(***************************************************************************)
ReferencesHeld ==
  \A w \in Worklets :
    /\ refs[w].options = 1 <=> context[w] /\ worklet[w] = "live"
    /\ context[w] /\ thread[w] \in ReadsWorklet => refs[w].options = 1
    /\ refs[w].published = 1 <=> context[w] /\ thread[w] \in Live \ {"setup"}
    /\ refs[w].assets = 1 => refs[w].published = 1
    /\ worklet[w] = "freed" /\ thread[w] \in {"none", "gone"} =>
         \A k \in Kinds : refs[w][k] = 0

=============================================================================
