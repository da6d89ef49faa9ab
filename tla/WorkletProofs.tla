---------------------------- MODULE WorkletProofs ----------------------------
(***************************************************************************)
(* What Worklet guarantees for any number of worklets, proved: no side     *)
(* uses what the other freed, the count of running worklets is exact, and  *)
(* the platform outlives every runtime on it.                              *)
(***************************************************************************)
EXTENDS Worklet, FiniteSetTheorems, TLAPS

-----------------------------------------------------------------------------
(* The inductive invariant *)

\* The stages behind the exit callback.
Exited == {"stopped", "wait", "free", "gone"}

\* How the memory of a worklet, the host's call on it and its thread go together.
Life(w) ==
  /\ host[w] = "barrier" <=> thread[w] \in ReadsWorklet
  /\ host[w] = "create" => thread[w] = "none"
  /\ worklet[w] = "none" => host[w] = "idle" /\ thread[w] = "none"
  /\ host[w] # "idle" => worklet[w] = "live"
  /\ worklet[w] = "live" => state[w] = "live" /\ finished[w] # "posted"
  /\ state[w] = "live" <=> (worklet[w] = "live" \/ thread[w] \notin {"none", "gone"})
  /\ thread[w] \in {"none", "once", "init"} <=> finished[w] = "none"
  /\ host[w] = "post" => thread[w] \notin {"none", "free", "gone"}
  /\ thread[w] \in {"free", "gone"} => finished[w] = "posted"
  /\ bare[w] <=> thread[w] \in {"ready", "run", "clear"}
  /\ exits[w] = IF thread[w] \in Exited THEN 1 ELSE 0

Lives == \A w \in Worklets : Life(w)

\* How the platform and its teardown go together with the threads.
PlatformInv ==
  /\ \A w \in Worklets : thread[w] \notin {"none", "once"} => platform \in {"ready", "gone"}
  /\ platform = "starting" => \E w \in Worklets : thread[w] = "once"
  /\ platform = "gone" => teardown \in {"join", "done"}
  /\ teardown \in {"shutdown", "join", "done"} => running = 0
  /\ teardown # "idle" => torn_down

IInv == TypeOK /\ RunningExact /\ Lives /\ PlatformInv

-----------------------------------------------------------------------------
(* Counting *)

\* The worklets are finitely many, and so are those of them that are running.
LEMMA OccupiedFinite ==
  /\ IsFiniteSet(Occupied)
  /\ Cardinality(Occupied) \in Nat
  /\ Cardinality(Occupied) = 0 => Occupied = {}
<1>1. Occupied \in SUBSET Worklets
  BY DEF Occupied
<1>2. QED
  BY <1>1, WorkletsAssumption, FS_Subset, FS_CardinalityType, FS_EmptySet

\* The same, in the next state.
LEMMA OccupiedFiniteNext ==
  IsFiniteSet(Occupied') /\ Cardinality(Occupied') \in Nat
<1>1. Occupied' \in SUBSET Worklets
  BY DEF Occupied
<1>2. QED
  BY <1>1, WorkletsAssumption, FS_Subset, FS_CardinalityType

\* A worklet that starts is counted once more, ...
LEMMA Counts ==
  ASSUME RunningExact, NEW w \in Worklets, w \notin Occupied,
         Occupied' = Occupied \cup {w}, running' = running + 1
  PROVE  RunningExact'
<1>1. Cardinality(Occupied') = Cardinality(Occupied) + 1
  BY OccupiedFinite, FS_AddElement
<1>2. QED
  BY <1>1 DEF RunningExact

\* ... and one that stops once less.
LEMMA Uncounts ==
  ASSUME RunningExact, NEW w \in Worklets, w \in Occupied,
         Occupied' = Occupied \ {w}, running' = running - 1
  PROVE  RunningExact'
<1>1. Cardinality(Occupied') = Cardinality(Occupied) - 1
  BY OccupiedFinite, FS_RemoveElement
<1>2. QED
  BY <1>1 DEF RunningExact

\* All other steps keep both the count and what is counted.
LEMMA SameCount ==
  ASSUME RunningExact, Occupied' = Occupied, running' = running
  PROVE  RunningExact'
BY DEF RunningExact

\* bare_worklet__running stays exact.
LEMMA CountStep ==
  ASSUME TypeOK, RunningExact, Lives, [Next]_vars
  PROVE  RunningExact'
<1>. USE DEF TypeOK, Thread, Host
<1>1. ASSUME NEW w \in Worklets, Start(w)
      PROVE  RunningExact'
  <2>1. w \notin Occupied /\ Occupied' = Occupied \cup {w}
    BY <1>1 DEF Start, Occupied, Counted, Live
  <2>2. running' = running + 1
    BY <1>1 DEF Start
  <2>3. QED
    BY <2>1, <2>2, Counts
<1>2. ASSUME NEW w \in Worklets, StartFails(w)
      PROVE  RunningExact'
  <2>1. thread[w] = "none"
    BY <1>2 DEF StartFails, Lives, Life
  <2>2. w \in Occupied /\ Occupied' = Occupied \ {w}
    BY <1>2, <2>1 DEF StartFails, Occupied, Counted, Live
  <2>3. running' = running - 1
    BY <1>2 DEF StartFails, bare_worklet__on_stopped
  <2>4. QED
    BY <2>2, <2>3, Uncounts
<1>3. ASSUME NEW w \in Worklets, ThreadStopped(w)
      PROVE  RunningExact'
  <2>1. host[w] # "create"
    BY <1>3 DEF ThreadStopped, Lives, Life
  <2>2. w \in Occupied /\ Occupied' = Occupied \ {w}
    BY <1>3, <2>1 DEF ThreadStopped, Goto, Occupied, Counted, Live
  <2>3. running' = running - 1
    BY <1>3 DEF ThreadStopped, bare_worklet__on_stopped
  <2>4. QED
    BY <2>2, <2>3, Uncounts
<1>4. ASSUME NEW w \in Worklets,
             \/ Create(w) \/ StartThread(w) \/ Barrier(w) \/ Terminate(w)
             \/ DestroyStarted(w) \/ DestroyPost(w) \/ DestroyUnstarted(w)
      PROVE  RunningExact'
  <2>1. Occupied' = Occupied /\ running' = running
    BY <1>4 DEF Create, StartThread, Barrier, Terminate, DestroyStarted, DestroyPost,
                DestroyUnstarted, Occupied, Counted, Live, shared
  <2>2. QED
    BY <2>1, SameCount
<1>5. ASSUME NEW w \in Worklets,
             \/ PlatformInit(w) \/ ThreadOnce(w) \/ ThreadInit(w) \/ ThreadSetup(w)
             \/ ThreadRun(w) \/ ThreadClear(w) \/ ThreadTeardown(w) \/ ThreadExit(w)
             \/ ThreadWait(w) \/ ThreadFree(w)
      PROVE  RunningExact'
  <2>1. Occupied' = Occupied /\ running' = running
    BY <1>5 DEF PlatformInit, ThreadOnce, ThreadInit, ThreadSetup, ThreadRun, ThreadClear,
                ThreadTeardown, ThreadExit, ThreadWait, ThreadFree, Goto, Occupied, Counted,
                Live, shared, perWorklet
  <2>2. QED
    BY <2>1, SameCount
<1>6. ASSUME PlatformReady \/ PlatformShutdown \/ TeardownStep \/ UNCHANGED vars
      PROVE  RunningExact'
  <2>1. Occupied' = Occupied /\ running' = running
    BY <1>6 DEF PlatformReady, PlatformShutdown, TeardownStep, TeardownBegin, TeardownCheck,
                TeardownSpurious, TeardownShutdown, TeardownJoin, Occupied, shared, perWorklet, vars
  <2>2. QED
    BY <2>1, SameCount
<1>7. QED
  BY <1>1, <1>2, <1>3, <1>4, <1>5, <1>6 DEF Next, HostStep, ThreadStep

-----------------------------------------------------------------------------
(* Types *)

\* Every step keeps the types.  That the count stays a natural number rests on
\* its being exact.
LEMMA TypeStep ==
  ASSUME TypeOK, RunningExact', [Next]_vars
  PROVE  TypeOK'
<1>1. running' \in Nat
  BY OccupiedFiniteNext DEF RunningExact
<1>. USE <1>1 DEF TypeOK, Thread, Host, Teardown, shared, perWorklet
<1>2. ASSUME NEW w \in Worklets, HostStep(w)
      PROVE  TypeOK'
  <2>1. CASE Create(w) \/ Start(w) \/ StartThread(w) \/ Barrier(w)
    BY <2>1 DEF Create, Start, StartThread, Barrier
  <2>2. CASE StartFails(w)
    BY <2>2 DEF StartFails, bare_worklet__on_stopped
  <2>3. CASE Terminate(w) \/ DestroyStarted(w)
    <3>1. Terminated(w) \in [Worklets -> BOOLEAN]
      BY DEF Terminated
    <3>2. QED
      BY <2>3, <3>1 DEF Terminate, DestroyStarted
  <2>4. CASE DestroyPost(w) \/ DestroyUnstarted(w)
    BY <2>4 DEF DestroyPost, DestroyUnstarted
  <2>5. QED
    BY <1>2, <2>1, <2>2, <2>3, <2>4 DEF HostStep
<1>3. ASSUME NEW w \in Worklets, ThreadStep(w)
      PROVE  TypeOK'
  <2>1. CASE PlatformInit(w) \/ ThreadOnce(w) \/ ThreadInit(w) \/ ThreadSetup(w) \/ ThreadRun(w)
    <3>1. CASE PlatformInit(w)
      BY <3>1 DEF PlatformInit, Goto
    <3>2. CASE ThreadOnce(w)
      BY <3>2 DEF ThreadOnce, Goto
    <3>3. CASE ThreadInit(w)
      BY <3>3 DEF ThreadInit, Goto
    <3>4. CASE ThreadSetup(w)
      BY <3>4 DEF ThreadSetup, Goto
    <3>5. CASE ThreadRun(w)
      BY <3>5 DEF ThreadRun, Goto
    <3>6. QED
      BY <2>1, <3>1, <3>2, <3>3, <3>4, <3>5
  <2>2. CASE ThreadClear(w) \/ ThreadTeardown(w) \/ ThreadWait(w) \/ ThreadFree(w)
    <3>1. CASE ThreadClear(w)
      BY <3>1 DEF ThreadClear, Goto
    <3>2. CASE ThreadTeardown(w)
      BY <3>2 DEF ThreadTeardown, Goto
    <3>3. CASE ThreadWait(w)
      BY <3>3 DEF ThreadWait, Goto
    <3>4. CASE ThreadFree(w)
      BY <3>4 DEF ThreadFree, Goto
    <3>5. QED
      BY <2>2, <3>1, <3>2, <3>3, <3>4
  <2>3. CASE ThreadExit(w)
    <3>1. exits[w] + 1 \in Nat
      OBVIOUS
    <3>2. QED
      BY <2>3, <3>1 DEF ThreadExit, Goto
  <2>4. CASE ThreadStopped(w)
    BY <2>4 DEF ThreadStopped, bare_worklet__on_stopped, Goto
  <2>5. QED
    BY <1>3, <2>1, <2>2, <2>3, <2>4 DEF ThreadStep
<1>4. ASSUME PlatformReady \/ PlatformShutdown \/ TeardownStep
      PROVE  TypeOK'
  BY <1>4 DEF PlatformReady, PlatformShutdown, TeardownStep, TeardownBegin, TeardownCheck,
              TeardownSpurious, TeardownShutdown, TeardownJoin
<1>5. CASE UNCHANGED vars
  BY <1>5 DEF vars
<1>6. QED
  BY <1>2, <1>3, <1>4, <1>5 DEF Next

-----------------------------------------------------------------------------
(* The life of a worklet *)

\* What is known of a worklet stays so while nothing of it changes.
LEMMA SameLife ==
  ASSUME NEW v \in Worklets, Life(v),
         worklet'[v] = worklet[v], state'[v] = state[v], host'[v] = host[v],
         thread'[v] = thread[v], bare'[v] = bare[v], finished'[v] = finished[v],
         exits'[v] = exits[v]
  PROVE  Life(v)'
BY DEF Life

\* A step of one worklet leaves the others alone.
LEMMA OtherLife ==
  ASSUME TypeOK, NEW w \in Worklets, HostStep(w) \/ ThreadStep(w),
         NEW v \in Worklets, v # w, Life(v)
  PROVE  Life(v)'
<1>1. /\ worklet'[v] = worklet[v] /\ state'[v] = state[v] /\ host'[v] = host[v]
      /\ thread'[v] = thread[v] /\ bare'[v] = bare[v] /\ finished'[v] = finished[v]
      /\ exits'[v] = exits[v]
  <2>1. CASE HostStep(w)
    BY <2>1 DEF TypeOK, HostStep, Create, Start, StartThread, StartFails, Barrier, Terminate,
                DestroyStarted, DestroyPost, DestroyUnstarted
  <2>2. CASE ThreadStep(w)
    BY <2>2 DEF TypeOK, ThreadStep, PlatformInit, ThreadOnce, ThreadInit, ThreadSetup, ThreadRun,
                ThreadClear, ThreadTeardown, ThreadExit, ThreadStopped, ThreadWait, ThreadFree,
                Goto, perWorklet
  <2>3. QED
    BY <2>1, <2>2
<1>2. QED
  BY <1>1, SameLife

\* Neither the host nor the thread breaks the order of a worklet's life.
LEMMA OwnLife ==
  ASSUME TypeOK, NEW w \in Worklets, HostStep(w) \/ ThreadStep(w), Life(w)
  PROVE  Life(w)'
<1>. USE DEF TypeOK, Life, Thread, Host, ReadsWorklet, Exited
<1>1. CASE Create(w) \/ Start(w) \/ StartThread(w) \/ StartFails(w) \/ Barrier(w)
  BY <1>1 DEF Create, Start, StartThread, StartFails, Barrier
<1>2. CASE Terminate(w) \/ DestroyStarted(w)
  BY <1>2 DEF Terminate, DestroyStarted
<1>3. CASE DestroyPost(w)
  BY <1>3 DEF DestroyPost
<1>4. CASE DestroyUnstarted(w)
  BY <1>4 DEF DestroyUnstarted
<1>5. CASE PlatformInit(w) \/ ThreadOnce(w) \/ ThreadInit(w) \/ ThreadSetup(w)
  BY <1>5 DEF PlatformInit, ThreadOnce, ThreadInit, ThreadSetup, Goto, perWorklet
<1>6. CASE ThreadRun(w) \/ ThreadClear(w) \/ ThreadTeardown(w) \/ ThreadExit(w)
  BY <1>6 DEF ThreadRun, ThreadClear, ThreadTeardown, ThreadExit, Goto
<1>7. CASE ThreadStopped(w) \/ ThreadWait(w) \/ ThreadFree(w)
  BY <1>7 DEF ThreadStopped, ThreadWait, ThreadFree, Goto
<1>8. QED
  BY <1>1, <1>2, <1>3, <1>4, <1>5, <1>6, <1>7 DEF HostStep, ThreadStep

\* Both together, for every worklet and every step.
LEMMA LivesStep ==
  ASSUME TypeOK, Lives, [Next]_vars
  PROVE  Lives'
<1>1. SUFFICES ASSUME NEW v \in Worklets
               PROVE  Life(v)'
  BY DEF Lives
<1>2. Life(v)
  BY DEF Lives
<1>3. ASSUME NEW w \in Worklets, HostStep(w) \/ ThreadStep(w)
      PROVE  Life(v)'
  BY <1>2, <1>3, OtherLife, OwnLife
<1>4. ASSUME PlatformReady \/ PlatformShutdown \/ TeardownStep \/ UNCHANGED vars
      PROVE  Life(v)'
  <2>1. UNCHANGED perWorklet
    BY <1>4 DEF PlatformReady, PlatformShutdown, TeardownStep, TeardownBegin, TeardownCheck,
                TeardownSpurious, TeardownShutdown, TeardownJoin, vars
  <2>2. QED
    BY <1>2, <2>1, SameLife DEF perWorklet
<1>5. QED
  BY <1>3, <1>4 DEF Next

-----------------------------------------------------------------------------
(* The platform *)

\* While a worklet is running, its teardown has not begun.
LEMMA Occupies ==
  ASSUME RunningExact, NEW w \in Worklets, host[w] = "create" \/ thread[w] \in Counted
  PROVE  running # 0
BY OccupiedFinite DEF RunningExact, Occupied

\* Every step keeps the platform in place for the threads that need it.
LEMMA PlatformStep ==
  ASSUME IInv, [Next]_vars
  PROVE  PlatformInv'
<1>. USE DEF IInv, TypeOK, PlatformInv, Thread, Teardown
<1>1. ASSUME NEW w \in Worklets, HostStep(w)
      PROVE  PlatformInv'
  <2>1. CASE Start(w)
    BY <2>1 DEF Start
  <2>2. CASE StartThread(w)
    BY <2>2 DEF StartThread, shared
  <2>3. CASE StartFails(w)
    <3>1. running # 0
      BY <2>3, Occupies DEF StartFails
    <3>2. QED
      BY <2>3, <3>1 DEF StartFails, bare_worklet__on_stopped
  <2>4. CASE Barrier(w)
    BY <2>4 DEF Barrier, shared
  <2>5. CASE Create(w) \/ Terminate(w) \/ DestroyStarted(w) \/ DestroyPost(w) \/ DestroyUnstarted(w)
    BY <2>5 DEF Create, Terminate, DestroyStarted, DestroyPost, DestroyUnstarted, shared
  <2>6. QED
    BY <1>1, <2>1, <2>2, <2>3, <2>4, <2>5 DEF HostStep
<1>2. ASSUME NEW w \in Worklets, ThreadStep(w)
      PROVE  PlatformInv'
  <2>1. CASE PlatformInit(w)
    BY <2>1 DEF PlatformInit, perWorklet
  <2>2. CASE ThreadOnce(w)
    BY <2>2 DEF ThreadOnce, Goto, shared
  <2>3. CASE ThreadInit(w) \/ ThreadSetup(w) \/ ThreadRun(w) \/ ThreadClear(w) \/ ThreadTeardown(w)
    BY <2>3 DEF ThreadInit, ThreadSetup, ThreadRun, ThreadClear, ThreadTeardown, Goto, shared
  <2>4. CASE ThreadExit(w) \/ ThreadWait(w) \/ ThreadFree(w)
    BY <2>4 DEF ThreadExit, ThreadWait, ThreadFree, Goto, shared
  <2>5. CASE ThreadStopped(w)
    <3>1. running # 0
      BY <2>5, Occupies DEF ThreadStopped, Counted
    <3>2. QED
      BY <2>5, <3>1 DEF ThreadStopped, bare_worklet__on_stopped, Goto
  <2>6. QED
    BY <1>2, <2>1, <2>2, <2>3, <2>4, <2>5 DEF ThreadStep
<1>3. CASE PlatformReady \/ PlatformShutdown
  BY <1>3 DEF PlatformReady, PlatformShutdown, perWorklet
<1>4. CASE TeardownStep
  <2>1. CASE TeardownBegin \/ TeardownCheck \/ TeardownSpurious \/ TeardownJoin
    BY <2>1 DEF TeardownBegin, TeardownCheck, TeardownSpurious, TeardownJoin, perWorklet
  <2>2. CASE TeardownShutdown
    BY <2>2 DEF TeardownShutdown, perWorklet
  <2>3. QED
    BY <1>4, <2>1, <2>2 DEF TeardownStep
<1>5. CASE UNCHANGED vars
  BY <1>5 DEF vars, perWorklet, shared
<1>6. QED
  BY <1>1, <1>2, <1>3, <1>4, <1>5 DEF Next

-----------------------------------------------------------------------------
(* Theorems *)

\* Before anything is created, the invariant holds.
LEMMA IInvInit == Init => IInv
<1>1. SUFFICES ASSUME Init PROVE IInv
  OBVIOUS
<1>2. TypeOK
  BY <1>1 DEF Init, TypeOK, Host, Thread, Teardown
<1>3. RunningExact
  <2>1. Occupied = {}
    BY <1>1 DEF Init, Occupied, Counted, Live
  <2>2. QED
    BY <1>1, <2>1, FS_EmptySet DEF Init, RunningExact
<1>4. Lives
  BY <1>1 DEF Init, Lives, Life, ReadsWorklet, Exited
<1>5. PlatformInv
  BY <1>1 DEF Init, PlatformInv
<1>6. QED
  BY <1>2, <1>3, <1>4, <1>5 DEF IInv

\* The inductive invariant holds of every state that the worklets reach.
THEOREM LifeInvariant == Spec => []IInv
<1>1. IInv /\ [Next]_vars => IInv'
  BY CountStep, TypeStep, LivesStep, PlatformStep DEF IInv
<1>2. QED
  BY IInvInit, <1>1, PTL DEF Spec

\* The variables keep their types; running never drops below zero.
THEOREM WorkletTypes == Spec => []TypeOK
BY LifeInvariant, PTL DEF IInv

\* bare_worklet__running counts the worklets that have started but not yet torn
\* down, for any number of them.
THEOREM CountIsExact == Spec => []RunningExact
BY LifeInvariant, PTL DEF IInv

\* The host and the thread share the worklet, its state and its semaphore
\* without either using what the other has freed.
THEOREM NoDangling == Spec => []MemorySafe
<1>1. IInv => MemorySafe
  BY DEF IInv, TypeOK, Thread, Host, Lives, Life, MemorySafe, ReadsWorklet, HasSemaphore
<1>2. QED
  BY LifeInvariant, <1>1, PTL

\* No runtime is set up before the platform is there or outlives it.
THEOREM PlatformOutlives == Spec => []PlatformAlive
<1>1. IInv => PlatformAlive
  <2>1. SUFFICES ASSUME IInv, NEW w \in Worklets, thread[w] \in {"init"} \cup Live
                 PROVE  platform = "ready"
    BY DEF PlatformAlive
  <2>2. running # 0
    BY <2>1, Occupies DEF IInv, Counted
  <2>3. QED
    BY <2>1, <2>2 DEF IInv, PlatformInv, Live
<1>2. QED
  BY LifeInvariant, <1>1, PTL

\* bare_worklet_teardown goes on only when every worklet that ran has called its
\* exit callback and none is starting.
THEOREM TeardownIsLast == Spec => []TeardownWaits
<1>1. IInv => TeardownWaits
  <2>1. SUFFICES ASSUME IInv, teardown \in {"shutdown", "join", "done"}
                 PROVE  /\ \A w \in Worklets : host[w] \notin {"create", "barrier"}
                        /\ \A w \in Worklets : thread[w] # "none" => exits[w] = 1
                        /\ platform # "starting"
    BY DEF TeardownWaits
  <2>2. running = 0
    BY <2>1 DEF IInv, PlatformInv
  <2>3. \A w \in Worklets : host[w] # "create" /\ thread[w] \notin Counted
    BY <2>1, <2>2, Occupies DEF IInv
  <2>4. QED
    BY <2>1, <2>3 DEF IInv, TypeOK, Thread, Lives, Life, PlatformInv, Counted, Live, ReadsWorklet,
                      Exited
<1>2. QED
  BY LifeInvariant, <1>1, PTL

=============================================================================
