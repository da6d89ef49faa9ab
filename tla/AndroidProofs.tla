---------------------------- MODULE AndroidProofs ----------------------------
(***************************************************************************)
(* What AndroidWorklet guarantees for any number of worklets, proved: it   *)
(* is Worklet, the threads are attached as they were, and every global     *)
(* reference is deleted once.                                              *)
(***************************************************************************)
EXTENDS AndroidWorklet, WorkletProofs

-----------------------------------------------------------------------------
(* Worklet *)

\* What Android adds to a step of Worklet, or in between, does not change it.
LEMMA AndroidStep == [AndroidNext]_allVars => [Next]_vars
<1> SUFFICES ASSUME [AndroidNext]_allVars PROVE [Next]_vars
  OBVIOUS
<1>1. ASSUME NEW w \in Worklets,
             \/ AndroidCreate(w) \/ AndroidDestroyStarted(w) \/ AndroidDestroyPost(w)
             \/ AndroidDestroyUnstarted(w)
      PROVE  Next
  BY <1>1 DEF AndroidCreate, AndroidDestroyStarted, AndroidDestroyPost, AndroidDestroyUnstarted,
              Next, HostStep
<1>2. ASSUME NEW w \in Worklets, AndroidThreadStep(w) PROVE Next
  BY <1>2 DEF AndroidThreadStep, AndroidThreadInit, AndroidThreadSetup, AndroidThreadTeardown,
              AndroidThreadExit, AndroidThreadFree, Next, ThreadStep
<1>3. ASSUME NEW w \in Worklets, Finalize(w) PROVE UNCHANGED vars
  BY <1>3 DEF Finalize
<1>4. CASE PollEnter \/ PollExit
  BY <1>4 DEF PollEnter, PollExit
<1>5. CASE Other
  BY <1>5 DEF Other, Next, HostStep
<1>6. CASE UNCHANGED allVars
  BY <1>6 DEF allVars
<1>7. QED
  BY <1>1, <1>2, <1>3, <1>4, <1>5, <1>6 DEF AndroidNext

-----------------------------------------------------------------------------
(* The machine *)

\* The references of a worklet, by the stage it is in.
Refs(w) ==
  /\ refs[w].options = IF context[w] /\ worklet[w] = "live" THEN 1 ELSE 0
  /\ refs[w].published = IF context[w] /\ thread[w] \in Live \ {"setup"} THEN 1 ELSE 0
  /\ refs[w].assets \in 0 .. refs[w].published

\* A thread that destroys a worklet does so until it is handed over.
Calls(w) == host[w] = "post" <=> caller[w] # "nobody"

\* The types, but for how many references there are.
Shape ==
  /\ context \in [Worklets -> BOOLEAN]
  /\ refs \in [Worklets -> [Kinds -> Int]]
  /\ caller \in [Worklets -> Threads \cup {"nobody"}]
  /\ poll \in {"none", "running", "gone"}

JInv ==
  /\ Shape
  /\ AttachedAsEntered
  /\ \A w \in Worklets : Refs(w)
  /\ \A w \in Worklets : Calls(w)

\* To begin with, only Java is attached.
LEMMA JInvInit == AndroidInit => JInv
BY NamesAssumption
   DEF AndroidInit, Init, JInv, Shape, Threads, Kinds, AttachedAsEntered, Entered, Refs, Calls

\* The thread that releases a context is afterwards attached if it was before.
LEMMA ReleaseAttached ==
  ASSUME NEW w \in Worklets, NEW t, bare_kit__release_context(w, t)
  PROVE  attached' = attached
BY DEF bare_kit__release_context

\* A step that leaves the stages of threads that entered, and the polls, alone.
LEMMA SameAttached ==
  ASSUME AttachedAsEntered, attached' = attached, poll' = poll,
         \A w \in Worklets : thread'[w] \in Entered <=> thread[w] \in Entered
  PROVE  AttachedAsEntered'
BY DEF AttachedAsEntered

\* A step that leaves what the references of w depend on alone.
LEMMA SameRefs ==
  ASSUME NEW w \in Worklets, Refs(w), refs'[w] = refs[w], context'[w] = context[w],
         worklet'[w] = "live" <=> worklet[w] = "live",
         thread'[w] \in Live \ {"setup"} <=> thread[w] \in Live \ {"setup"}
  PROVE  Refs(w)'
BY DEF Refs

\* The host's steps keep the invariant, ...
LEMMA HostJInv ==
  ASSUME JInv, TypeOK, Lives, NEW w \in Worklets,
         \/ AndroidCreate(w) \/ AndroidDestroyStarted(w) \/ AndroidDestroyPost(w)
         \/ AndroidDestroyUnstarted(w)
  PROVE  JInv'
<1> USE DEF JInv, Shape, Kinds
<1>1. CASE AndroidCreate(w)
  <2> USE <1>1 DEF AndroidCreate, Create
  <2>1. PICK c \in BOOLEAN : /\ context' = [context EXCEPT ![w] = c]
                             /\ refs' = [refs EXCEPT ![w].options = IF c THEN 1 ELSE 0]
    OBVIOUS
  <2>2. Shape'
    BY <2>1
  <2>3. AttachedAsEntered'
    BY SameAttached
  <2>4. ASSUME NEW v \in Worklets PROVE Refs(v)'
    <3>1. CASE v = w
      BY <2>1, <3>1 DEF Refs, TypeOK, Lives, Life, Live
    <3>2. CASE v # w
      BY <2>1, <3>2, SameRefs DEF TypeOK
    <3>3. QED
      BY <3>1, <3>2
  <2>5. \A v \in Worklets : Calls(v)'
    BY DEF Calls
  <2>6. QED
    BY <2>2, <2>3, <2>4, <2>5
<1>2. CASE AndroidDestroyStarted(w)
  <2> USE <1>2 DEF AndroidDestroyStarted, DestroyStarted
  <2>1. PICK t \in Callers : caller' = [caller EXCEPT ![w] = t]
    OBVIOUS
  <2>2. t \in Threads /\ t # "nobody"
    BY NamesAssumption DEF Callers, Threads
  <2>3. Shape'
    BY <2>1, <2>2
  <2>4. AttachedAsEntered'
    BY SameAttached
  <2>5. \A v \in Worklets : Refs(v)'
    BY SameRefs
  <2>6. \A v \in Worklets : Calls(v)'
    BY <2>1, <2>2 DEF Calls, TypeOK
  <2>7. QED
    BY <2>3, <2>4, <2>5, <2>6
<1>3. CASE AndroidDestroyPost(w)
  <2> USE <1>3 DEF AndroidDestroyPost, DestroyPost
  <2>1. attached' = attached
    BY ReleaseAttached
  <2>2. refs' = [refs EXCEPT ![w].options = IF context[w] THEN @ - 1 ELSE @]
    BY DEF bare_kit__release_context
  <2>3. Shape'
    BY <2>2
  <2>4. AttachedAsEntered'
    BY <2>1, SameAttached
  <2>5. ASSUME NEW v \in Worklets PROVE Refs(v)'
    <3>1. CASE v = w
      BY <2>2, <3>1 DEF Refs, TypeOK, Lives, Life
    <3>2. CASE v # w
      BY <2>2, <3>2, SameRefs DEF TypeOK
    <3>3. QED
      BY <3>1, <3>2
  <2>6. \A v \in Worklets : Calls(v)'
    BY DEF Calls, TypeOK
  <2>7. QED
    BY <2>3, <2>4, <2>5, <2>6
<1>4. CASE AndroidDestroyUnstarted(w)
  <2> USE <1>4 DEF AndroidDestroyUnstarted, DestroyUnstarted
  <2>1. attached' = attached
    BY ReleaseAttached
  <2>2. refs' = [refs EXCEPT ![w].options = IF context[w] THEN @ - 1 ELSE @]
    BY DEF bare_kit__release_context
  <2>3. Shape'
    BY <2>2
  <2>4. AttachedAsEntered'
    BY <2>1, SameAttached
  <2>5. ASSUME NEW v \in Worklets PROVE Refs(v)'
    <3>1. CASE v = w
      BY <2>2, <3>1 DEF Refs, TypeOK
    <3>2. CASE v # w
      BY <2>2, <3>2, SameRefs DEF TypeOK
    <3>3. QED
      BY <3>1, <3>2
  <2>6. \A v \in Worklets : Calls(v)'
    BY DEF Calls
  <2>7. QED
    BY <2>3, <2>4, <2>5, <2>6
<1>5. QED
  BY <1>1, <1>2, <1>3, <1>4

\* ... so do those of the threads of worklets, ...
LEMMA ThreadJInv ==
  ASSUME JInv, TypeOK, NEW w \in Worklets, AndroidThreadStep(w) \/ Finalize(w)
  PROVE  JInv'
<1> USE NamesAssumption DEF JInv, Shape, Kinds, jvmVars
<1>1. CASE AndroidThreadInit(w)
  <2> USE <1>1 DEF AndroidThreadInit, ThreadInit, Goto
  <2>1. AttachedAsEntered'
    BY DEF AttachedAsEntered, TypeOK, Entered
  <2>2. \A v \in Worklets : Refs(v)'
    BY SameRefs DEF TypeOK, Live
  <2>3. QED
    BY <2>1, <2>2 DEF Calls
<1>2. CASE AndroidThreadSetup(w)
  <2> USE <1>2 DEF AndroidThreadSetup, ThreadSetup, Goto
  <2>1. refs' = [[refs EXCEPT ![w].published = IF context[w] THEN @ + 1 ELSE @]
                   EXCEPT ![w].assets = IF context[w] THEN @ + 1 ELSE @]
    BY DEF bare_kit__publish_context, bare_kit__create_resources
  <2>2. Shape'
    <3> DEFINE r == [refs EXCEPT ![w].published = IF context[w] THEN @ + 1 ELSE @]
    <3>1. r \in [Worklets -> [Kinds -> Int]]
      OBVIOUS
    <3>2. refs' = [r EXCEPT ![w].assets = IF context[w] THEN @ + 1 ELSE @]
      BY <2>1
    <3> HIDE DEF r
    <3>3. refs' \in [Worklets -> [Kinds -> Int]]
      BY <3>1, <3>2
    <3>4. QED
      BY <3>3
  <2>3. AttachedAsEntered'
    BY SameAttached DEF TypeOK, Entered
  <2>4. ASSUME NEW v \in Worklets PROVE Refs(v)'
    <3>1. CASE v = w
      BY <2>1, <3>1 DEF Refs, TypeOK, Live
    <3>2. CASE v # w
      BY <2>1, <3>2, SameRefs DEF TypeOK
    <3>3. QED
      BY <3>1, <3>2
  <2>5. QED
    BY <2>2, <2>3, <2>4 DEF Calls
<1>3. CASE AndroidThreadTeardown(w)
  <2> USE <1>3 DEF AndroidThreadTeardown, ThreadTeardown, Goto
  <2>1. refs' = [[refs EXCEPT ![w].published = IF context[w] THEN @ - 1 ELSE @]
                   EXCEPT ![w].assets = IF @ = 1 THEN @ - 1 ELSE @]
    BY DEF bare_kit__on_context_destroy, bare_kit__on_resources_finalize
  <2>2. Shape'
    <3> DEFINE r == [refs EXCEPT ![w].published = IF context[w] THEN @ - 1 ELSE @]
    <3>1. r \in [Worklets -> [Kinds -> Int]]
      OBVIOUS
    <3>2. refs' = [r EXCEPT ![w].assets = IF @ = 1 THEN @ - 1 ELSE @]
      BY <2>1
    <3> HIDE DEF r
    <3>3. refs' \in [Worklets -> [Kinds -> Int]]
      BY <3>1, <3>2
    <3>4. QED
      BY <3>3
  <2>3. AttachedAsEntered'
    BY SameAttached DEF TypeOK, Entered
  <2>4. ASSUME NEW v \in Worklets PROVE Refs(v)'
    <3>1. CASE v = w
      BY <2>1, <3>1 DEF Refs, TypeOK, Live
    <3>2. CASE v # w
      BY <2>1, <3>2, SameRefs DEF TypeOK
    <3>3. QED
      BY <3>1, <3>2
  <2>5. QED
    BY <2>2, <2>3, <2>4 DEF Calls
<1>4. CASE AndroidThreadExit(w)
  <2> USE <1>4 DEF AndroidThreadExit, ThreadExit, Goto
  <2>1. AttachedAsEntered'
    BY SameAttached DEF TypeOK, Entered
  <2>2. \A v \in Worklets : Refs(v)'
    BY SameRefs DEF TypeOK, Live
  <2>3. QED
    BY <2>1, <2>2 DEF Calls
<1>5. CASE AndroidThreadFree(w)
  <2> USE <1>5 DEF AndroidThreadFree, ThreadFree, Goto
  <2>1. AttachedAsEntered'
    BY DEF AttachedAsEntered, TypeOK, Entered
  <2>2. \A v \in Worklets : Refs(v)'
    BY SameRefs DEF TypeOK, Live
  <2>3. QED
    BY <2>1, <2>2 DEF Calls
<1>6. CASE /\ \/ PlatformInit(w) \/ ThreadOnce(w) \/ ThreadRun(w) \/ ThreadClear(w)
              \/ ThreadStopped(w) \/ ThreadWait(w)
           /\ UNCHANGED jvmVars
  <2> USE <1>6 DEF PlatformInit, ThreadOnce, ThreadRun, ThreadClear, ThreadStopped, ThreadWait,
                   Goto, perWorklet
  <2>1. AttachedAsEntered'
    BY SameAttached DEF TypeOK, Entered
  <2>2. \A v \in Worklets : Refs(v)'
    BY SameRefs DEF TypeOK, Live
  <2>3. QED
    BY <2>1, <2>2 DEF Calls
<1>7. CASE Finalize(w)
  <2> USE <1>7 DEF Finalize, vars, perWorklet
  <2>1. refs' = [refs EXCEPT ![w].assets = IF @ = 1 THEN @ - 1 ELSE @]
    BY DEF bare_kit__on_resources_finalize
  <2>2. Shape'
    BY <2>1
  <2>3. AttachedAsEntered'
    BY SameAttached
  <2>4. ASSUME NEW v \in Worklets PROVE Refs(v)'
    <3>1. CASE v = w
      BY <2>1, <3>1 DEF Refs
    <3>2. CASE v # w
      BY <2>1, <3>2, SameRefs
    <3>3. QED
      BY <3>1, <3>2
  <2>5. QED
    BY <2>2, <2>3, <2>4 DEF Calls
<1>8. QED
  BY <1>1, <1>2, <1>3, <1>4, <1>5, <1>6, <1>7 DEF AndroidThreadStep

\* ... and all others.
LEMMA JInvStep == JInv /\ TypeOK /\ Lives /\ [AndroidNext]_allVars => JInv'
<1> SUFFICES ASSUME JInv, TypeOK, Lives, [AndroidNext]_allVars PROVE JInv'
  OBVIOUS
<1>1. ASSUME UNCHANGED jvmVars, UNCHANGED <<worklet, thread>>,
             \A w \in Worklets : host'[w] = "post" <=> host[w] = "post"
      PROVE  JInv'
  BY <1>1, SameAttached, SameRefs DEF JInv, Shape, Calls, jvmVars
<1>2. CASE PollEnter \/ PollExit
  <2> USE <1>2 DEF PollEnter, PollExit, vars, perWorklet, JInv
  <2>1. AttachedAsEntered'
    BY NamesAssumption DEF AttachedAsEntered
  <2>2. \A w \in Worklets : Refs(w)'
    BY SameRefs
  <2>3. QED
    BY <2>1, <2>2 DEF Shape, Calls
<1>3. CASE Other
  <2>1. ASSUME NEW w \in Worklets,
               Start(w) \/ StartThread(w) \/ StartFails(w) \/ Barrier(w) \/ Terminate(w),
               UNCHANGED jvmVars
        PROVE  JInv'
    <3> USE <2>1 DEF Start, StartThread, StartFails, Barrier, Terminate, jvmVars, JInv
    <3>1. AttachedAsEntered'
      BY SameAttached DEF TypeOK, Lives, Life, Entered
    <3>2. \A v \in Worklets : Refs(v)'
      BY SameRefs DEF TypeOK, Lives, Life, Live
    <3>3. QED
      BY <3>1, <3>2 DEF Shape, Calls, TypeOK
  <2>2. CASE (PlatformReady \/ PlatformShutdown \/ TeardownStep) /\ UNCHANGED jvmVars
    BY <1>1, <2>2 DEF PlatformReady, PlatformShutdown, TeardownStep, TeardownBegin, TeardownCheck,
         TeardownSpurious, TeardownShutdown, TeardownJoin, perWorklet
  <2>3. QED
    BY <1>3, <2>1, <2>2 DEF Other
<1>4. CASE UNCHANGED allVars
  BY <1>1, <1>4 DEF allVars, vars, perWorklet
<1>5. QED
  BY <1>2, <1>3, <1>4, HostJInv, ThreadJInv DEF AndroidNext

-----------------------------------------------------------------------------

\* On Android, worklets live as Worklet says: AndroidWorklet implements Worklet.
THEOREM AndroidIsWorklet == AndroidSpec => Spec
<1>1. AndroidInit => Init
  BY DEF AndroidInit
<1>2. QED
  BY <1>1, AndroidStep, PTL DEF AndroidSpec, Spec

\* Both invariants hold in every reachable state.
LEMMA MachineInvariant == AndroidSpec => [](IInv /\ JInv)
<1>1. IInv => TypeOK /\ Lives
  BY DEF IInv
<1>2. QED
  BY <1>1, JInvInit, JInvStep, AndroidIsWorklet, LifeInvariant, PTL DEF AndroidSpec

\* The variables of the machine keep their types; in particular, no reference is
\* taken or deleted twice (platform.c:103-183, android/resources.c:68-138).
THEOREM AndroidTypes == AndroidSpec => []AndroidTypeOK
<1>1. JInv => AndroidTypeOK
  <2> SUFFICES ASSUME JInv PROVE AndroidTypeOK
    OBVIOUS
  <2>1. attached \subseteq Threads
    BY DEF JInv, AttachedAsEntered, Threads
  <2>2. ASSUME NEW w \in Worklets, NEW k \in Kinds PROVE refs[w][k] \in 0 .. 1
    <3>1. Refs(w) /\ refs[w].assets \in Int
      BY DEF JInv, Shape, Kinds
    <3>2. refs[w].options \in 0 .. 1 /\ refs[w].published \in 0 .. 1 /\ refs[w].assets \in 0 .. 1
      BY <3>1 DEF Refs
    <3>3. QED
      BY <3>2 DEF Kinds
  <2>3. refs \in [Worklets -> [Kinds -> 0 .. 1]]
    BY <2>2 DEF JInv, Shape
  <2>4. QED
    BY <2>1, <2>3 DEF JInv, Shape, AndroidTypeOK
<1>2. QED
  BY <1>1, MachineInvariant, PTL

\* Whoever destroys a worklet, the threads attached are those that belong there
\* (platform.c:122-150).
THEOREM ThreadsStayAttached == AndroidSpec => []AttachedAsEntered
<1>1. JInv => AttachedAsEntered
  BY DEF JInv
<1>2. QED
  BY <1>1, MachineInvariant, PTL

\* Each reference is there from when it is taken until its holder deletes it, and
\* none is left of a worklet that is gone (platform.c:103-183).
THEOREM ReferencesAreHeld == AndroidSpec => []ReferencesHeld
<1>1. IInv /\ JInv => ReferencesHeld
  <2> SUFFICES ASSUME IInv, JInv, NEW w \in Worklets
               PROVE  /\ refs[w].options = 1 <=> context[w] /\ worklet[w] = "live"
                      /\ context[w] /\ thread[w] \in ReadsWorklet => refs[w].options = 1
                      /\ refs[w].published = 1 <=> context[w] /\ thread[w] \in Live \ {"setup"}
                      /\ refs[w].assets = 1 => refs[w].published = 1
                      /\ worklet[w] = "freed" /\ thread[w] \in {"none", "gone"} =>
                           \A k \in Kinds : refs[w][k] = 0
    BY DEF ReferencesHeld
  <2>1. Refs(w) /\ Life(w)
    BY DEF JInv, IInv, Lives
  <2>2. refs[w].assets \in Int
    BY DEF JInv, Shape, Kinds
  <2>3. QED
    BY <2>1, <2>2 DEF Refs, Life, Live, Kinds
<1>2. QED
  BY <1>1, MachineInvariant, PTL

=============================================================================
