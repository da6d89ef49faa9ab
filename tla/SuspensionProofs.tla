-------------------------- MODULE SuspensionProofs --------------------------
(***************************************************************************)
(* What Suspension guarantees for any number of suspends, wakeups and      *)
(* resumes, proved: no background task is lost track of, and none is held  *)
(* once the program has ended (IInv); the flag of a pending resume is set  *)
(* when one will be observed, and a worklet that lingers has a task, while *)
(* no resume overlaps another (HInv, which adds what the flags and the     *)
(* tasks have to do with the requests that the runtime has not yet taken). *)
(***************************************************************************)
EXTENDS Suspension, SequenceTheorems, TLAPS

USE SuspensionBounds DEF Invalid

-----------------------------------------------------------------------------
(* The inductive invariant *)

(***************************************************************************)
(* Who may hold the lock: the host only as long as it reaches the runtime, *)
(* which it does from setup until the runtime is withdrawn; a function     *)
(* that ends a task has swapped it out.                                    *)
(***************************************************************************)
Holders ==
  /\ bare => thread \in {"run", "clear"}
  /\ op \in {"suspend", "wakeup", "resume"} => bare
  /\ op \in {"resume", "idle", "clear"} => step = "swapped"
  /\ op = "clear" => thread = "clear" /\ ~bare /\ identifier = Invalid

IInv == TypeOK /\ NoTaskLost /\ Holders /\ NoTaskAfterExit

\* A worklet starts without a task.
LEMMA InitHolds == Init => IInv
<1> SUFFICES ASSUME Init PROVE IInv
  OBVIOUS
<1>1. TypeOK
  <2>1. requests \in Seq([kind : {"suspend", "wakeup", "resume"}, task : Nat])
    BY EmptySeq DEF Init
  <2>2. live \subseteq 1 .. last /\ fired \subseteq 1 .. last /\ firing \subseteq 1 .. last
    BY DEF Init
  <2>3. QED
    BY <2>1, <2>2 DEF Init, TypeOK, Runtime
<1>2. NoTaskLost /\ Holders /\ NoTaskAfterExit
  BY DEF Init, NoTaskLost, Holders, NoTaskAfterExit
<1>3. QED
  BY <1>1, <1>2 DEF IInv

-----------------------------------------------------------------------------
(* Types *)

Requests == [kind : {"suspend", "wakeup", "resume"}, task : Nat]

\* A request is added at the end of the requests, ...
LEMMA RequestType ==
  ASSUME TypeOK, NEW k \in {"suspend", "wakeup", "resume"}, NEW n \in Nat, Request(k, n)
  PROVE  requests' \in Seq(Requests)
BY DEF TypeOK, Request, Requests

\* ... and taken from their front.
LEMMA TakeType ==
  ASSUME TypeOK, requests # <<>>
  PROVE  Tail(requests) \in Seq(Requests) /\ Head(requests) \in Requests
BY HeadTailProperties DEF TypeOK, Requests

\* Every step keeps the types.
LEMMA TypeStep == TypeOK /\ [Next]_vars => TypeOK'
<1> SUFFICES ASSUME TypeOK, [Next]_vars PROVE TypeOK'
  OBVIOUS
<1> USE DEF TypeOK, Runtime, lockVars, taskVars, hostVars, bareVars
<1>1. CASE Suspend
  <2>1. PICK f \in {"suspend", "wakeup"} : bare_suspension_start(f)
    BY <1>1 DEF Suspend
  <2>2. /\ op' = f /\ prev' = 0 /\ last' = last + 1
        /\ identifier' = identifier /\ firing' = firing
        /\ step' \in {"begun", "refused", "swapped"}
        /\ live' \subseteq live \cup {last + 1} /\ fired' \subseteq fired \cup {last + 1}
    BY <2>1 DEF bare_suspension_start
  <2>3. UNCHANGED <<app, thread, bare, hostVars, bareVars>>
    BY <1>1 DEF Suspend
  <2>4. live' \subseteq 1 .. last' /\ fired' \subseteq 1 .. last' /\ firing' \subseteq 1 .. last'
    BY <2>2
  <2>5. QED
    BY <2>2, <2>3, <2>4
<1>2. CASE Resume
  BY <1>2 DEF Resume, bare_suspension_end
<1>3. CASE Locked
  <2>1. CASE TaskKnown
    BY <2>1 DEF TaskKnown
  <2>2. CASE TaskSwap
    BY <2>2 DEF TaskSwap, NextTask
  <2>3. CASE SuspendFinish
    BY <2>3, RequestType DEF SuspendFinish, Finish, Requests
  <2>4. CASE WakeupFinish
    BY <2>4, RequestType DEF WakeupFinish, Finish, Requests
  <2>5. CASE ResumeFinish
    BY <2>5, RequestType DEF ResumeFinish, Finish, Requests
  <2>6. CASE ClearFinish
    BY <2>6 DEF ClearFinish, Finish
  <2>7. QED
    BY <1>3, <2>1, <2>2, <2>3, <2>4, <2>5, <2>6 DEF Locked
<1>4. CASE ThreadSetup \/ ThreadRun \/ GoIdle \/ Destroy
  <2>1. CASE ThreadSetup
    BY <2>1 DEF ThreadSetup
  <2>2. CASE ThreadRun
    BY <2>2 DEF ThreadRun
  <2>3. CASE GoIdle
    BY <2>3 DEF GoIdle
  <2>4. CASE Destroy
    BY <2>4 DEF Destroy
  <2>5. QED
    BY <1>4, <2>1, <2>2, <2>3, <2>4
<1>5. CASE Take
  <2>1. Tail(requests) \in Seq(Requests) /\ Head(requests) \in Requests
    BY <1>5, TakeType DEF Take
  <2>2. QED
    BY <1>5, <2>1 DEF Take, Requests
<1>6. CASE Callbacks
  <2>1. CASE OnIdle
    BY <2>1 DEF OnIdle, bare_suspension_end
  <2>2. CASE OnIdleFinish
    BY <2>2 DEF OnIdleFinish, Finish
  <2>3. CASE OnResume
    BY <2>3 DEF OnResume
  <2>4. QED
    BY <1>6, <2>1, <2>2, <2>3 DEF Callbacks
<1>7. CASE Clear
  BY <1>7 DEF Clear, bare_suspension_end
<1>8. ASSUME NEW n \in 1 .. last, Expire(n) PROVE TypeOK'
  <2>1. PICK next \in Expiring(n) :
          /\ identifier' = IF identifier = next THEN Invalid ELSE identifier
          /\ firing' = firing \cup ({next} \ {Invalid})
    BY <1>8 DEF Expire
  <2>2. next \in 0 .. n
    BY <2>1 DEF Expiring
  <2>3. QED
    BY <1>8, <2>1, <2>2 DEF Expire
<1>9. ASSUME NEW n \in 1 .. last, ExpireEnd(n) PROVE TypeOK'
  BY <1>9 DEF ExpireEnd
<1>10. CASE UNCHANGED vars
  BY <1>10 DEF vars
<1>11. QED
  BY <1>1, <1>2, <1>3, <1>4, <1>5, <1>6, <1>7, <1>8, <1>9, <1>10 DEF Next

-----------------------------------------------------------------------------
(* Tasks *)

\* Every step keeps track of the tasks.
LEMMA TasksStep ==
  ASSUME IInv, Next
  PROVE  NoTaskLost' /\ Holders' /\ NoTaskAfterExit'
<1> DEFINE Goal == NoTaskLost' /\ Holders' /\ NoTaskAfterExit'
<1> USE DEF IInv, TypeOK, NoTaskLost, NextTask, Holders, NoTaskAfterExit,
            lockVars, taskVars, hostVars, bareVars
<1>1. CASE Suspend
  BY <1>1 DEF Suspend, bare_suspension_start
<1>2. CASE Resume
  BY <1>2 DEF Resume, bare_suspension_end
<1>3. CASE Locked
  <2>1. CASE TaskKnown
    BY <2>1 DEF TaskKnown
  <2>2. CASE TaskSwap
    BY <2>2 DEF TaskSwap, NextTask
  <2>3. CASE SuspendFinish
    BY <2>3 DEF SuspendFinish, Finish
  <2>4. CASE WakeupFinish
    BY <2>4 DEF WakeupFinish, Finish
  <2>5. CASE ResumeFinish
    BY <2>5 DEF ResumeFinish, Finish
  <2>6. CASE ClearFinish
    BY <2>6 DEF ClearFinish, Finish
  <2>7. QED
    BY <1>3, <2>1, <2>2, <2>3, <2>4, <2>5, <2>6 DEF Locked
<1>4. CASE ThreadSetup \/ ThreadRun \/ GoIdle \/ Destroy \/ Take
  <2>1. CASE ThreadSetup
    BY <2>1 DEF ThreadSetup
  <2>2. CASE ThreadRun
    BY <2>2 DEF ThreadRun
  <2>3. CASE GoIdle \/ Take
    <3>1. UNCHANGED <<thread, bare, lockVars, taskVars>>
      BY <2>3 DEF GoIdle, Take
    <3>2. QED
      BY <3>1
  <2>4. CASE Destroy
    BY <2>4 DEF Destroy
  <2>5. QED
    BY <1>4, <2>1, <2>2, <2>3, <2>4
<1>5. CASE Callbacks
  <2>1. CASE OnIdle
    BY <2>1 DEF OnIdle, bare_suspension_end
  <2>2. CASE OnIdleFinish
    BY <2>2 DEF OnIdleFinish, Finish
  <2>3. CASE OnResume
    BY <2>3 DEF OnResume
  <2>4. QED
    BY <1>5, <2>1, <2>2, <2>3 DEF Callbacks
<1>6. CASE Clear
  BY <1>6 DEF Clear, bare_suspension_end
<1>7. ASSUME NEW n \in 1 .. last, Expire(n) PROVE Goal
  BY <1>7 DEF Expire
<1>8. ASSUME NEW n \in 1 .. last, ExpireEnd(n) PROVE Goal
  BY <1>8 DEF ExpireEnd
<1>9. QED
  BY <1>1, <1>2, <1>3, <1>4, <1>5, <1>6, <1>7, <1>8 DEF Next

\* Every step keeps the invariant.
LEMMA NextHolds == IInv /\ [Next]_vars => IInv'
<1> SUFFICES ASSUME IInv, [Next]_vars PROVE IInv'
  OBVIOUS
<1>1. TypeOK'
  BY TypeStep DEF IInv
<1>2. CASE Next
  BY <1>1, <1>2, TasksStep DEF IInv
<1>3. CASE UNCHANGED vars
  BY <1>1, <1>3 DEF IInv, NoTaskLost, NextTask, Holders, NoTaskAfterExit, vars, lockVars, taskVars
<1>4. QED
  BY <1>2, <1>3

\* The invariant holds in every reachable state.
LEMMA Invariance == Spec => []IInv
<1>1. QED
  BY InitHolds, NextHolds, PTL DEF Spec

-----------------------------------------------------------------------------

\* The variables keep their types.
THEOREM SuspensionTypes == Spec => []TypeOK
<1>1. IInv => TypeOK
  BY DEF IInv
<1>2. QED
  BY <1>1, Invariance, PTL

\* A task that was begun is the current one, or about to be it or to be ended,
\* whenever and however often tasks expire (ios/suspension.m:34-45, 66-68).
THEOREM TasksAreTracked == Spec => []NoTaskLost
<1>1. IInv => NoTaskLost
  BY DEF IInv
<1>2. QED
  BY <1>1, Invariance, PTL

\* A worklet whose program has ended holds no task (worklet.c:642-649).
THEOREM ExitEndsTasks == Spec => []NoTaskAfterExit
<1>1. IInv => NoTaskAfterExit
  BY DEF IInv
<1>2. QED
  BY <1>1, Invariance, PTL

-----------------------------------------------------------------------------
(* What is pending *)

\* Among requests q and after the n-th: a resume, ...
ResumeAfter(q, n) == \E j \in n + 1 .. Len(q) : q[j].kind = "resume"

\* ... a suspend that is undone by a resume after it, ...
UndoneAfter(q, n) == \E i \in n + 1 .. Len(q) : q[i].kind = "suspend" /\ ResumeAfter(q, i)

\* ... such a suspend after yet another resume, ...
AgainAfter(q, n) == \E i \in n + 1 .. Len(q) : q[i].kind = "resume" /\ UndoneAfter(q, i)

\* ... and such a resume after a suspend, hence two that are undone; ...
TwiceAfter(q, n) == \E i \in n + 1 .. Len(q) : q[i].kind = "suspend" /\ AgainAfter(q, i)

\* ... and a suspend that is not undone.
LeftAfter(q, n) == \E i \in n + 1 .. Len(q) : q[i].kind = "suspend" /\ ~ResumeAfter(q, i)

\* A request at the end of the others.
LEMMA AppendAt ==
  ASSUME NEW q \in Seq(Requests), NEW r \in Requests, NEW p, p = Append(q, r)
  PROVE  /\ Len(q) \in Nat /\ Len(p) = Len(q) + 1 /\ p[Len(q) + 1] = r
         /\ \A i \in 1 .. Len(q) : p[i] = q[i]
OBVIOUS

\* The requests after the first.
LEMMA TailAt ==
  ASSUME NEW q \in Seq(Requests), q # <<>>, NEW p, p = Tail(q)
  PROVE  /\ Len(q) \in Nat /\ Len(q) > 0 /\ Len(p) = Len(q) - 1 /\ q[1] = Head(q)
         /\ \A i \in 1 .. Len(p) : p[i] = q[i + 1]
         /\ \A i \in 2 .. Len(q) : q[i] = p[i - 1]
OBVIOUS

\* A suspend or a wakeup undoes nothing.
LEMMA AppendOther ==
  ASSUME NEW q \in Seq(Requests), NEW r \in Requests, NEW p, p = Append(q, r), r.kind # "resume",
         NEW n \in Nat
  PROVE  /\ ResumeAfter(p, n) <=> ResumeAfter(q, n)
         /\ UndoneAfter(p, n) <=> UndoneAfter(q, n)
         /\ AgainAfter(p, n) <=> AgainAfter(q, n)
         /\ TwiceAfter(p, n) <=> TwiceAfter(q, n)
         /\ r.kind = "wakeup" => (LeftAfter(p, n) <=> LeftAfter(q, n))
         /\ r.kind = "suspend" /\ n <= Len(q) => LeftAfter(p, n)
<1>1. /\ Len(q) \in Nat /\ Len(p) = Len(q) + 1 /\ p[Len(q) + 1] = r
      /\ \A i \in 1 .. Len(q) : p[i] = q[i]
  BY AppendAt
<1>2. \A m \in Nat : ResumeAfter(p, m) <=> ResumeAfter(q, m)
  BY <1>1 DEF ResumeAfter
<1>3. ~ResumeAfter(q, Len(q) + 1)
  BY <1>1 DEF ResumeAfter
<1>4. \A m \in Nat : UndoneAfter(p, m) <=> UndoneAfter(q, m)
  BY <1>1, <1>2, <1>3 DEF UndoneAfter
<1>5. \A m \in Nat : AgainAfter(p, m) <=> AgainAfter(q, m)
  BY <1>1, <1>4 DEF AgainAfter
<1>6. ~AgainAfter(q, Len(q) + 1)
  BY <1>1 DEF AgainAfter
<1>7. TwiceAfter(p, n) <=> TwiceAfter(q, n)
  BY <1>1, <1>5, <1>6 DEF TwiceAfter
<1>8. ASSUME r.kind = "wakeup" PROVE LeftAfter(p, n) <=> LeftAfter(q, n)
  BY <1>1, <1>2, <1>8 DEF LeftAfter
<1>9. ASSUME r.kind = "suspend", n <= Len(q) PROVE LeftAfter(p, n)
  BY <1>1, <1>2, <1>3, <1>9 DEF LeftAfter
<1>10. QED
  BY <1>2, <1>4, <1>5, <1>7, <1>8, <1>9

\* A resume undoes what is left.
LEMMA AppendResume ==
  ASSUME NEW q \in Seq(Requests), NEW r \in Requests, NEW p, p = Append(q, r), r.kind = "resume"
  PROVE  /\ ResumeAfter(p, 0)
         /\ \A n \in Nat : ~LeftAfter(p, n)
         /\ UndoneAfter(p, 0) <=> UndoneAfter(q, 0) \/ LeftAfter(q, 0)
         /\ AgainAfter(p, 0) => AgainAfter(q, 0) \/ (ResumeAfter(q, 0) /\ LeftAfter(q, 0))
         /\ TwiceAfter(p, 0) => TwiceAfter(q, 0) \/ (UndoneAfter(q, 0) /\ LeftAfter(q, 0))
<1>1. /\ Len(q) \in Nat /\ Len(p) = Len(q) + 1 /\ p[Len(q) + 1] = r
      /\ \A i \in 1 .. Len(q) : p[i] = q[i]
  BY AppendAt
<1>2. \A m \in 0 .. Len(q) : ResumeAfter(p, m)
  BY <1>1 DEF ResumeAfter
<1>3. \A m \in Nat : ~LeftAfter(p, m)
  BY <1>1, <1>2 DEF LeftAfter
<1>4. \A m \in Nat : UndoneAfter(p, m) <=> UndoneAfter(q, m) \/ LeftAfter(q, m)
  BY <1>1, <1>2 DEF UndoneAfter, LeftAfter
<1>5. \A m, n \in Nat : m <= n /\ LeftAfter(q, n) => LeftAfter(q, m)
  BY <1>1 DEF LeftAfter
<1>6. ~UndoneAfter(p, Len(q) + 1)
  BY <1>1 DEF UndoneAfter
<1>7. \A m \in Nat :
        AgainAfter(p, m) => AgainAfter(q, m) \/ (ResumeAfter(q, m) /\ LeftAfter(q, m))
  BY <1>1, <1>4, <1>5, <1>6 DEF AgainAfter, ResumeAfter
<1>8. TwiceAfter(p, 0) => TwiceAfter(q, 0) \/ (UndoneAfter(q, 0) /\ LeftAfter(q, 0))
  BY <1>1, <1>5, <1>7 DEF TwiceAfter, UndoneAfter
<1>9. QED
  BY <1>1, <1>2, <1>3, <1>4, <1>7, <1>8

\* Without the first of them, the requests count from the next.
LEMMA TailShift ==
  ASSUME NEW q \in Seq(Requests), q # <<>>, NEW p, p = Tail(q)
  PROVE  \A n \in Nat :
           /\ ResumeAfter(p, n) <=> ResumeAfter(q, n + 1)
           /\ UndoneAfter(p, n) <=> UndoneAfter(q, n + 1)
           /\ AgainAfter(p, n) <=> AgainAfter(q, n + 1)
           /\ TwiceAfter(p, n) <=> TwiceAfter(q, n + 1)
           /\ LeftAfter(p, n) <=> LeftAfter(q, n + 1)
<1>1. /\ Len(q) \in Nat /\ Len(q) > 0 /\ Len(p) = Len(q) - 1
      /\ \A i \in 1 .. Len(p) : p[i] = q[i + 1]
  BY TailAt
<1>2. \A n \in Nat : \A i \in (n + 1) + 1 .. Len(q) : \E j \in n + 1 .. Len(p) : i = j + 1
  <2>. SUFFICES ASSUME NEW n \in Nat, NEW i \in (n + 1) + 1 .. Len(q)
                PROVE  \E j \in n + 1 .. Len(p) : i = j + 1
    OBVIOUS
  <2>1. i - 1 \in n + 1 .. Len(p) /\ i = (i - 1) + 1
    BY <1>1
  <2>2. QED
    BY <2>1
<1>3. \A n \in Nat : ResumeAfter(p, n) <=> ResumeAfter(q, n + 1)
  <2>. SUFFICES ASSUME NEW n \in Nat PROVE ResumeAfter(p, n) <=> ResumeAfter(q, n + 1)
    OBVIOUS
  <2>1. ASSUME ResumeAfter(p, n) PROVE ResumeAfter(q, n + 1)
    <3>1. PICK i \in n + 1 .. Len(p) : p[i].kind = "resume"
      BY <2>1 DEF ResumeAfter
    <3>2. i \in Nat /\ i \in 1 .. Len(p) /\ i + 1 \in (n + 1) + 1 .. Len(q)
      BY <1>1
    <3>3. q[i + 1].kind = "resume"
      BY <1>1, <3>1, <3>2
    <3>4. QED
      BY <3>2, <3>3 DEF ResumeAfter
  <2>2. ASSUME ResumeAfter(q, n + 1) PROVE ResumeAfter(p, n)
    <3>1. PICK i \in (n + 1) + 1 .. Len(q) : q[i].kind = "resume"
      BY <2>2 DEF ResumeAfter
    <3>2. PICK j \in n + 1 .. Len(p) : i = j + 1
      BY <1>2
    <3>3. j \in Nat /\ j \in 1 .. Len(p)
      BY <1>1
    <3>4. p[j].kind = "resume"
      BY <1>1, <3>1, <3>2, <3>3
    <3>5. QED
      BY <3>4 DEF ResumeAfter
  <2>3. QED
    BY <2>1, <2>2
<1>4. \A n \in Nat : UndoneAfter(p, n) <=> UndoneAfter(q, n + 1)
  <2>. SUFFICES ASSUME NEW n \in Nat PROVE UndoneAfter(p, n) <=> UndoneAfter(q, n + 1)
    OBVIOUS
  <2>1. ASSUME UndoneAfter(p, n) PROVE UndoneAfter(q, n + 1)
    <3>1. PICK i \in n + 1 .. Len(p) : p[i].kind = "suspend" /\ ResumeAfter(p, i)
      BY <2>1 DEF UndoneAfter
    <3>2. i \in Nat /\ i \in 1 .. Len(p) /\ i + 1 \in (n + 1) + 1 .. Len(q)
      BY <1>1
    <3>3. q[i + 1].kind = "suspend" /\ ResumeAfter(q, i + 1)
      BY <1>1, <3>1, <3>2, <1>3
    <3>4. QED
      BY <3>2, <3>3 DEF UndoneAfter
  <2>2. ASSUME UndoneAfter(q, n + 1) PROVE UndoneAfter(p, n)
    <3>1. PICK i \in (n + 1) + 1 .. Len(q) : q[i].kind = "suspend" /\ ResumeAfter(q, i)
      BY <2>2 DEF UndoneAfter
    <3>2. PICK j \in n + 1 .. Len(p) : i = j + 1
      BY <1>2
    <3>3. j \in Nat /\ j \in 1 .. Len(p)
      BY <1>1
    <3>4. p[j].kind = "suspend" /\ ResumeAfter(p, j)
      BY <1>1, <3>1, <3>2, <3>3, <1>3
    <3>5. QED
      BY <3>4 DEF UndoneAfter
  <2>3. QED
    BY <2>1, <2>2
<1>5. \A n \in Nat : AgainAfter(p, n) <=> AgainAfter(q, n + 1)
  <2>. SUFFICES ASSUME NEW n \in Nat PROVE AgainAfter(p, n) <=> AgainAfter(q, n + 1)
    OBVIOUS
  <2>1. ASSUME AgainAfter(p, n) PROVE AgainAfter(q, n + 1)
    <3>1. PICK i \in n + 1 .. Len(p) : p[i].kind = "resume" /\ UndoneAfter(p, i)
      BY <2>1 DEF AgainAfter
    <3>2. i \in Nat /\ i \in 1 .. Len(p) /\ i + 1 \in (n + 1) + 1 .. Len(q)
      BY <1>1
    <3>3. q[i + 1].kind = "resume" /\ UndoneAfter(q, i + 1)
      BY <1>1, <3>1, <3>2, <1>4
    <3>4. QED
      BY <3>2, <3>3 DEF AgainAfter
  <2>2. ASSUME AgainAfter(q, n + 1) PROVE AgainAfter(p, n)
    <3>1. PICK i \in (n + 1) + 1 .. Len(q) : q[i].kind = "resume" /\ UndoneAfter(q, i)
      BY <2>2 DEF AgainAfter
    <3>2. PICK j \in n + 1 .. Len(p) : i = j + 1
      BY <1>2
    <3>3. j \in Nat /\ j \in 1 .. Len(p)
      BY <1>1
    <3>4. p[j].kind = "resume" /\ UndoneAfter(p, j)
      BY <1>1, <3>1, <3>2, <3>3, <1>4
    <3>5. QED
      BY <3>4 DEF AgainAfter
  <2>3. QED
    BY <2>1, <2>2
<1>6. \A n \in Nat : TwiceAfter(p, n) <=> TwiceAfter(q, n + 1)
  <2>. SUFFICES ASSUME NEW n \in Nat PROVE TwiceAfter(p, n) <=> TwiceAfter(q, n + 1)
    OBVIOUS
  <2>1. ASSUME TwiceAfter(p, n) PROVE TwiceAfter(q, n + 1)
    <3>1. PICK i \in n + 1 .. Len(p) : p[i].kind = "suspend" /\ AgainAfter(p, i)
      BY <2>1 DEF TwiceAfter
    <3>2. i \in Nat /\ i \in 1 .. Len(p) /\ i + 1 \in (n + 1) + 1 .. Len(q)
      BY <1>1
    <3>3. q[i + 1].kind = "suspend" /\ AgainAfter(q, i + 1)
      BY <1>1, <3>1, <3>2, <1>5
    <3>4. QED
      BY <3>2, <3>3 DEF TwiceAfter
  <2>2. ASSUME TwiceAfter(q, n + 1) PROVE TwiceAfter(p, n)
    <3>1. PICK i \in (n + 1) + 1 .. Len(q) : q[i].kind = "suspend" /\ AgainAfter(q, i)
      BY <2>2 DEF TwiceAfter
    <3>2. PICK j \in n + 1 .. Len(p) : i = j + 1
      BY <1>2
    <3>3. j \in Nat /\ j \in 1 .. Len(p)
      BY <1>1
    <3>4. p[j].kind = "suspend" /\ AgainAfter(p, j)
      BY <1>1, <3>1, <3>2, <3>3, <1>5
    <3>5. QED
      BY <3>4 DEF TwiceAfter
  <2>3. QED
    BY <2>1, <2>2
<1>7. \A n \in Nat : LeftAfter(p, n) <=> LeftAfter(q, n + 1)
  <2>. SUFFICES ASSUME NEW n \in Nat PROVE LeftAfter(p, n) <=> LeftAfter(q, n + 1)
    OBVIOUS
  <2>1. ASSUME LeftAfter(p, n) PROVE LeftAfter(q, n + 1)
    <3>1. PICK i \in n + 1 .. Len(p) : p[i].kind = "suspend" /\ ~ResumeAfter(p, i)
      BY <2>1 DEF LeftAfter
    <3>2. i \in Nat /\ i \in 1 .. Len(p) /\ i + 1 \in (n + 1) + 1 .. Len(q)
      BY <1>1
    <3>3. q[i + 1].kind = "suspend" /\ ~ResumeAfter(q, i + 1)
      BY <1>1, <3>1, <3>2, <1>3
    <3>4. QED
      BY <3>2, <3>3 DEF LeftAfter
  <2>2. ASSUME LeftAfter(q, n + 1) PROVE LeftAfter(p, n)
    <3>1. PICK i \in (n + 1) + 1 .. Len(q) : q[i].kind = "suspend" /\ ~ResumeAfter(q, i)
      BY <2>2 DEF LeftAfter
    <3>2. PICK j \in n + 1 .. Len(p) : i = j + 1
      BY <1>2
    <3>3. j \in Nat /\ j \in 1 .. Len(p)
      BY <1>1
    <3>4. p[j].kind = "suspend" /\ ~ResumeAfter(p, j)
      BY <1>1, <3>1, <3>2, <3>3, <1>3
    <3>5. QED
      BY <3>4 DEF LeftAfter
  <2>3. QED
    BY <2>1, <2>2
<1>8. QED
  BY <1>3, <1>4, <1>5, <1>6, <1>7

\* What the first of the requests makes of the others.
LEMMA TailKinds ==
  ASSUME NEW q \in Seq(Requests), q # <<>>, NEW p, p = Tail(q)
  PROVE  LET k == Head(q).kind IN
         /\ ResumeAfter(q, 0) <=> k = "resume" \/ ResumeAfter(p, 0)
         /\ UndoneAfter(q, 0) <=> (k = "suspend" /\ ResumeAfter(p, 0)) \/ UndoneAfter(p, 0)
         /\ AgainAfter(q, 0) <=> (k = "resume" /\ UndoneAfter(p, 0)) \/ AgainAfter(p, 0)
         /\ TwiceAfter(q, 0) <=> (k = "suspend" /\ AgainAfter(p, 0)) \/ TwiceAfter(p, 0)
         /\ LeftAfter(q, 0) <=> (k = "suspend" /\ ~ResumeAfter(p, 0)) \/ LeftAfter(p, 0)
<1> DEFINE k == Head(q).kind
<1>1. Len(q) \in Nat /\ Len(q) > 0 /\ q[1].kind = k
  BY TailAt
<1>2. 0 \in Nat /\ 0 + 1 = 1 /\ \A i : i \in 1 .. Len(q) <=> i = 1 \/ i \in 2 .. Len(q)
  BY <1>1
<1>3. /\ ResumeAfter(p, 0) <=> ResumeAfter(q, 1)
      /\ UndoneAfter(p, 0) <=> UndoneAfter(q, 1)
      /\ AgainAfter(p, 0) <=> AgainAfter(q, 1)
      /\ TwiceAfter(p, 0) <=> TwiceAfter(q, 1)
      /\ LeftAfter(p, 0) <=> LeftAfter(q, 1)
  BY <1>2, TailShift
<1>4. ResumeAfter(q, 0) <=> k = "resume" \/ ResumeAfter(q, 1)
  BY <1>1, <1>2 DEF ResumeAfter
<1>5. UndoneAfter(q, 0) <=> (k = "suspend" /\ ResumeAfter(q, 1)) \/ UndoneAfter(q, 1)
  BY <1>1, <1>2 DEF UndoneAfter
<1>6. AgainAfter(q, 0) <=> (k = "resume" /\ UndoneAfter(q, 1)) \/ AgainAfter(q, 1)
  BY <1>1, <1>2 DEF AgainAfter
<1>7. TwiceAfter(q, 0) <=> (k = "suspend" /\ AgainAfter(q, 1)) \/ TwiceAfter(q, 1)
  BY <1>1, <1>2 DEF TwiceAfter
<1>8. LeftAfter(q, 0) <=> (k = "suspend" /\ ~ResumeAfter(q, 1)) \/ LeftAfter(q, 1)
  BY <1>1, <1>2 DEF LeftAfter
<1>9. QED
  BY <1>3, <1>4, <1>5, <1>6, <1>7, <1>8

\* A suspend is undone by a resume, and one that is undone again was undone.
LEMMA UndoneResumes ==
  ASSUME NEW q \in Seq(Requests)
  PROVE  /\ UndoneAfter(q, 0) => ResumeAfter(q, 0)
         /\ AgainAfter(q, 0) => UndoneAfter(q, 0)
         /\ TwiceAfter(q, 0) => AgainAfter(q, 0)
<1>1. Len(q) \in Nat
  OBVIOUS
<1>2. \A m, n \in Nat : m <= n /\ ResumeAfter(q, n) => ResumeAfter(q, m)
  BY <1>1 DEF ResumeAfter
<1>3. \A m, n \in Nat : m <= n /\ UndoneAfter(q, n) => UndoneAfter(q, m)
  BY <1>1 DEF UndoneAfter
<1>4. \A m, n \in Nat : m <= n /\ AgainAfter(q, n) => AgainAfter(q, m)
  BY <1>1 DEF AgainAfter
<1>5. QED
  BY <1>1, <1>2, <1>3, <1>4 DEF UndoneAfter, AgainAfter, TwiceAfter

-----------------------------------------------------------------------------
(* Resuming *)

\* The runtime does not linger, nor will it without another suspend.
Quiet == runtime \in {"active", "resuming"}

(***************************************************************************)
(* What the host's flags say of the runtime and of the requests it has not *)
(* taken: suspended, that the last suspend is not yet undone; resuming, as *)
(* long as no resume overlaps another, that there is one to be observed,   *)
(* and then only one.  The idle callback ends the task only if there is    *)
(* none.                                                                   *)
(***************************************************************************)
Host ==
  /\ suspended <=> LeftAfter(requests, 0) \/ (~Quiet /\ ~ResumeAfter(requests, 0))
  /\ ~overlapped =>
       /\ resuming <=> \/ runtime = "resuming"
                       \/ runtime # "active" /\ ResumeAfter(requests, 0)
                       \/ UndoneAfter(requests, 0)
       /\ runtime = "resuming" => ~UndoneAfter(requests, 0)
       /\ ~Quiet => ~AgainAfter(requests, 0)
       /\ runtime = "active" => ~TwiceAfter(requests, 0)
  /\ op = "idle" => runtime = "idling" /\ ~resuming

\* A worklet starts active and with nothing pending.
LEMMA HostInit == Init => Host
<1> SUFFICES ASSUME Init PROVE Host
  OBVIOUS
<1>1. \A n \in Nat : ~(\E j \in n + 1 .. Len(<<>>) : TRUE)
  OBVIOUS
<1>2. /\ ~ResumeAfter(requests, 0) /\ ~UndoneAfter(requests, 0) /\ ~AgainAfter(requests, 0)
      /\ ~TwiceAfter(requests, 0) /\ ~LeftAfter(requests, 0)
  BY <1>1 DEF Init, ResumeAfter, UndoneAfter, AgainAfter, TwiceAfter, LeftAfter
<1>3. QED
  BY <1>2 DEF Init, Host, Quiet

\* What a request of the host makes of the flags.
LEMMA HostRequest ==
  ASSUME TypeOK, Host, SuspendFinish \/ WakeupFinish \/ ResumeFinish
  PROVE  Host'
<1>1. requests \in Seq(Requests) /\ last \in Nat
  BY DEF TypeOK, Requests
<1>2. CASE SuspendFinish
  <2>1. PICK r \in Requests : r.kind = "suspend" /\ requests' = Append(requests, r)
    BY <1>1, <1>2, [kind |-> "suspend", task |-> last] \in Requests
    DEF SuspendFinish, Request, Requests
  <2>2. Len(requests) \in Nat /\ 0 <= Len(requests)
    BY <1>1
  <2>3. /\ ResumeAfter(requests', 0) <=> ResumeAfter(requests, 0)
        /\ UndoneAfter(requests', 0) <=> UndoneAfter(requests, 0)
        /\ AgainAfter(requests', 0) <=> AgainAfter(requests, 0)
        /\ TwiceAfter(requests', 0) <=> TwiceAfter(requests, 0)
        /\ LeftAfter(requests', 0)
    BY <1>1, <2>1, <2>2, "suspend" # "resume", AppendOther
  <2>4. QED
    BY <1>2, <2>3 DEF Host, Quiet, SuspendFinish, Finish
<1>3. CASE WakeupFinish
  <2>1. PICK r \in Requests : r.kind = "wakeup" /\ requests' = Append(requests, r)
    BY <1>1, <1>3, [kind |-> "wakeup", task |-> last] \in Requests
    DEF WakeupFinish, Request, Requests
  <2>2. /\ ResumeAfter(requests', 0) <=> ResumeAfter(requests, 0)
        /\ UndoneAfter(requests', 0) <=> UndoneAfter(requests, 0)
        /\ AgainAfter(requests', 0) <=> AgainAfter(requests, 0)
        /\ TwiceAfter(requests', 0) <=> TwiceAfter(requests, 0)
        /\ LeftAfter(requests', 0) <=> LeftAfter(requests, 0)
    BY <1>1, <2>1, "wakeup" # "resume", AppendOther
  <2>3. QED
    BY <1>3, <2>2 DEF Host, Quiet, WakeupFinish, Finish, hostVars
<1>4. CASE ResumeFinish
  <2>1. PICK r \in Requests : r.kind = "resume" /\ requests' = Append(requests, r)
    BY <1>1, <1>4, [kind |-> "resume", task |-> 0] \in Requests
    DEF ResumeFinish, Request, Requests
  <2>2. /\ ResumeAfter(requests', 0) /\ ~LeftAfter(requests', 0)
        /\ UndoneAfter(requests', 0) <=> UndoneAfter(requests, 0) \/ LeftAfter(requests, 0)
        /\ AgainAfter(requests', 0) =>
             AgainAfter(requests, 0) \/ (ResumeAfter(requests, 0) /\ LeftAfter(requests, 0))
        /\ TwiceAfter(requests', 0) =>
             TwiceAfter(requests, 0) \/ (UndoneAfter(requests, 0) /\ LeftAfter(requests, 0))
    BY <1>1, <2>1, AppendResume
  <2>3. /\ op' = "none" /\ runtime' = runtime /\ suspended' = FALSE
        /\ overlapped' = (overlapped \/ (suspended /\ resuming))
        /\ resuming' = (resuming \/ suspended)
    BY <1>4 DEF ResumeFinish, Finish
  <2>4. QED
    BY <2>2, <2>3 DEF TypeOK, Host, Quiet, Runtime
<1>5. QED
  BY <1>2, <1>3, <1>4

\* The runtime takes the first of the requests.
LEMMA HostTake == ASSUME TypeOK, Host, Take PROVE Host'
<1>1. requests \in Seq(Requests) /\ requests # <<>> /\ requests' = Tail(requests)
  BY DEF TypeOK, Requests, Take
<1>2. PICK k : k = Head(requests).kind
  OBVIOUS
<1>3. k \in {"suspend", "wakeup", "resume"}
  BY <1>2, TakeType DEF Take, Requests
<1>4. /\ ResumeAfter(requests, 0) <=> k = "resume" \/ ResumeAfter(requests', 0)
      /\ UndoneAfter(requests, 0)
           <=> (k = "suspend" /\ ResumeAfter(requests', 0)) \/ UndoneAfter(requests', 0)
      /\ AgainAfter(requests, 0)
           <=> (k = "resume" /\ UndoneAfter(requests', 0)) \/ AgainAfter(requests', 0)
      /\ TwiceAfter(requests, 0)
           <=> (k = "suspend" /\ AgainAfter(requests', 0)) \/ TwiceAfter(requests', 0)
      /\ LeftAfter(requests, 0)
           <=> (k = "suspend" /\ ~ResumeAfter(requests', 0)) \/ LeftAfter(requests', 0)
  BY <1>2, <1>1, TailKinds
<1>5. /\ UNCHANGED <<op, suspended, resuming, overlapped>>
      /\ runtime \notin {"idling", "resuming"}
      /\ \/ k = "suspend" /\ runtime = "active" /\ runtime' = "lingering"
         \/ k # "resume" /\ runtime # "active" /\ runtime' = "awake"
         \/ k = "resume" /\ runtime # "active" /\ runtime' = "resuming"
         \/ (k = "resume" <=> runtime = "active") /\ runtime' = runtime
         \/ k = "wakeup" /\ runtime = "active" /\ runtime' = runtime
  BY <1>2 DEF Take, InLoop, lockVars, hostVars
<1>6. UndoneAfter(requests', 0) => ResumeAfter(requests', 0)
  BY <1>1, TakeType, UndoneResumes DEF TypeOK
<1>7. AgainAfter(requests', 0) => UndoneAfter(requests', 0)
  BY <1>1, TakeType, UndoneResumes DEF TypeOK
<1>8. QED
  BY <1>3, <1>4, <1>5, <1>6, <1>7 DEF Host, Quiet, TypeOK, Runtime

\* Every step keeps the flags.
LEMMA HostStep == ASSUME TypeOK, Host, Next PROVE Host'
<1> USE DEF lockVars, taskVars, hostVars, bareVars
<1>1. CASE Suspend
  BY <1>1 DEF Suspend, bare_suspension_start, Host, Quiet
<1>2. CASE Resume
  BY <1>2 DEF Resume, bare_suspension_end, Host, Quiet
<1>3. CASE Locked
  <2>1. CASE TaskKnown
    BY <2>1 DEF TaskKnown, Host, Quiet
  <2>2. CASE TaskSwap
    BY <2>2 DEF TaskSwap, Host, Quiet
  <2>3. CASE ClearFinish
    BY <2>3 DEF ClearFinish, Finish, Host, Quiet
  <2>4. QED
    BY <1>3, <2>1, <2>2, <2>3, HostRequest DEF Locked
<1>4. CASE ThreadSetup \/ ThreadRun \/ Destroy
  BY <1>4 DEF ThreadSetup, ThreadRun, Destroy, Host, Quiet
<1>5. CASE Take
  BY <1>5, HostTake
<1>6. CASE GoIdle
  BY <1>6 DEF GoIdle, InLoop, Host, Quiet
<1>7. CASE Callbacks
  <2>1. CASE OnIdle
    BY <2>1 DEF OnIdle, bare_suspension_end, Host, Quiet
  <2>2. CASE OnIdleFinish
    BY <2>2 DEF OnIdleFinish, Finish, Host, Quiet
  <2>3. CASE OnResume
    <3>1. ~TwiceAfter(requests, 0) \/ UndoneAfter(requests, 0)
      BY UndoneResumes DEF TypeOK, Requests
    <3>2. CASE ~overlapped
      BY <2>3, <3>1, <3>2 DEF OnResume, Host, Quiet
    <3>3. CASE \A i \in 1 .. Len(requests) : requests[i].kind # "suspend"
      <4>1. ~UndoneAfter(requests, 0) /\ ~TwiceAfter(requests, 0)
        BY <3>3 DEF UndoneAfter, TwiceAfter
      <4>2. QED
        BY <2>3, <4>1 DEF OnResume, Host, Quiet
    <3>4. CASE overlapped'
      BY <2>3, <3>4 DEF OnResume, Host, Quiet
    <3>5. QED
      BY <2>3, <3>2, <3>3, <3>4 DEF OnResume
  <2>4. QED
    BY <1>7, <2>1, <2>2, <2>3 DEF Callbacks
<1>8. CASE Clear
  BY <1>8 DEF Clear, bare_suspension_end, Host, Quiet
<1>9. ASSUME NEW n \in 1 .. last, Expire(n) \/ ExpireEnd(n) PROVE Host'
  BY <1>9 DEF Expire, ExpireEnd, Host, Quiet
<1>10. QED
  BY <1>1, <1>2, <1>3, <1>4, <1>5, <1>6, <1>7, <1>8, <1>9 DEF Next

-----------------------------------------------------------------------------
(* Lingering *)

(***************************************************************************)
(* Tasks are numbered in the order in which they are begun, so that one    *)
(* being begun is later than the one it replaces; and for every task in    *)
(* the hands of an expiration handler, that of a later one was called.     *)
(***************************************************************************)
Order ==
  /\ \A j \in 1 .. Len(requests) : requests[j].task <= last
  /\ lingers <= last /\ identifier <= last
  /\ op \in {"suspend", "wakeup"} /\ app =>
       /\ last \in live \cup fired
       /\ step # "swapped" => identifier < last
       /\ step = "swapped" => prev < last
  /\ \A n \in firing : \E m \in fired : n <= m

\* Task t, or a later one, was not ended, or only because it expired.
Cover(t) == \E n \in t .. last : n \in live \/ n \in fired

\* Among requests q, a suspend with task t that is not undone, ...
Pending(q, t) ==
  \E i \in 1 .. Len(q) : q[i].kind = "suspend" /\ q[i].task = t /\ ~ResumeAfter(q, i)

\* ... and comes after a resume.
PendingLater(q, t) ==
  \E i \in 1 .. Len(q) :
    /\ q[i].kind = "suspend" /\ q[i].task = t /\ ~ResumeAfter(q, i)
    /\ \E j \in 1 .. i - 1 : q[j].kind = "resume"

\* The worklet lingers, or will, for the suspend that began task t.
Linger(t) ==
  \/ runtime = "lingering" /\ t = lingers /\ ~ResumeAfter(requests, 0)
  \/ Quiet /\ Pending(requests, t)
  \/ PendingLater(requests, t)

\* While it does, it has a task.
Covered ==
  app /\ thread \in {"setup", "run"} /\ ~overlapped =>
    \A t \in 0 .. last : Linger(t) => Cover(t)

\* A worklet starts without tasks and requests.
LEMMA LingerInit == Init => Order /\ Covered
<1> SUFFICES ASSUME Init PROVE Order /\ Covered
  OBVIOUS
<1>1. /\ requests = <<>> /\ lingers = 0 /\ identifier = 0 /\ last = 0 /\ op = "none"
      /\ firing = {} /\ runtime = "active"
  BY DEF Init
<1>2. \A j \in 1 .. Len(<<>>) : FALSE
  OBVIOUS
<1>3. QED
  BY <1>1, <1>2 DEF Order, Covered, Linger, Pending, PendingLater

\* A request has a task.
LEMMA RequestAt ==
  ASSUME NEW q \in Seq(Requests), NEW j \in 1 .. Len(q)
  PROVE  q[j] \in Requests /\ q[j].task \in Nat
<1>1. q[j] \in Requests
  OBVIOUS
<1>2. QED
  BY <1>1 DEF Requests

\* Every step keeps the order of the tasks.
LEMMA OrderStep == ASSUME TypeOK, Order, Next PROVE Order'
<1> USE DEF TypeOK, Order, lockVars, taskVars, hostVars, bareVars
<1>1. CASE Suspend
  <2>1. PICK f \in {"suspend", "wakeup"} : bare_suspension_start(f)
    BY <1>1 DEF Suspend
  <2>2. /\ last' = last + 1 /\ UNCHANGED <<requests, lingers, app, identifier, firing>>
        /\ fired \subseteq fired'
        /\ app => step' # "swapped" /\ last' \in live' \cup fired'
    BY <1>1, <2>1 DEF Suspend, bare_suspension_start
  <2>3. \A j \in 1 .. Len(requests) : requests[j].task \in Nat
    BY RequestAt DEF Requests
  <2>4. \A j \in 1 .. Len(requests') : requests'[j].task <= last'
    BY <2>2, <2>3
  <2>5. QED
    BY <2>2, <2>4
<1>2. CASE Resume
  BY <1>2 DEF Resume, bare_suspension_end
<1>3. CASE Locked
  <2>1. CASE TaskKnown
    BY <2>1 DEF TaskKnown
  <2>2. CASE TaskSwap
    BY <2>2 DEF TaskSwap, NextTask
  <2>3. CASE SuspendFinish \/ WakeupFinish \/ ResumeFinish
    <3>1. PICK r \in Requests : r.task <= last /\ requests' = Append(requests, r)
      <4>1. CASE SuspendFinish
        BY <4>1, [kind |-> "suspend", task |-> last] \in Requests
        DEF SuspendFinish, Request, Requests
      <4>2. CASE WakeupFinish
        BY <4>2, [kind |-> "wakeup", task |-> last] \in Requests
        DEF WakeupFinish, Request, Requests
      <4>3. CASE ResumeFinish
        BY <4>3, [kind |-> "resume", task |-> 0] \in Requests
        DEF ResumeFinish, Request, Requests
      <4>4. QED
        BY <2>3, <4>1, <4>2, <4>3
    <3>2. UNCHANGED <<lingers, last, identifier, fired, firing>> /\ op' = "none"
      BY <2>3 DEF SuspendFinish, WakeupFinish, ResumeFinish, Finish
    <3>3. requests \in Seq(Requests)
      BY DEF Requests
    <3>4. /\ Len(requests) \in Nat /\ Len(requests') = Len(requests) + 1
          /\ requests'[Len(requests) + 1] = r
          /\ \A i \in 1 .. Len(requests) : requests'[i] = requests[i]
      BY <3>1, <3>3, AppendAt
    <3>5. \A j \in 1 .. Len(requests') : requests'[j].task <= last
      BY <3>1, <3>4
    <3>6. QED
      BY <3>2, <3>5
  <2>4. CASE ClearFinish
    BY <2>4 DEF ClearFinish, Finish
  <2>5. QED
    BY <1>3, <2>1, <2>2, <2>3, <2>4 DEF Locked
<1>4. CASE ThreadSetup \/ ThreadRun \/ Destroy \/ GoIdle
  <2>1. UNCHANGED <<app, op, step, prev, identifier, last, live, fired, firing, requests, lingers>>
    BY <1>4 DEF ThreadSetup, ThreadRun, Destroy, GoIdle
  <2>2. QED
    BY <2>1
<1>5. CASE Take
  <2>1. requests \in Seq(Requests) /\ requests # <<>> /\ requests' = Tail(requests)
    BY <1>5 DEF Take, Requests
  <2>2. /\ Len(requests) \in Nat /\ Len(requests) > 0 /\ Len(requests') = Len(requests) - 1
        /\ requests[1] = Head(requests)
        /\ \A i \in 1 .. Len(requests') : requests'[i] = requests[i + 1]
    BY <2>1, TailAt
  <2>3. ASSUME NEW j \in 1 .. Len(requests') PROVE requests'[j].task <= last
    <3>1. j + 1 \in 1 .. Len(requests) /\ requests'[j] = requests[j + 1]
      BY <2>2
    <3>2. QED
      BY <3>1
  <2>4. Head(requests).task <= last
    BY <2>2
  <2>5. /\ UNCHANGED <<app, op, step, prev, identifier, last, live, fired, firing>>
        /\ lingers' = lingers \/ lingers' = Head(requests).task
    BY <1>5 DEF Take
  <2>6. QED
    BY <2>3, <2>4, <2>5
<1>6. CASE Callbacks
  <2>1. CASE OnIdle
    <3>1. /\ UNCHANGED <<app, last, live, fired, firing, requests, lingers>>
          /\ op' = "idle" /\ identifier' = 0
      BY <2>1 DEF OnIdle, bare_suspension_end
    <3>2. QED
      BY <3>1
  <2>2. CASE OnIdleFinish
    BY <2>2 DEF OnIdleFinish, Finish
  <2>3. CASE OnResume
    BY <2>3 DEF OnResume
  <2>4. QED
    BY <1>6, <2>1, <2>2, <2>3 DEF Callbacks
<1>7. CASE Clear
  BY <1>7 DEF Clear, bare_suspension_end
<1>8. ASSUME NEW n \in 1 .. last, Expire(n) PROVE Order'
  <2>1. PICK next \in Expiring(n) :
          /\ identifier' = IF identifier = next THEN Invalid ELSE identifier
          /\ firing' = firing \cup ({next} \ {Invalid})
    BY <1>8 DEF Expire
  <2>2. next \in 0 .. n
    BY <2>1 DEF Expiring
  <2>3. /\ UNCHANGED <<app, op, step, prev, last, live, requests, lingers>>
        /\ fired' = fired \cup {n}
    BY <1>8 DEF Expire
  <2>4. identifier' \in Nat /\ identifier' <= identifier
    BY <2>1
  <2>5. ASSUME NEW m \in firing' PROVE \E l \in fired' : m <= l
    <3>1. CASE m \in firing
      BY <2>3, <3>1
    <3>2. CASE m = next
      BY <2>2, <2>3, <3>2
    <3>3. QED
      BY <2>1, <3>1, <3>2
  <2>6. QED
    BY <2>3, <2>4, <2>5
<1>9. ASSUME NEW n \in 1 .. last, ExpireEnd(n) PROVE Order'
  <2>1. /\ UNCHANGED <<app, op, step, prev, identifier, last, fired, requests, lingers>>
        /\ firing' = firing \ {n} /\ live' = live \ {n} /\ n \in firing
    BY <1>9 DEF ExpireEnd
  <2>2. ASSUME last \in live PROVE last \in live' \cup fired
    <3>1. CASE n = last
      <4>1. PICK m \in fired : n <= m
        BY <2>1
      <4>2. m \in 1 .. last
        BY <4>1
      <4>3. m = last
        BY <3>1, <4>1, <4>2
      <4>4. QED
        BY <4>3
    <3>2. QED
      BY <2>1, <2>2, <3>1
  <2>3. QED
    BY <2>1, <2>2
<1>10. QED
  BY <1>1, <1>2, <1>3, <1>4, <1>5, <1>6, <1>7, <1>8, <1>9 DEF Next

\* A suspend that is pending after the first request was taken was pending before.
LEMMA PendingTail ==
  ASSUME NEW q \in Seq(Requests), q # <<>>, NEW p, p = Tail(q), NEW t
  PROVE  /\ Pending(p, t) => Pending(q, t)
         /\ Pending(p, t) /\ Head(q).kind = "resume" => PendingLater(q, t)
         /\ PendingLater(p, t) => PendingLater(q, t)
<1>1. /\ Len(q) \in Nat /\ Len(q) > 0 /\ Len(p) = Len(q) - 1 /\ q[1] = Head(q)
      /\ \A i \in 1 .. Len(p) : p[i] = q[i + 1]
  BY TailAt
<1>2. ASSUME NEW i \in 1 .. Len(p), p[i].kind = "suspend", p[i].task = t, ~ResumeAfter(p, i)
      PROVE  /\ i + 1 \in 1 .. Len(q) /\ q[i + 1].kind = "suspend" /\ q[i + 1].task = t
             /\ ~ResumeAfter(q, i + 1)
  <2>1. i \in Nat
    BY <1>1
  <2>2. ~ResumeAfter(q, i + 1)
    BY <1>2, <2>1, TailShift
  <2>3. QED
    BY <1>1, <1>2, <2>2
<1>3. Pending(p, t) => Pending(q, t)
  BY <1>2 DEF Pending
<1>4. ASSUME Pending(p, t), Head(q).kind = "resume" PROVE PendingLater(q, t)
  <2>1. PICK i \in 1 .. Len(p) : p[i].kind = "suspend" /\ p[i].task = t /\ ~ResumeAfter(p, i)
    BY <1>4 DEF Pending
  <2>2. 1 \in 1 .. (i + 1) - 1 /\ q[1].kind = "resume"
    BY <1>1, <1>4
  <2>3. QED
    BY <1>2, <2>1, <2>2 DEF PendingLater
<1>5. ASSUME PendingLater(p, t) PROVE PendingLater(q, t)
  <2>1. PICK i \in 1 .. Len(p) :
          /\ p[i].kind = "suspend" /\ p[i].task = t /\ ~ResumeAfter(p, i)
          /\ \E j \in 1 .. i - 1 : p[j].kind = "resume"
    BY <1>5 DEF PendingLater
  <2>2. PICK j \in 1 .. i - 1 : p[j].kind = "resume"
    BY <2>1
  <2>3. j + 1 \in 1 .. (i + 1) - 1 /\ q[j + 1].kind = "resume"
    BY <1>1, <2>2
  <2>4. QED
    BY <1>2, <2>1, <2>3 DEF PendingLater
<1>6. QED
  BY <1>3, <1>4, <1>5

\* A suspend at the front of the requests is pending for an active worklet.
LEMMA PendingHead ==
  ASSUME NEW q \in Seq(Requests), q # <<>>, NEW p, p = Tail(q), Head(q).kind = "suspend",
         ~ResumeAfter(p, 0)
  PROVE  Pending(q, Head(q).task)
<1>1. Len(q) \in Nat /\ Len(q) > 0 /\ q[1] = Head(q)
  BY TailAt
<1>2. ~ResumeAfter(q, 1)
  BY TailShift, 0 + 1 = 1
<1>3. QED
  BY <1>1, <1>2 DEF Pending

\* Without a pending resume no suspend comes after one, ...
LEMMA NonePending ==
  ASSUME NEW q \in Seq(Requests), NEW t, ~ResumeAfter(q, 0)
  PROVE  ~PendingLater(q, t)
<1>1. Len(q) \in Nat
  OBVIOUS
<1>2. QED
  BY <1>1 DEF PendingLater, ResumeAfter

\* ... and none is pending if all are undone.
LEMMA LeftPending ==
  ASSUME NEW q, NEW t, ~LeftAfter(q, 0)
  PROVE  ~Pending(q, t) /\ ~PendingLater(q, t)
BY DEF Pending, PendingLater, LeftAfter

\* The runtime takes the first of the requests.
LEMMA CoveredTake == ASSUME TypeOK, Covered, Take PROVE Covered'
<1>1. requests \in Seq(Requests) /\ requests # <<>> /\ requests' = Tail(requests)
  BY DEF TypeOK, Requests, Take
<1>2. UNCHANGED <<app, thread, overlapped, last, live, fired>>
  BY DEF Take, taskVars, hostVars
<1>3. ASSUME NEW t, Linger(t)' PROVE Linger(t)
  <2>1. ResumeAfter(requests, 0) <=> Head(requests).kind = "resume" \/ ResumeAfter(requests', 0)
    BY <1>1, TailKinds
  <2>2. CASE runtime' = "lingering" /\ t = lingers' /\ ~ResumeAfter(requests', 0)
    <3>1. \/ /\ Head(requests).kind = "suspend" /\ runtime = "active"
             /\ lingers' = Head(requests).task
          \/ Head(requests).kind # "resume" /\ runtime' = runtime /\ lingers' = lingers
      BY <2>2 DEF Take
    <3>2. CASE Head(requests).kind = "suspend" /\ runtime = "active" /\ t = Head(requests).task
      <4>1. Pending(requests, Head(requests).task)
        BY <1>1, <2>2, <3>2, PendingHead
      <4>2. Quiet
        BY <3>2 DEF Quiet
      <4>3. QED
        BY <3>2, <4>1, <4>2 DEF Linger
    <3>3. CASE Head(requests).kind # "resume" /\ runtime' = runtime /\ lingers' = lingers
      BY <2>1, <2>2, <3>3 DEF Linger
    <3>4. QED
      BY <2>2, <3>1, <3>2, <3>3
  <2>3. CASE Quiet' /\ Pending(requests', t)
    <3>1. Quiet \/ Head(requests).kind = "resume"
      BY <2>3 DEF Take, Quiet
    <3>2. Pending(requests, t) /\ (Head(requests).kind = "resume" => PendingLater(requests, t))
      BY <1>1, <2>3, PendingTail
    <3>3. QED
      BY <3>1, <3>2 DEF Linger
  <2>4. CASE PendingLater(requests', t)
    <3>1. PendingLater(requests, t)
      BY <1>1, <2>4, PendingTail
    <3>2. QED
      BY <3>1 DEF Linger
  <2>5. QED
    BY <1>3, <2>2, <2>3, <2>4 DEF Linger
<1>4. QED
  BY <1>2, <1>3 DEF Covered, Cover

\* Every step leaves a worklet that lingers a task.
LEMMA CoveredStep == ASSUME IInv, Host, Order, Covered, Next PROVE Covered'
<1> USE DEF lockVars, taskVars, hostVars, bareVars
<1>1. /\ last \in Nat /\ requests \in Seq(Requests)
      /\ live \subseteq 1 .. last /\ fired \subseteq 1 .. last
  BY DEF IInv, TypeOK, Requests
<1>2. CASE Suspend
  <2>1. PICK f \in {"suspend", "wakeup"} : bare_suspension_start(f)
    BY <1>2 DEF Suspend
  <2>2. /\ last' = last + 1
        /\ UNCHANGED <<app, thread, overlapped, requests, runtime, lingers>>
        /\ app => last' \in live' \cup fired'
    BY <1>2, <2>1 DEF Suspend, bare_suspension_start
  <2>3. ASSUME app, NEW t \in 0 .. last' PROVE Cover(t)'
    BY <1>1, <2>2, <2>3 DEF Cover
  <2>4. QED
    BY <2>2, <2>3 DEF Covered
<1>3. ASSUME /\ UNCHANGED <<app, thread, overlapped, requests, runtime, lingers, last, fired>>
             /\ live' = live
      PROVE  Covered'
  BY <1>3 DEF Covered, Linger, Cover, Quiet
<1>4. CASE Resume \/ TaskKnown \/ TaskSwap \/ OnIdle
  <2>1. UNCHANGED <<app, thread, overlapped, requests, runtime, lingers, last, fired, live>>
    BY <1>4 DEF Resume, bare_suspension_end, TaskKnown, TaskSwap, OnIdle
  <2>2. QED
    BY <1>3, <2>1
<1>5. CASE SuspendFinish \/ WakeupFinish
  <2>1. /\ app' = app /\ last' = last /\ fired' = fired /\ live' = live \ {prev}
        /\ op \in {"suspend", "wakeup"} /\ step = "swapped"
    BY <1>5 DEF SuspendFinish, WakeupFinish, Finish
  <2>2. ASSUME app PROVE last \in live' \/ last \in fired'
    BY <1>1, <2>1, <2>2 DEF Order, IInv, TypeOK
  <2>3. ASSUME app', NEW t \in 0 .. last' PROVE Cover(t)'
    BY <1>1, <2>1, <2>2, <2>3 DEF Cover
  <2>4. QED
    BY <2>3 DEF Covered
<1>6. CASE ResumeFinish
  <2>1. PICK r \in Requests : r.kind = "resume" /\ requests' = Append(requests, r)
    BY <1>6, [kind |-> "resume", task |-> 0] \in Requests
    DEF ResumeFinish, Request, Requests
  <2>2. ResumeAfter(requests', 0) /\ \A n \in Nat : ~LeftAfter(requests', n)
    BY <1>1, <2>1, AppendResume
  <2>3. ~LeftAfter(requests', 0)
    BY <2>2
  <2>4. \A t : ~Linger(t)'
    BY <2>2, <2>3, LeftPending DEF Linger
  <2>5. QED
    BY <2>4 DEF Covered
<1>7. CASE ClearFinish \/ Clear \/ ThreadRun \/ Destroy
  <2>1. thread' \notin {"setup", "run"}
    BY <1>7 DEF ClearFinish, Clear, ThreadRun, Destroy
  <2>2. QED
    BY <2>1 DEF Covered
<1>8. CASE ThreadSetup
  BY <1>8 DEF ThreadSetup, Covered, Linger, Cover, Quiet
<1>9. CASE Take
  BY <1>9, CoveredTake DEF IInv
<1>10. CASE GoIdle
  BY <1>10 DEF GoIdle, InLoop, Covered, Linger, Cover, Quiet
<1>11. CASE OnIdleFinish
  <2>1. CASE Finish("idle")
    <3>1. runtime' = "idle" /\ requests' = requests /\ overlapped' = overlapped
      BY <1>11 DEF OnIdleFinish
    <3>2. ASSUME ~overlapped PROVE ~ResumeAfter(requests, 0)
      BY <2>1, <3>2 DEF Finish, Host
    <3>3. ASSUME ~overlapped', NEW t PROVE ~Linger(t)'
      <4>1. ~PendingLater(requests', t)
        BY <1>1, <3>1, <3>2, <3>3, NonePending
      <4>2. ~Quiet'
        BY <3>1 DEF Quiet
      <4>3. QED
        BY <3>1, <4>1, <4>2 DEF Linger
    <3>4. QED
      BY <3>3 DEF Covered
  <2>2. CASE runtime = "idling" /\ UNCHANGED <<app, lockVars, taskVars>>
    BY <1>11, <2>2 DEF OnIdleFinish, Covered, Linger, Cover, Quiet
  <2>3. QED
    BY <1>11, <2>1, <2>2 DEF OnIdleFinish
<1>12. CASE OnResume
  <2>1. /\ UNCHANGED <<app, thread, requests, last, live, fired>>
        /\ runtime = "resuming" /\ runtime' = "active"
        /\ overlapped' = (overlapped /\ \E i \in 1 .. Len(requests) : requests[i].kind = "suspend")
    BY <1>12 DEF OnResume
  <2>2. CASE ~overlapped
    BY <2>1, <2>2 DEF Covered, Linger, Cover, Quiet
  <2>3. CASE \A i \in 1 .. Len(requests) : requests[i].kind # "suspend"
    <3>1. \A t : ~Linger(t)'
      BY <2>1, <2>3 DEF Linger, Pending, PendingLater
    <3>2. QED
      BY <3>1 DEF Covered
  <2>4. QED
    BY <2>1, <2>2, <2>3 DEF Covered
<1>13. ASSUME NEW n \in 1 .. last, Expire(n) PROVE Covered'
  <2>1. /\ UNCHANGED <<app, thread, overlapped, requests, runtime, lingers, last, live>>
        /\ fired' = fired \cup {n}
    BY <1>13 DEF Expire
  <2>2. QED
    BY <2>1 DEF Covered, Linger, Cover, Quiet
<1>14. ASSUME NEW n \in 1 .. last, ExpireEnd(n) PROVE Covered'
  <2>1. /\ UNCHANGED <<app, thread, overlapped, requests, runtime, lingers, last, fired>>
        /\ n \in firing /\ live' = live \ {n}
    BY <1>14 DEF ExpireEnd
  <2>2. PICK m \in fired : n <= m
    BY <2>1 DEF Order
  <2>3. ASSUME NEW t \in 0 .. last, Cover(t) PROVE Cover(t)'
    <3>1. PICK l \in t .. last : l \in live \/ l \in fired
      BY <2>3 DEF Cover
    <3>2. CASE l = n
      <4>1. m \in t .. last
        BY <1>1, <2>2, <3>2
      <4>2. QED
        BY <2>1, <2>2, <4>1 DEF Cover
    <3>3. CASE l # n
      BY <2>1, <3>1, <3>3 DEF Cover
    <3>4. QED
      BY <3>2, <3>3
  <2>4. ASSUME NEW t, Linger(t)' PROVE Linger(t)
    BY <2>1, <2>4 DEF Linger, Quiet
  <2>5. QED
    BY <2>1, <2>3, <2>4 DEF Covered
<1>15. QED
  BY <1>2, <1>4, <1>5, <1>6, <1>7, <1>8, <1>9, <1>10, <1>11, <1>12, <1>13, <1>14
  DEF Next, Locked, Callbacks

\* The tasks, the flags and the requests, together.
HInv == IInv /\ Host /\ Order /\ Covered

\* The whole of it holds in every reachable state.
LEMMA HostInvariance == Spec => []HInv
<1>1. Init => HInv
  BY InitHolds, HostInit, LingerInit DEF HInv
<1>2. HInv /\ [Next]_vars => HInv'
  <2> SUFFICES ASSUME HInv, [Next]_vars PROVE HInv'
    OBVIOUS
  <2>1. IInv'
    BY NextHolds DEF HInv
  <2>2. CASE Next
    <3>1. TypeOK
      BY DEF HInv, IInv
    <3>2. Host' /\ Order'
      BY <2>2, <3>1, HostStep, OrderStep DEF HInv
    <3>3. Covered'
      BY <2>2, CoveredStep DEF HInv
    <3>4. QED
      BY <2>1, <3>2, <3>3 DEF HInv
  <2>3. CASE UNCHANGED vars
    <3>1. Host' /\ Order' /\ Covered'
      BY <2>3 DEF HInv, Host, Order, Covered, Linger, Cover, Quiet,
                  vars, lockVars, taskVars, hostVars, bareVars
    <3>2. QED
      BY <2>1, <3>1 DEF HInv
  <2>4. QED
    BY <2>2, <2>3
<1>3. QED
  BY <1>1, <1>2, PTL DEF Spec

\* The flag of a pending resume is set when, and only when, one will be observed,
\* while none overlaps another (worklet.c:762-767, 346).
THEOREM ResumesAreNoted == Spec => []ResumingIsPending
<1>1. HInv => ResumingIsPending
  <2> SUFFICES ASSUME HInv, ~overlapped
               PROVE  resuming <=>
                        \/ runtime = "resuming"
                        \/ \E j \in 1 .. Len(requests) :
                             /\ requests[j].kind = "resume"
                             /\ \/ runtime # "active"
                                \/ \E i \in 1 .. j - 1 : requests[i].kind = "suspend"
    BY DEF ResumingIsPending
  <2>1. Len(requests) \in Nat
    BY DEF HInv, IInv, TypeOK
  <2>2. ResumeAfter(requests, 0)
          <=> \E j \in 1 .. Len(requests) : requests[j].kind = "resume"
    BY <2>1 DEF ResumeAfter
  <2>3. UndoneAfter(requests, 0)
          <=> \E j \in 1 .. Len(requests) :
                /\ requests[j].kind = "resume"
                /\ \E i \in 1 .. j - 1 : requests[i].kind = "suspend"
    BY <2>1 DEF UndoneAfter, ResumeAfter
  <2>4. QED
    BY <2>2, <2>3 DEF HInv, Host
<1>2. QED
  BY <1>1, HostInvariance, PTL

\* A worklet that lingers has a background task, unless the system refused it or
\* took it away, whatever later suspends and wakeups, idles of an earlier
\* suspension and expiries are in flight (bare-kit.h:192-193, worklet.c:326-331).
\* This assumes of the host what LingersUnderTask does: that it does not suspend
\* and resume again while an earlier resume is still to be observed, or that the
\* worklet has caught up since.
THEOREM LingeringHoldsTask == Spec => []LingersUnderTask
<1>1. HInv => LingersUnderTask
  <2> SUFFICES ASSUME HInv, ~overlapped, app, thread = "run", runtime = "lingering",
                      \A i \in 1 .. Len(requests) : requests[i].kind # "resume"
               PROVE  \E n \in lingers .. last : n \in live \/ n \in fired
    BY DEF LingersUnderTask, LingersWithTask
  <2>1. ~ResumeAfter(requests, 0)
    BY DEF ResumeAfter
  <2>2. lingers \in 0 .. last
    BY DEF HInv, IInv, TypeOK, Order
  <2>3. Linger(lingers)
    BY <2>1 DEF Linger
  <2>4. QED
    BY <2>2, <2>3 DEF HInv, Covered, Cover
<1>2. QED
  BY <1>1, HostInvariance, PTL

=============================================================================
