# Verification of Bare Kit

TLA+ models of Bare Kit, which embeds the Bare JavaScript runtime in an
application: a *worklet* runs a program on a thread of its own, and the host
talks to it through an *ipc*. The models are translated from the sources under
`src/`, are model-checked with TLC on small instances, and every part is proved
safe with TLAPS for every value of its constants.

## The system

| Part | State | Operations | Hard because |
| --- | --- | --- | --- |
| Queue (`queue.c`) | two rings of messages, the state of either end (idle, open, ended, closed), `destroyed`, the wakeup handle of the worklet's loop | create, open (either end), write, read, end, close, readable, writable, destroy, shutdown_uv | shared by two threads; wakeups are sent only on edges (empty to non-empty, full to non-full) and coalesced; the queue is freed by whichever side lets go last, outside the lock |
| IPCStream (`worklet.js`) | `_reading`, `_pendingWrite`, the reference that keeps the loop running | `_read`, `_drain`, `_write`, `_send`, `_retry`, `_final`, `_destroy`, `_onsignal`, `ref`, `unref` | backpressure in both directions; one signal means "look at everything again"; the worklet exits neither before nor long after the stream is done |
| Host ipc (`ipc.c`) | port, lock, the rest of a message read in part, the poll with its atomic events and callback | create, close, end, destroy, read, write, poll create / destroy / start / stop | called from the host's thread and from callbacks; a poll may be stopped, started or destroyed during a dispatch |
| Signal thread (`standalone/ipc.c`) | a loop, a wakeup and a close handle, a recursive lock held across callbacks, `ipc`, `detached` | on_wake, on_close, signal, signal_init, signal_destroy, set_poll | destroying must wait for a callback, unless it is made from that callback |
| Worklet (`worklet.c`) | the worklet (the host's), its state (the thread's), the semaphore on the thread's stack, `state->bare`, the process-wide count, condition and platform | create, start, terminate, destroy, teardown; the thread; the platform thread | destroy does not wait; start, exit, destroy and teardown run at the same time |
| Suspension (`worklet.c`, `ios/suspension.m`) | background task, `suspended`, `resuming` | suspend, resume, wakeup, idle, expiry | callbacks of an earlier suspension arrive during a later one |
| Resource extraction (`worklet.js`, `android/resources.c`) | files, the listing | extract, write | worklets extract at once; a crash in between |
| Apple dispatch signal (`apple/ipc.m`) | a dispatch source and queue | as the signal thread | the same contract on another scheduler |
| Android glue (`android/platform.c`, `android/resources.c`) | attached threads, global references | retain, publish and release the context; enter and exit a thread; read a resource | worklets are destroyed from threads of every kind, without waiting for their own |
| Other glue (`apple/resources.c`, `symbols.c`, `platform.c`) | none | hooks called on the way | straight-line |

The worklet thread opens the `uv` end of the queue and hands it to an
IPCStream; the host opens the `thread` end through `bare_ipc_create`. A change
of the queue signals the other end: the worklet's loop through `uv_async_send`,
the host through `bare_ipc__signal`, which wakes the signal thread, which
dispatches to the poll. The host and the worklet thread each own a share of the
queue, and it goes with the last of them.

## Modules

| Module | Models |
| --- | --- |
| `BareQueue` | `queue.c`, one operator per function, as actions on the queue's variables. Extended by the next two. |
| `QueueProtocol` | the queue between its two clients, from `bare_worklet_create` to the release |
| `Pipe` | no code: what the queue promises, a bounded pipe in each direction |
| `QueueRefinement` | `QueueProtocol` as an implementation of `Pipe` |
| `QueueProofs` | theorems about `QueueProtocol` |
| `PipeProofs` | the proof that `QueueProtocol` implements `Pipe` |
| `IpcStream` | the life of the worklet's stream and of the loop it keeps running; extends `BareQueue` |
| `StreamProofs` | a theorem about `IpcStream` |
| `BareIpc` | the host ipc and its signal thread, over the queue |
| `AppleIpc` | the host ipc on a dispatch queue: `BareIpc` with another scheduler |
| `IpcProofs` | theorems about `BareIpc` and `AppleIpc` |
| `Worklet` | the life of the worklets of a process, and its teardown |
| `WorkletProofs` | theorems about `Worklet` |
| `AndroidWorklet` | what each step of `Worklet` does to the Java virtual machine |
| `AndroidProofs` | theorems about `AndroidWorklet`, on top of `WorkletProofs` |
| `Suspension` | suspend, resume and wakeup, with background tasks |
| `SuspensionProofs` | theorems about `Suspension` |
| `Resources` | extraction of resources, by worklets that may be killed |
| `ResourcesProofs` | theorems about `Resources` |
| `MC...` | instances for TLC |

Definitions named `Mut...` are deliberately faulty variants of the definition
below them. They are used in no specification; each stands for a plausible bug
that the property listed beside it in `PROJECT.json` must catch.

### BareQueue and QueueProtocol

`ring[e]` is the inbox of end `e`, `state[e]` its state, `wake[e]` whether a
wakeup of `e` is pending (`uv_async_send` coalesces), `async` the life of the
handle. A function that holds the lock throughout is one action. Two are not,
and are split where the lock is let go: `bare_queue_open_uv` (initialise the
handle; publish under the lock; send the catch-up wakeup) and releasing
(`freeing` counts callers that have decided to free, `freed` those that have).
The copy that `bare_queue_write` makes before locking is not visible to anyone.
Messages are numbered; the ring's `& (capacity - 1)` is `%`, so that any
capacity of at least 2 is covered.

The clients follow IPCStream: a wakeup retries the blocked write, then drains
until a read would block, the end of the stream is reached or the stream has
had enough. A host that reads when it is signalled without asking first (the
queue's own tests) is the reading mode `"signalled"`. `bare_run` may return at
any time, even in the middle of a callback, which covers termination.

### BareIpc

One step is what a thread does under one lock or in one atomic access.
`sig` is where the signal thread is in `bare_ipc__on_wake` and
`bare_ipc__dispatch`; `op[t]` is where thread `t` (the host's, or the signal
thread inside a callback) is in an API call. The caller obeys `bare-kit.h`: a
poll goes before its ipc, and neither is used after it was destroyed. `told`,
`stopped` and `starts` are history. `bare_ipc__signal_init` and thread creation
do not fail in the model; the code asserts or returns early.

Two pairs of critical sections are one step, as nothing can come between them that
matters: `bare_ipc__dispatch` asks for both directions (`ipc.c:110-111`), and
`bare_ipc_read` asks for what is left before it signals (`ipc.c:154`). What is found
ready in the first stays ready until the host itself reads or writes.

### Worklet

For each worklet: the memory of `bare_worklet_t` and `bare_worklet_state_t`,
the call the host is in (`host`), the stage of its thread (`thread`), whether
`state->bare` is set, the semaphore, and how often the exit callback was called.
Shared: the count, `torn_down`, the teardown and the platform. `bare_run` and
the platform are external. A start after the teardown fails without changing
anything, and so is no step. As `bare-kit.h` asks, teardown is called at most
once and a worklet is not used once it is being destroyed. The last steps of
`bare_worklet_destroy` (post, release, free) are one, as the thread that is posted
touches nothing of the worklet's after that.

### Pipe and QueueRefinement

`Pipe` knows neither rings nor wakeups nor threads: `inbox[e]` is a sequence,
and the actions are send, receive, receive the end, finish, close and drop.
`QueueRefinement` maps the contents of a ring, from tail to head, to that
sequence, an end's state to `ended` and `closed`, and the released queue to a
pipe that is gone. An end that is not opened yet is an open end of the pipe:
what is written before is kept for it. Everything else that the clients do is a
step that the pipe does not see.

### IpcStream

Both ends of the queue are open, and the question is how long the worklet runs.
`refd` is whether the wakeup handle keeps the loop alive (`uv_ref`, `uv_unref`),
`stream` whether the stream is open, about to be destroyed or destroyed, and
`Exit` is the loop running out of work. A unit of length is `INT_MAX` bytes, the
most `bare_queue_write` takes, so that a chunk of 2 is one that takes two calls.
The stream library (when `_final` and `_destroy` are called) and the suspend and
resume events are external.

### AppleIpc

All of `ipc.c` is as in `BareIpc`. The event handler begins when there is merged
data, the queue is free and the source is not cancelled; `bare_ipc__set_poll` is
a `dispatch_sync`, for which the queue must be free or the caller on it; and
`bare_ipc__signal_destroy` cancels, and waits for the cancellation to go through
the queue unless called on it. What libdispatch guarantees (no event handler
after a cancellation, and the cancel handler behind a running one) is external.

### Suspension

One worklet. `op`, `step` and `prev` are what the holder of `state->lock` is
doing; `identifier` is the atomic of `ios/suspension.m`, which expiration
handlers access without the lock, so that a start of a task is three steps
(begun, known to its handler, swapped in) and its end two. Without a
`UIApplication`, and with the stubs of `suspension.c`, there are no tasks. The
runtime takes the host's requests in order and goes idle whenever it likes.

The system may refuse a task (`beginBackgroundTask` returns
`UIBackgroundTaskInvalid`, `step = "refused"`). The code swaps that in like any
identifier, so that a suspend whose task is refused ends the task of the one before
(`ios/suspension.m:34-45`), and the worklet lingers without any. The properties take
a task that was refused as they do one that has expired (`fired`): the code cannot
have it, and nobody says that it keeps the older one.

`LingersWithTask` is what `bare-kit.h` says of a lingering worklet, and does not hold
(see the findings): there is one flag, `resuming`, for any number of resumes, and the
first one observed clears it. `overlapped` is set by a resume that follows a suspend
while the flag is still set, and goes when a resume is observed behind which there is
no suspend. `LingersUnderTask` and `ResumingIsPending` are stated where it is not
set, and so for hosts that do not suspend and resume again before the last resume
was observed. A stale idle is not told apart from that of a wakeup: nothing in the
code is meant to, and the task of a wakeup may be ended early by an idle that was
reached before it.

### Resources

Any number of worklets run `start`, each file being written to a temporary name
and renamed. A file's contents are the version of the application it came from.
`Kill` ends a worklet between any two steps and leaves the disk as it is;
`Update` ends all of them and clears the directory, as `android/resources.c`
says the system does. `AppleResources` and `AndroidResources` stand for the whole of
how each platform finds its resources, reduced to what comes of it.

### AndroidWorklet

Extends `Worklet` and conjoins to each of its actions what the code does to the
virtual machine on the way: which threads are attached, and how many global
references there are of each kind for each worklet. Destroying is done by a
thread: Java's, a native one, the ipc's or a worklet's own in its exit callback.
`bare_kit__release_context` is one step, since what it does in between is seen by
its own thread only. That the virtual machine is known, and that a thread that
gives a context is attached, is what `bare-kit.h` asks for. Setting the
class loader of a thread that enters is part of attaching it and leaves nothing
behind.

## Runs

| Run | Instance | Shows |
| --- | --- | --- |
| `queue` | capacity 3, 3 messages in all; 122k states | messages stay in order and complete, no wakeup is lost, the queue is released once and last, everything gets through, and the queue implements `Pipe` |
| `queue_open_terminated` | capacity 2 | *violation*: an ipc can be created on a terminated worklet |
| `ipc_safety` | capacity 2, 2 bytes in messages of up to 2 or 2 poll starts; 4.1M | nothing is used before it is initialised or after it is freed, reads of any length hand out the bytes in order, no event goes untold |
| `ipc_destroy` | both platforms, capacity 2, nothing sent, 1 poll start, for writing; 198k | no call hangs or waits for the queue it is on, the signal is freed, and the dispatch handler uses nothing that is freed |
| `ipc_stop` | capacity 2 | *violation*: a callback runs after `bare_ipc_poll_stop` returned |
| `ipc_level` | capacity 2 | *violation*: a ready poll is not called again |
| `worklet` | 2 worklets, on Android; 179k | no dangling memory, exact count, the platform outlives the runtimes, destroyed worklets go and the teardown returns; threads stay attached as they were, references are deleted once |
| `stream` | capacity 2, chunks of 1, 2 each way; 23k | the stream keeps the worklet running as long as it should, and no longer |
| `stream_rest` | capacity 4, one chunk of 2 | *violation*: the rest of a partial write is not written |
| `suspension` | 3 tasks, 2 resumes; 753k | no task is lost or kept, none is ended for another unless resumes overlap, and every one is ended |
| `suspension_overlap` | 3 tasks, 2 resumes | *violation*: a worklet lingers without a background task |
| `resources` | 2 worklets, 2 keys, 2 versions; 30k | the listing vouches for what it lists, files stay, nobody waits for anybody |

**Bounds.** A ring of capacity 3 holds two messages: three messages fill it,
block a write and wrap around. `MaxWrites` bounds the messages of both ends
together, as the rings are independent. The messages that can be told apart are
those in a ring and the one being retried, so longer streams repeat what these
show (and the proofs cover them). A message of two bytes allows a read in part,
two of one byte a read that follows another, and two poll starts a restart from a
callback after a stop; the constraint `Bounded` of `MCBareIpc` leaves out runs
with both (which pass too, on 13M states). The same instance of `AppleIpc` with a
byte to send is safe as well (1M states), and so are three worklets, four tasks
with three resumes (27M states), and three extractions at once. `MCIpcPlatforms`
joins the two instances in one run; its host polls for writing alone, since which
event leads to a callback makes no difference to destroying. Two worklets allow one
to be destroyed from the exit callback of the other, and one to be the last while
the other is torn down. Three tasks allow one to be replaced while an earlier one
expires, and with two resumes a third suspension behind two that overlap; two
versions and two keys allow an extraction half done, by one worklet or two, of a
version that goes. Deadlock is not checked, because all of these systems end.

**Fairness.** Threads that can proceed do. `QueueProtocol` assumes strong
fairness of wakeups, as a loop looks at them in every iteration however busy its
client is, and weak fairness of the callback's steps. `BareIpc` assumes strong
fairness of each thread as a whole, since a mutex that is released again and
again is acquired sometime, and that callbacks return. `Worklet` assumes that
`bare_run` returns once `bare_terminate` was called, and that calls that have
begun go on. `Suspension` assumes that whoever holds the lock goes on, that a
callback gets it in the end, and that the system expires a task that is not
ended; `Resources` that a worklet that is not killed goes on; `IpcStream` that
the loop runs what there is to run, that a program that has read asks for more,
that the stream library finishes and destroys a stream that is through, and that
the host reads; `MCIpcPlatforms` what `BareIpc` does, and that a dispatch queue runs
what is submitted to it. Nowhere is a
host assumed to make a call, a program to end by itself, or a condition to be woken
for no reason.

## Findings

Four are places where `include/bare-kit.h` promises more than the code does, the
last of them a task that is ended for another; the fifth is a write that does not
complete:

* `bare_ipc_create` "Fails if the worklet ... has been terminated": it succeeds,
  and the ipc reads the end of the stream (`queue.c:157`, and `worklet.c:670`
  relies on it).
* "Stop polling, after which the callback is no longer called": a dispatch that
  has already loaded the callback calls it after a stop on another thread has
  returned (`ipc.c:94-117`, `ipc.c:232-238`). `bare_ipc_poll_destroy` does wait.
* "Polls are level-triggered, so the callback is called again for as long as the
  events remain ready": it is called once per signal. What does hold, and is what
  readers rely on, is `PollNotLost`: an event that is ready is told at least once
  after every read or write that used up the last one.
* "On iOS, the worklet holds a background task for as long as it lingers": a host
  that suspends, resumes, suspends, resumes and suspends before the worklet thread
  observes the first resume can lose the last task. `resuming` is cleared by the
  first resume (`worklet.c:346`), and the idle of the second suspension then finds
  no resume pending and ends the task of the third (`worklet.c:326-331`).
* "Callers write the rest" of what `bare_queue_write` does not take
  (`queue.c:181`): `IPCStream._send` waits for a signal to do so
  (`worklet.js:57`), but a host that reads from a ring that was not full sends
  none (`queue.c:223`). A chunk of more than `INT_MAX` bytes is stuck until the
  host writes or ends. Chunks that one call takes always get through
  (`stream`).

## Proofs

`QueueProofs`, for every capacity of at least 2 and streams of every length
(assumptions `CapacityAssumption`, `MaxWritesAssumption`):

* `TypeCorrect`: lemmas on `Succ`, push and shift keep the indices in range.
* `UseAfterFreeImpossible`, `AsyncStaysAlive`: neither is inductive, as both
  depend on who still owns what at each stage of the worklet thread. The
  invariant `Shares` ties the stage to `state["uv"]`, `destroyed` and `async`,
  and the host's port to `state["thread"]`, and says that `freeing + freed` is 1
  exactly when the last share is gone.
* `FifoHolds`, `OrderHolds`: `Fifo` is inductive together with the types: a push
  appends, a shift removes the first (`PushValue`, `ShiftValue`), and nothing else
  touches a message.
* `EofHolds`: `EofIsLast` needs to know that a peer whose end of stream was read
  can never write again; `EofFinal` adds that its state is at least `Ended` and
  the ring empty.
* `WakesAreNotLost`: `WakeInv` adds to `NoLostWake` what an end in the middle of a
  callback is still going to look at, and that an end is not used before it was
  opened; each step of the peer either leaves what the end waits for as it was
  or signals it.
* `EndsAdvance`: the action property, from the types.

`WorkletProofs`, for any finite set of worklets (`WorkletsAssumption`): the
invariant `IInv` is `TypeOK`, `RunningExact`, `Lives` (for each worklet, how its
memory, the host's call and the thread's stage go together) and `PlatformInv`
(the stages of the teardown and of the platform). The count stays exact by
adding and removing one element of a finite set; as it is exact, a teardown that
finds zero finds nobody running, which gives `TeardownIsLast` and
`PlatformOutlives`. `NoDangling` and `WorkletTypes` follow from the same
invariant.

`PipeProofs`, under the assumptions of `QueueProofs`: `QueueIsPipe`, the
refinement of `Pipe`. While the queue lives, `Fifo` says that the messages in an
inbox are those that follow the last one read (`MessagesValue`), so that a push
is an `Append` and a shift a `Tail`; `Shares` says that the queue is there for
whoever uses it and that the worklet's end is closed when it is released, and
`EofFinal` that nothing is received after the end. The proof has one lemma per
action of the pipe, and `PipeStep` goes through the actions of the clients.

`AndroidProofs`: `AndroidIsWorklet` shows that an `AndroidWorklet` step is a step
of `Worklet` or none, which carries `IInv` over. On top of it, `JInv` is
`AttachedAsEntered`, the shape of the counts, and for each worklet how its
references (`Refs`) and calls in progress (`Calls`) go with the stage of its
thread and of the host's call; it gives `ThreadsStayAttached`,
`ReferencesAreHeld` and `AndroidTypes`. `NamesAssumption` says that no worklet is
named like one of the other threads.

`SuspensionProofs`, for any number of suspends, wakeups and resumes
(`SuspensionBounds`):

* `TasksAreTracked`, `ExitEndsTasks`: `NoTaskLost` and `NoTaskAfterExit` are
  inductive together with the types and with `Holders`: the host holds the lock
  only as long as it reaches the runtime, and whoever ends a task has swapped it
  out.
* `ResumesAreNoted`, for hosts whose resumes do not overlap: `ResumingIsPending`
  tells what `resuming` means, but a resume
  sets it only if the worklet is suspended, and it is cleared by the first resume
  that is observed. `Host` therefore says of `suspended`, too, what it has to do
  with the requests that the runtime has not taken, and that without overlaps
  only one resume is to be observed. What is pending among the requests is said by
  operators on sequences (`ResumeAfter`, `UndoneAfter`, ...), with a lemma for a
  request that is appended and one for a request that is taken.
* `LingeringHoldsTask`: a lingering worklet has a task that is not ended, or one that
  the system has refused or taken away, unless a resume is pending or resumes have
  overlapped (`overlapped`); without the last exception it does not hold
  (`suspension_overlap`). A worklet may linger long after the call of suspend that
  made it. `Covered` follows every suspend that it will linger for from the moment it
  was made (`Linger`): its task, or a later one, was not ended, was refused or has
  expired.
  `Order` says that tasks are replaced by later ones, so that every suspend and
  wakeup covers all before it; a resume leaves no suspend to linger for; and an
  idle ends the task only if no resume is pending (`Host`), and then there is
  nothing to linger for either.

`IpcProofs`, for every capacity, messages of every length and any number of poll
starts (`CapacityAssumption`, `IpcBounds`). The steps are split into those that
`BareIpc` and `AppleIpc` share and those with which a dispatch begins and ends
(`ThreadSteps` and `AppleSteps` show that there are no others), so that most of
the proof is done once for both:

* `MemoryIsSafe`, `HandlerIsOutlived`: what may be freed depends on where both
  threads are. `Calls` says which calls may be in progress at once and that a
  thread in a call has the ipc, `Polls` how long a poll stays linked and alive,
  `Locks` who holds the ipc's lock, `Port` how the host's end of the queue and the
  release of the queue go with the calls, and `SigThread` (on Apple platforms
  `Apple`) where the dispatch is and what is left of its memory. Their conjunction
  is inductive, and `IpcInvariant` and `HandlerInvariant` are its theorems.
* `BytesAreInOrder`, `AppleBytesAreInOrder`: `Stream` says that what is left of a
  message read in part goes on from the last byte read, and that the ring is a
  `Chain` from there to the last byte written. `ChainPush` and `ChainShift` show
  what a write and a read make of it, and `SharedMoves` that no other step has to
  do with bytes.
* `PollsAreNotLost`, `ApplePollsAreNotLost`: `PollNotLost` is inductive on top of
  all of this: `PollKept` for steps that make nothing ready and take back nothing
  that the host was told, `PollWoken` for those that wake it, and `PollRead`,
  `PollReadBytes` and `PollWrite` for those that use up what it was told.
* `TypeCorrect`: the types, from the parts above.

`StreamProofs`, for every capacity and chunks of every length
(`CapacityAssumption`, `StreamBounds`): `OpenStreamKeepsRunning`, an action
property: the step that ends the loop sees only that nothing refs it. `Life` says
that a loop that is neither referenced nor suspended has no open stream, and that
a stream that is not open has read the end and ended, unless it has failed;
`Through` says that one that has read the end has nothing left to read, as a host
that has ended writes no more, and one that has ended nothing left to write.

`ResourcesProofs`, for any worklets, keys and versions: `IInv` is `TypeOK`,
`DiskInv` (files in place are of this version), `Knows` (what a worklet has
written or found is in place, and so it writes the listing last) and
`ListingVouches`. `FilesAreStable` and `ProgramsFindResources` are action
properties that follow from it.

Model-checked only: every liveness property, since liveness under fairness is
beyond the prover, and what the runs show to be violated. All safety properties
that a passing run checks are proved, `HandlerOutlived` for dispatch queues, which
it is about; for a signal thread, `MemoryIsSafe` says what may not be freed.

## Not modelled

Setting callbacks, the memory options and versions of the API, the accessors,
`symbols.c` (one call of the dynamic linker), the JavaScript globals and how a
module is resolved are left out: they keep no state that others depend on, or are
set once before a start. Message contents, lengths of time, logging and failures
of allocation are left out, as no property tells them apart. The Bare runtime,
libuv, libdispatch, streamx and the virtual machine are external, and are modelled
as far as the code relies on them.

## Plan

1. An abstract byte stream that the host's reads implement, with `Stream` of
   `IpcProofs` as the invariant of the refinement.
2. The content of chunks through `_send` and `_retry`, which `QueueProtocol` has
   for messages that one call takes and `IpcStream` leaves out.
