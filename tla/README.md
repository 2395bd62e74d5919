# tiny_coroutine: TLA+ specifications

These modules specify the coroutine runtime and the synchronisation primitives
of tiny_coroutine. TLC checks them on small instances; TLAPS proves the safety of
all the primitives for every instance, and that of the scheduler and its workers for
the kinds of task named in section 4. Paths below are relative to the repository root
(`src/` here).

## 1. The system

| Component | Source | State | Operations |
|---|---|---|---|
| Scheduler | `src/runtime/scheduler.cpp`, `include/runtime/scheduler.h` | `state_mutex_`, `completion_cv_`, `contexts_`, `pending_tasks_`, `stop_requested_`, `accepting_`, `initialized_` | `init`, `submit`, `loop`, `stop`, destructor, `on_task_completed`, `submit_to_scheduler`, `yield` |
| Dispatcher | `include/runtime/dispatcher.h` | `next_`, `context_count_` | `init`, `dispatch` |
| Context | `src/runtime/context.cpp` | worker `jthread`, `work_batch_`, thread-local pointer | `start`, `run`, `notify_stop`, `join`, `submit_*` |
| Engine | `src/runtime/engine.cpp` | `mutex_`, `cv_`, four queues, `inflight_tasks_`, `inflight_io_`, the ring | `submit_*`, `pop_batch`, `poll_io`, `can_stop`, `wait_for_work_or_stop` |
| I/O awaiters | `include/runtime/io_awaiter.h` | fd, buffer, result, handle | `io_suspend_once`, `io::read`, `io::write` |
| reschedule_or_resume | `src/runtime/resume_handle.cpp` | none | reschedule on the caller's context, or resume inline |
| Channel | `include/channel.h` | ring buffer, two queues of parked coroutines, `close_`, `mtx_`, counters | `send`, `receive`, `try_*`, `try_*_many`, `close`, stats |
| AsyncMutex | `include/async_mutex.h` | `lock_`, `wait_queue_`, `mtx_`, guards | `lock`, `unlock`, `relock`, guard destruction and moves |
| ConditionVariable | `include/condition_variable.h` | `wait_queue_`, `mtx_` | `wait`, `notify_one`, `notify_all` |
| WaitGroup | `include/wait_group.h` | `count_`, `wait_queue_` | `add`, `done`, `wait` |
| when_all | `include/when_all.h` | results, first exception, a WaitGroup | `when_all` (vector, variadic) |
| Task | `include/task.h` | frame, caller, value, exception | resume, await, final suspension, destruction |
| IoUring | `include/io_uring.h` | the liburing ring | `submit_read`, `submit_write`, `submit`, `try_wait_one` |

Interaction: threads outside the runtime call the Scheduler. It counts a task,
picks a Context round robin and pushes the handle on that Context's Engine. The
worker pops handles in batches, resumes them, asks `done()`, destroys what has
ended and reports it through a callback. A running coroutine may suspend by
requeueing itself (`yield`), through the Engine's I/O queues, or in the wait
queue of a primitive. The primitives hand a popped handle to
`reschedule_or_resume`, always after they have released their own mutex.

What is hard here:

* the window between the unlock of a primitive and the reschedule of what it
  popped;
* a coroutine that has parked may run on another worker before the worker that
  suspended it has returned from `resume()` or from `await_suspend`;
* condition variables that are notified without the mutex of the waiter;
* values and contexts chosen under a lock and used after it;
* counters (`pending_tasks_`, `inflight_io_`) on which loop() and the workers
  base the decision to end, and their reset when init() follows a shutdown;
* frames that await one another: which handle is queued, who goes on when one
  ends, who destroys it;
* `WaitGroup::await_ready`, which reads the count without the mutex, and the
  shared state of when_all, which must outlive every wrapper that uses it;
* `close()` against sends and receives at every stage; wrap-around of the ring;
  the batch limits.

`PROJECT.json` lists these as hazards, each at its line.

What makes each part correct: a channel is a FIFO queue that neither loses nor
repeats nor invents a value and leaves nobody parked who could go on; a mutex has
one owner and serves in order of arrival; a condition variable loses no wakeup
and gives the mutex back; the runtime resumes each handle once per suspension,
counts its tasks exactly, drains before it stops and stops when asked; a
WaitGroup releases its waiters exactly at zero.

## 2. Modules

| Module | Models | Composed of |
|---|---|---|
| `Channel` | `Channel<T>` and its awaiters | refines `ChannelFifo` |
| `ChannelFifo` | abstract: a FIFO queue with close | |
| `Engine` | a Context with its Engine, IoUring, the I/O awaiters, Task frames, what a coroutine does on a worker | |
| `Scheduler` | Scheduler, Dispatcher, `submit_to_scheduler`, outside threads | EXTENDS `Engine` |
| `AsyncMutex` | AsyncMutex and LockGuard | refines `FifoLock` |
| `FifoLock` | abstract: a lock that serves in order of arrival | |
| `ConditionVariable` | ConditionVariable with its mutex and guards | EXTENDS `AsyncMutex` |
| `WaitGroup` | WaitGroup and its awaiter | refines `Latch` |
| `Latch` | abstract: waiters let go by the step that takes a counter to zero | |
| `WhenAll` | both forms of when_all with their wrappers and shared state | EXTENDS `WaitGroup` |
| `QueueLemmas` | what pushing and popping do to a queue of handles (proved) | |
| `AsyncMutexProofs`, `ConditionVariableProofs`, `ChannelProofs`, `WaitGroupProofs`, `WhenAllProofs` | theorems | EXTEND their component and `QueueLemmas` |
| `ChannelDeliveryProofs` | theorems: what becomes of the channel's values | EXTENDS `ChannelProofs` |
| `SchedulerProofs` | theorems about the runtime | EXTENDS `Scheduler` and `QueueLemmas` |
| `MC*` | instances for TLC | |

Definitions whose comment begins "Mutant of" are deliberately wrong variants of
the definition that follows. Substituted for it, each must make a named property
fail; they show that the property can see the bug and are used nowhere else.

### Channel

`buffer_`, `header_`, `tail_`, `count_`, `close_`, `sender_queue_` and
`receiver_queue_` are the members of the class. A queue entry is the caller; its
awaiter's value is `offer[c]`, its result `got[c]`, its `close_` flag `failed[c]`.
`wake[c]` holds the handles a call has popped and not yet rescheduled
(`resume_receiver`, `resume_senders`, ...).

Everything a call does under `mtx_` is one action, except the two batch calls,
which hold `mtx_` (`mtx_ = c`) over one action per element. `Reschedule` hands on
one popped handle; `ResumeSend`, `ResumeRecv` and `Return*` are `await_resume` and
the return. `send()` and its `await_suspend` are two actions, so that `close()` can
come in between. `HandOff`, `Push`, `TakeBuffered` and `TakeDirect` are the four
branches which the source repeats in each call.

Calls that change nothing have no action: a batch call on an empty range or with
`max_items = 0`, and a second `close()`, which throws. A receive() that fails is
`ResumeRecv` with nothing in `got`. Inline resumption of a popped coroutine by a
thread outside the runtime is the interleaving in which the coroutine's next
steps follow `Reschedule` at once. The counters of failed calls are not kept: no
property is about them and nothing else bounds them. Values are fresh numbers: the channel moves
values and never looks at them.

### Engine and Scheduler

A worker's `wpc` follows `Context::run`: pop, resume, run, resumed, complete,
poll, submit, reap, canStop, wait, waitBlock, blocked, exited. `BatchSize` stands
for `kProcessBatchSize` and `kIoPollBatchSize` (64 in the source). The queues and
counters are the Engine's; `sq`, `ring` and `cq` are io_uring's prepared,
accepted and completed operations, modelled from how `poll_io` uses IoUring.
`poll_io` holds `Engine::mutex_` from `PollPrepare` to the last `UringSubmit`; a
submission may take any positive part of what is prepared. At most 64 entries are
prepared per submission and the ring has 256, so `io_uring_get_sqe` does not fail.

`cv_.wait` is two steps, the predicate under the mutex (`WaitCheck`) and the
atomic unlock-and-sleep (`WaitBlock`). In between the mutex is held; whoever takes
it waits, whoever does not (`notify_stop`) runs on. `loop()` is split the same way.
`request_stop` and `notify_all` are two steps. A `Scheduler::submit` is three: the
decision of `submit_new` under `state_mutex_` (`SubmitNew`), the push under
`Engine::mutex_` (`SubmitPush`) and `cv_.notify_one` after it (`SubmitNotify`; `owed` is
the context still to be notified). In between the worker may drain its queue, end and
have its context destroyed; a notify that finds its `cv_` gone is undefined in the code
and wakes nobody in the model. The other pushes are by a worker on its own context, whose
notify finds that worker awake, and stay one step.

A task is a coroutine frame: none, live, final (at its final suspension),
destroyed, or leaked (its handle was pushed to a Context that is gone, or whose
worker had ended). `cur[k]` is the handle the worker resumed, `active[k]` the frame
that runs: `Await` transfers to a new frame and notes its `caller_`, `Finish`
transfers back. An awaited frame is destroyed by its Task object, at once
(`Release`) or when the awaiting body ends; a submitted one is detached and
destroyed by the worker. `Body` is what a coroutine may do between two suspensions;
which operations tasks perform is the constant `TaskCalls`, which calls a thread
makes is `Calls`. `Park` and `Wake` stand for any wait queue of a primitive. Using a
destroyed frame is undefined behaviour: `AfterResume` lets `done()` on it answer
either way and records the use in `dangling`.

A thread outside the runtime that takes a coroutine from a wait queue runs it itself
(resume_handle.cpp:17): `inlined[u]` is the stack of frames thread u is resuming.
`InlineResume` enters one, `InlinePark` returns because it has parked again, `InlineEnd`
takes it to its final suspension, and `InlineReturn` is the `await_suspend` of
`final_suspend`, which reads the frame (task.h:25), and the return of `resume()`. All of
them interleave with the worker the coroutine parked on, which may still have `done()`
and `destroy()` of the same frame to do (context.cpp:88). Between entering and leaving,
the coroutine may do what a thread may do (`Begin`) and resume further ones; yield() and
`submit_to_scheduler` throw there, which ends it. Awaits on that thread that do not
suspend are local to it and left out. Suspensions of awaited frames and inline resumption
are not modelled together (`InlineAssumption`): the end of such a frame would run its
caller on the outside thread.

`pending_tasks_` is an integer; below zero it would be a `size_t` that has wrapped
around. `next_` is kept modulo the number of contexts. `loop()` on a scheduler that is
not initialised throws and is no step.

`InitScheduler` may follow a completed shutdown. The last `Join` destroys the
contexts with whatever is left in their queues (`DestroyContexts`); a submit that
had chosen one of them then has `target` N. `accepted` starts anew with
`pending_tasks_`, since the reset gives up the tasks counted before.

### AsyncMutex and ConditionVariable

Each coroutine has one guard. `Take` is the `await_suspend` of both lock() and
relock(), with the `await_resume` that follows at once when the mutex was free.
`HandOver` is `AsyncMutex::unlock()` under `mtx_`; the popped waiter is in `wake`
until `Reschedule`. `Leave` clears `owns_lock_`, which LockGuard::unlock() does
last. The destructor ends the guard's life; the model clears its flag so that the
next lock() starts afresh.

`ConditionVariable` gives the remainder of `await_suspend` after the push its own control
points: from the push on, the coroutine and the thread that is suspending it run side by
side. `unlocks` are the coroutines whose wait has still to unlock the mutex, `tail_wake[c]`
the handle that unlock popped and has not rescheduled, `clears[c]` the number of threads
that have only `owns_lock_ = false` left to do. Nothing holds a notified coroutine back: it
relocks, returns, destroys its guard, locks again or waits again while such a thread is
still on its way. One slot for the first two parts is enough, because whoever calls wait()
has finished them for its earlier waits (the lemma `OneTail`); the late stores are bounded:
`CvWait` begins a wait of c with fewer than `MaxClears[c]` of them. All guards of a coroutine share one slot, like
the local variable of a loop body, so a late store hits the guard that is there then. A
store into a frame that has been freed is not modelled.

Coroutines notify, and so do the threads of `Outsiders`, which resume inline. The steps of
a coroutine are then those of whatever thread runs it: unless `alone`, every interleaving
is allowed, which contains the ones that several workers, or one worker beside outside
threads, can produce. `alone`, chosen at the start from the constant `Alone`, stands for a
scheduler with one context and no outside thread that notifies: whoever is inside a call
finishes it before another coroutine runs (`Turn`), and the outsiders do nothing. The
condition `ready` is set once, by an owner, who then calls notify_all before it locks
again. Plain `wait(guard)` takes the same steps as the form with a predicate.

### WaitGroup and WhenAll

`done()` decrements the atomic `count_` and drains `wait_queue_` under `mtx`. Since
`await_ready` reads the count without it, the two are separate steps (`Done`,
`Drain`) with `mtx` held in between; the drained handles are rescheduled one by one
after the unlock. A waiter is let go, in terms of `Latch`, by the decrement: the
refinement maps `waiting` to the empty set while a `done()` holds `mtx`.

`WhenAll` composes these steps with what when_all needs of the runtime: each worker
runs one coroutine at a time, wrappers are submitted to the queue of the worker that
runs when_all, and a child that suspended may come back on any worker. `owners` are
the frames that keep the shared state alive: in the vector form only that of
when_all, whose closure the wrappers use, in the variadic form the wrappers too. Any
use of the state without an owner is recorded in `dangling`. A wrapper whose child has
suspended is left behind when it ends, with what it owns: the worker destroys the frame it
resumed, which is the child's (`WrapperEnd`, finding 4). What that does to the child's
frame is Engine's matter. The number of tasks, the
form and the order of results and exceptions are all free. Outside the runtime
`submit_to_scheduler` throws before a wrapper runs; that is no step.

## 3. Runs

All passing runs fire every action of their specification between them.
`CHECK_DEADLOCK FALSE` everywhere: threads and coroutines may stop calling, and a
coroutine may be parked for good when nobody comes to wake it.

| Run | Instance | Shows |
|---|---|---|
| `channel_buffered` | 3 callers, capacity 2, 4 values, batches up to 2, counters on | types, ring, parked handles, delivery, close contract, counters, refinement of `ChannelFifo` |
| `channel_rendezvous` | 3 callers, capacity 0, 3 values, batches up to 2 | the direct hand-off path alone: order; close releases everybody; a popped coroutine finishes |
| `scheduler_loop` | 2 workers, 3 frames, batch 2, two init(), loop() or stop() against another thread's submits, nested submits of both kinds, yield, await | exact count across shutdowns, single holder of each handle, nothing dangling, loop() completes all, no worker sleeps beside a task that was notified for |
| `scheduler_io` | 1 worker, 3 frames, batch 2, I/O in partial submissions, parking, await, outside resumption, stop() | exact I/O count, nothing left behind in the runtime |
| `mutex` | 4 coroutines | mutual exclusion, accounting, waiters, refinement of `FifoLock`, every waiter served |
| `condvar` | 2 coroutines that wait, 1 that locks, sets and notifies, an outside thread that notifies; or the three on a single worker, alone | mutual exclusion and waiters with waits in between, no lost wakeup; alone, wait() returns, and with the mutex owned |
| `wait_group` | 4 coroutines, add(1) and add(2), count up to 2, any number of rounds | waiters neither lost nor doubled, refinement of `Latch`, every parked waiter comes back |
| `when_all` | up to 3 children, 2 workers, both forms | shared state outlives its uses, results or first exception delivered, when_all returns |
| `scheduler_loop_wakes` | 1 worker, 1 task | **violated**, finding 1 |
| `scheduler_park` | 2 workers, 2 tasks | **violated**, finding 2 |
| `condvar_owns` | 1 coroutine and an outside thread that notifies | **violated**, finding 3 |
| `task_nested` | 1 worker, 2 frames | **violated**, finding 4 |

Bounds. Three callers are the fewest in which one parks, one pops it and a third
interferes before the reschedule; capacity 2 with 4 values lets the ring wrap with
senders parked; capacity 0 is the boundary case. Two workers and three frames give a
parent, a child and an outsider on different queues, or a chain of awaits of depth
three; `MaxInits` 2 lets one shutdown be followed by a whole second life; with batch 2
and three operations poll_io leaves one over. `MaxSuspends` 1 lets every task suspend in
each of the ways once; in `scheduler_io` it is 2, so that a coroutine can wait for I/O
and park. `MaxClears` is 2 for the two coroutines that wait: each may wait again while a
thread of its earlier wait is late, and both stores be late at once; it is 0 for the
third, which so never waits. Four coroutines on a mutex give an owner, a popped waiter
and two in the queue, whose order is then visible; four on a WaitGroup give a done()
that is draining, one that decrements, and two waiters. Three children are the fewest
with a first, a second and a late exception. Symmetry is used for safety only.

Fairness. Weak fairness on the steps of a worker and on the continuation of a call that
has begun: a thread that can run is scheduled. No fairness for beginning a call, for
spurious wakeups, for the kernel completing an operation, or for a coroutine on an
outside thread parking or ending. Guards go out of scope, and whoever changes the
condition notifies: what users of the primitives promise. On a worker that is alone, the
steps of different coroutines alternate; strong fairness on them is justified by
`task_queue_` being first in, first out. In `when_all` the workers run and a child that
suspended is woken some time.

### Findings

1. `scheduler_loop_wakes`. `on_task_completed` (scheduler.cpp:89) decrements and
   notifies without `state_mutex_`. Both can fall between the predicate and the
   sleep of `loop()`, which then waits for ever with nothing pending.
   `notify_stop` (context.cpp:20) and `wait_for_work_or_stop` are built alike: a
   worker on its way to sleep can miss the stop and `join()` hangs.
2. `scheduler_park`. `process_work_once` reads `handle.done()` (context.cpp:88)
   after the coroutine may have parked, been resumed by another worker, ended and
   been destroyed. The task is then destroyed and reported twice and
   `pending_tasks_` is too small.
3. `condvar_owns`. The `unlock()` inside a wait clears `owns_lock_`
   (async_mutex.h:74) after the waiter was published; notified in between, wait()
   returns with a guard that does not own the mutex it holds, and nobody unlocks
   it. It takes a second thread: another worker, or, with one worker and one
   coroutine, a thread outside the runtime that notifies and so resumes the waiter
   inline, as the main thread of the tests does (test_condition_variable.cpp:35, 68).
   On a single worker with nobody outside who notifies it cannot happen
   (`AloneReturnsOwning`).
4. `task_nested`. A coroutine that suspends inside a task it awaits is queued by the
   inner frame. When that frame ends it transfers to its caller within the same
   `resume()`, and `process_work_once` (context.cpp:88) then asks, destroys and
   reports the inner frame, which belongs to the caller's Task or is gone already;
   the outer task is unfinished, or ends without being destroyed or counted. The
   passing runs await tasks that do not suspend; `"inner"` in `TaskCalls` adds the
   suspensions.

Six limits of the passing runs belong to the same reading of the code. `DrainedAtReturn`
is checked without submits that race stop(): `submit_new` pushes after it has released
`state_mutex_` (scheduler.cpp:85), and the context it chose may have stopped or be gone;
`scheduler_loop` contains those steps, calls such a task leaked and checks what survives
them. The same loss needs no second thread when a task on one worker submits, through
the Scheduler, to another worker that has already ended. `NoDangling` is checked without
outside resumption: there the worker's `destroy()` (context.cpp:89) can come before
`final_suspend` reads the frame on the outside thread. A task that such a thread resumes
to its end is destroyed and reported by nobody, unless the worker it parked on has yet
to ask `done()`: it stays counted, as `PendingExact` says, and loop() never ends. Of a
loop() and the stop() that ends it, whoever comes second to `shutdown_contexts` finds
`initialized_` false (scheduler.cpp:98) and returns while workers still run; the passing
runs have one thread that shuts down. `StateOutlivesUses` rests on the wrappers being
queued behind when_all on its own worker: spread over the workers (the mutant
`StartSpreads`), one could still be in `done()` when when_all sees zero in `await_ready`
and drops the state. A coroutine that stays parked across a shutdown and is woken by a
worker after the next init() (resume_handle.cpp:13) is counted off although init() has
reset `pending_tasks_`, which then wraps around; no passing run has both parking and a
second init().

## 4. Proofs

`AsyncMutexProofs` proves for every set of coroutines that the mutex has one owner
(`MutexMutualExclusion`), that `lock_` is set exactly while somebody has it
(`MutexLockAccounted`), that waiters are neither lost nor doubled
(`MutexWaiterOwnedOnce`), and that AsyncMutex implements FifoLock
(`MutexImplementsFifoLock`). The inductive invariant `MutexInv` is the conjunction of
the checked invariants with `GuardOwns` (only an owner's guard unlocks) and
`NobodyWaitsForFree` (a free mutex has an empty queue), which is what makes a
newcomer's Take a step of FifoLock. Its preservation has one lemma per kind of step:
taking, unlocking, and the steps that move neither mutex nor queue. The only
assumption is that `None` is no coroutine.

`ChannelProofs` proves for every capacity (0 included), every set of callers and any
bounds that the state keeps its types (`ChannelTypeOK`), that the ring is consistent
at every wrap-around (`ChannelRing`), that nobody is parked beside what it waits for
(`ChannelNoMissedMatch`), and that a parked coroutine's handle is in one place, once
(`ChannelHandleOwnedOnce`). The assumptions are those of `Channel`: natural bounds,
and `NoValue` and `Nobody` fresh. The four do not stand alone, hence one invariant,
`ChannelInv`:

* a refill writes the slot just emptied only because a sender is parked on a *full*
  buffer, so the ring needs `NoMissedMatch`;
* what it writes is a value, so it needs `OfferInv`: a parked sender's awaiter still
  holds one, which in turn needs that no popped sender is still queued
  (`HandleOwnedOnce`);
* close() overwrites the caller's list of popped handles, so ownership needs
  `WakeInv`: a caller outside a call holds none. For a `try_receive_many` that
  took nothing and returns at once this means that it popped nobody either.

The argument has three layers: the ring's arithmetic with the remainder removed
(`RingForm`, then `RingPush`, `RingPop`, `RingRefill`), the ownership of handles per
kind of move (`OwnQuiet`, `OwnPop...`, `OwnPark...`, `OwnClose`, `OwnReschedule`), and
one lemma per action, which is either a `QuietStep` or a `MoveStep` around one of the
four helpers, or parks, closes or reschedules.

`ChannelDeliveryProofs` proves, under the same assumptions, what becomes of the values.
First the state is read as data: the slots from `header_` on as a sequence
(`BufferPush`, `BufferPop`, `BufferRefill`), the values of the parked senders as another,
and `Contents` as their concatenation, so that each helper of the model is one operation
on a sequence (`PushContents`, `HandOffContents`, `ParkContents`, `TakeContents`,
`CloseContents`). Then:

* `ChannelImplementsFifo`: every step is a step of ChannelFifo or leaves the queue alone.
  A refill moves the first parked value to the end of the buffer, which leaves the
  concatenation as it is. A step of the batch loops is a send only if the channel is
  open, hence `LoopInv`: whoever is in a loop holds `mtx_`, which keeps close() out.
* `ChannelReceiveFails`: `RecvInv` says of a receiver that was taken off the queue without
  a value that the channel is closed and empty. It stays so because nothing is pushed to
  a closed channel, which is `LoopInv` again.
* `ChannelStats`: the balance of the counters is inductive with `ChannelInv`, per kind of
  move (`StatsMove`, `StatsPark`, `StatsClose`, `StatsQuiet`).
* `ChannelTakenOnce`, `ChannelNackedNotDelivered`, `ChannelAckedNotLost`: `FlowInv` says where
  every value is. `ExclNow`: buffer, values taken, each caller's offer and the refused
  values are pairwise disjoint, without repetition, and contain only values handed out
  so far. `HeldInv`: what was taken is with one receiver or returned. `SentInv`: what a
  sender was given it still offers or it has been delivered. `SentInv` also ties the flag
  `failed` to the offer: a sender that close() failed still has its value, and one that
  was popped otherwise does not, so `await_resume` throws exactly for an undelivered
  value. That is the race between close(), a receiver and the reschedule.

`ConditionVariableProofs` proves for every set of coroutines and outside threads mutual
exclusion with waits (`CvExclusive`), that a waiter is kept once (`CvWaiterKept`) and that
wait() returns owning where a single worker is alone (`CvAloneOwns`). The invariant has the
mutex's part, in which a wait that has not yet unlocked still counts as given the mutex,
also after it was notified, and the part of the worker that is alone: while an
`await_suspend` is unfinished nobody else moves and nobody is notified, so the flag is
cleared before the waiter can be resumed. The latter is the step that finding 3 shows to
fail with any second thread. `OneTail` shows that the model's one slot per coroutine for an
unfinished `await_suspend` loses nothing.

`WaitGroupProofs` proves `WgWaiterHeldOnce` and the refinement of Latch
(`WgImplementsLatch`) for every set of coroutines and every set of arguments of add().
`WgInv` adds that `mtx` is held exactly by the coroutine that is draining, at zero
(`DrainLocked`), and that nobody is queued at zero otherwise (`NobodyWaitsAtZero`): the
decrement then lets go of all, and the drain is a stutter.

`WhenAllProofs` proves `WhenAllStateOutlivesUses` and `WhenAllJoinFaithful` for any finite
set of children, any workers and any number of suspensions, in both forms. `JoinInv`
says that `count_` is the number of wrappers that owe a done() (`CountInv`), that until
when_all suspends every wrapper is behind it in the queue of its own worker and has done
nothing (`QuietInv`), so that a zero seen by `await_ready` means that there are no
children, and that when_all goes on only at zero with `mtx` free (`JoinedInv`): the done()
that resumes it has left the lock, and no other is still in it. `QuietInv` is what the
mutant `StartSpreads` breaks.

`SchedulerProofs` proves the invariants of the runtime for any number of workers, frames
and threads, any batch size, and whatever the threads call and the tasks do, except what
the hypotheses exclude. Each hypothesis names a behaviour that breaks the property:

| Hypothesis | Excludes | Because |
|---|---|---|
| `OneController` | a second thread that shuts down or initialises | a loop() returns while another thread's stop() is still joining (scheduler.cpp:98) |
| `OneCaller` | in addition, submits by another thread | a submit pushes after its decision (scheduler.cpp:85) |
| `OwnSubmits` | with several workers, tasks that call `Scheduler::submit` | the worker chosen may have ended |
| `OwnHandles` | suspension in an awaited frame; with several workers, parking and waking by a worker | findings 4 and 2 |
| `NoOutsideWake` | resumption by a thread outside the runtime | its `final_suspend` races the worker's `done()` and `destroy()` of the same frame |
| `NoLateWake` | with a second init(), parking and waking by a worker | the late wake of section 3 |
| `NoOldParks` | with a second init(), parking | init() forgets the frame that is still parked |

The runs `scheduler_loop` and `scheduler_io` satisfy the hypotheses of the theorems about
the invariants they check. All theorems rest on the assumptions of `Engine` and `Scheduler`
about their constants, `InlineAssumption` among them.

| Theorem | Hypotheses | States |
|---|---|---|
| `SchedulerNotified` | none | `PushedIsNotified` |
| `SchedulerHandles` | none | `HandleHeldOnce` |
| `SchedulerInflight` | none | `InflightExact` |
| `SchedulerNoDangling` | `OwnHandles`, `NoOutsideWake` | `NoDangling` |
| `SchedulerPending` | `OwnHandles`, `NoLateWake` | `PendingExact` |
| `SchedulerTyped` | `OwnHandles`, `NoLateWake` | `TypeOK`; in particular no unsigned counter wraps around |
| `SchedulerDrained` | `OwnHandles`, `OneCaller`, `OwnSubmits` | `DrainedAtReturn` |
| `SchedulerCompletes` | `OwnHandles`, `NoOldParks`, `OneController` | `LoopCompletesAll` |

The argument, each layer resting on those before it:

* `ShutInv`: contexts are destroyed by the last join only, and one thread at a time ends
  them. `ReturnInv`: the only controller has none left when it returns.
* `HandleInv`: every live frame is in exactly one of twelve places (`At`: the queues of an
  Engine, the three stages of the ring, a batch, a worker, a wait queue, a caller, a hand
  of a thread), every other frame in none, and no queue repeats a handle. Every action is
  a move between two places, shown per kind of move.
* `NotifyInv`: a worker falls asleep holding `mutex_`, beside an empty queue, and a submit owes
  no earlier `notify_one` when it pushes, so every push to a sleeper is owed one.
* `InflightInv`: `inflight_io_` is the number of operations in the six places of I/O.
* `OwnInv`: the handle a worker resumed is the bottom of the stack of frames it has
  entered, so that what it asks `done()` of, destroys and reports is the submitted frame
  and nothing else can have destroyed it.
* `AcceptedInv`, `GoneInv`: a frame that is not counted is not reachable for a worker
  either, hence what a worker reports was counted once and is counted off once.
* `ResumingInv` and `RestTypes` bound the other counters from below.
* `ChainInv`: the frames a worker has entered form a chain that ends at the handle it
  resumed. It excludes frames that await one another in a circle, live but with no
  worker; without it an awaited frame could outlast every worker.
* `StartedInv`, `SubmitterInv`, `DrainInv`: workers are asked to stop only after the
  decision to shut down, every push finds the context it chose, and a worker that has
  ended left its queues empty (`can_stop`). When all are joined, no live frame has a place
  left but a wait queue.
* `FamilyInv`: a caller outlives what it awaits. `FinalInv`: without parks, a submitted frame
  at its final suspension is with the worker that is about to see it. `TopsInv`: with one
  init(), every frame without a caller has been accepted. `QuietInv`: a loop() that is past its wait and that nobody
  stopped has seen zero, and nothing is accepted after it. With a count of zero no frame
  is then left (`NothingLeft`).

`QueueLemmas` states once what `push`, `pop` and the joining of two queues do to the
handles they hold.

The inductive invariants were checked with TLC on instances like those of section 3
before they were proved.

Every invariant and every refinement that the passing runs check is thus the statement of
a theorem, for the runtime under the hypotheses above. Only model-checked are the liveness
properties: fairness and ENABLED are out of TLAPS's reach here.

## 5. Not modelled

* `init()` by one thread while another's shutdown has cleared `initialized_` and not
  yet joined the workers: two generations of contexts would share
  `pending_tasks_`. A shutdown that is called from inside a task, which joins itself.
* Moves of a LockGuard or of a Task; `Task::resume`, `done` and `get` called by hand;
  `reset_stats` and `stats_snapshot`; the channel's three counters of failed calls,
  which alone could grow for ever; `add()` with a negative count.
* Failure of io_uring calls, which throws on the worker and ends the process;
  I/O results and buffers; `IoUring::wait_one`, `Engine::try_pop_task` and
  `Engine::empty`, which nothing calls. An operation the kernel never completes keeps
  stop() waiting: nothing cancels it.
* Benchmarks, scripts, build files.

## 6. Plan

1. Proofs: weaker hypotheses for the runtime, above all `OwnSubmits` (what of
   `DrainedAtReturn` survives when a task submits to another worker); an abstract
   specification of the runtime, a bag of counted tasks with a drain, and its refinement.
2. Model: overlapping init() and shutdown; moves of guards and tasks.
