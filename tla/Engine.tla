------------------------------- MODULE Engine -------------------------------
(***************************************************************************)
(* runtime::Context and its Engine (src/runtime/context.cpp, engine.cpp):  *)
(* one worker thread per context that pops a batch of coroutine handles,   *)
(* resumes each one, submits and reaps I/O, and waits on cv_ when there is *)
(* nothing to do.  The actions here are the worker's own steps and the     *)
(* calls a coroutine makes while the worker runs it; Scheduler composes    *)
(* the contexts with the threads that submit, loop and stop.               *)
(*                                                                         *)
(* Engine::mutex_ is held across two steps only by a worker that has found *)
(* the predicate of cv_.wait false and has not gone to sleep yet (wpc      *)
(* "waitBlock"), or that is submitting to io_uring (wpc "submit").  What   *)
(* is done under it elsewhere is one step.                                 *)
(*                                                                         *)
(* A task is a coroutine frame (include/task.h).  One that is submitted is *)
(* detached and destroyed by the worker; one that another coroutine awaits *)
(* has a caller_, and is destroyed by the Task object its caller keeps.    *)
(***************************************************************************)
EXTENDS Integers, Sequences, FiniteSets, Functions

CONSTANTS
  N,               \* number of contexts
  Tasks,           \* coroutine frames
  NoTask,
  BatchSize,       \* kProcessBatchSize and kIoPollBatchSize (64)
  MaxSuspends      \* bound: suspensions of one coroutine

Contexts == 0..N - 1

ASSUME ContextsAssumption == N \in Nat \ {0}
ASSUME EngineBounds == BatchSize \in Nat \ {0} /\ MaxSuspends \in Nat
ASSUME NoTaskAssumption == NoTask \notin Tasks

VARIABLES
  task_queue_, io_waiting_queue_,              \* Engine, per context
  io_read_submit_queue_, io_write_submit_queue_,
  pending_submit_count_, inflight_tasks_, inflight_io_,
  sq,          \* external: entries prepared in the ring and not submitted
  ring,        \* external: operations the kernel has and has not completed
  cq,          \* external: completed operations not yet reaped
  wpc,         \* where each worker is
  work_batch_, \* handles popped and not yet resumed
  cur,         \* the handle the worker is resuming
  active,      \* the frame that runs, cur or one it has transferred to
  progressed,  \* poll_io has moved something
  completed,   \* completions this poll_io has reaped
  stop_token,  \* the jthread's stop state
  frame,       \* none, live, final (at final_suspend), destroyed or leaked
  caller_,     \* who awaits the frame and owns its Task, or NoTask
  parked,      \* outside the runtime: in a wait queue, or taken from it
  suspends,    \* how often each coroutine has suspended
  dangling     \* a destroyed frame has been used

queuesE == <<task_queue_, io_waiting_queue_, io_read_submit_queue_,
             io_write_submit_queue_>>
counters == <<inflight_tasks_, inflight_io_>>
kernel == <<pending_submit_count_, sq, ring, cq>>
batch == <<work_batch_, cur, active>>
worker == <<batch, progressed, completed>>
coro == <<frame, caller_, parked, suspends>>
engineVars == <<queuesE, counters, kernel, wpc, worker, stop_token, coro,
                dangling>>

EngineInit ==
  /\ task_queue_ = [k \in Contexts |-> <<>>]
  /\ io_waiting_queue_ = [k \in Contexts |-> <<>>]
  /\ io_read_submit_queue_ = [k \in Contexts |-> <<>>]
  /\ io_write_submit_queue_ = [k \in Contexts |-> <<>>]
  /\ inflight_tasks_ = [k \in Contexts |-> 0]
  /\ inflight_io_ = [k \in Contexts |-> 0]
  /\ pending_submit_count_ = [k \in Contexts |-> 0]
  /\ sq = [k \in Contexts |-> <<>>]
  /\ ring = [k \in Contexts |-> {}]
  /\ cq = [k \in Contexts |-> <<>>]
  /\ wpc = [k \in Contexts |-> "none"]
  /\ work_batch_ = [k \in Contexts |-> <<>>]
  /\ cur = [k \in Contexts |-> NoTask]
  /\ active = [k \in Contexts |-> NoTask]
  /\ progressed = [k \in Contexts |-> FALSE]
  /\ completed = [k \in Contexts |-> 0]
  /\ stop_token = [k \in Contexts |-> FALSE]
  /\ frame = [t \in Tasks |-> "none"]
  /\ caller_ = [t \in Tasks |-> NoTask]
  /\ parked = {}
  /\ suspends = [t \in Tasks |-> 0]
  /\ dangling = FALSE
----------------------------------------------------------------------------
Least(a, b) == IF a < b THEN a ELSE b
Prefix(s, n) == SubSeq(s, 1, Least(n, Len(s)))
Rest(s, n) == SubSeq(s, Least(n, Len(s)) + 1, Len(s))

mutexHeld(k) == wpc[k] \in {"waitBlock", "submit"}
GotoW(k, p) == wpc' = [wpc EXCEPT ![k] = p]

(* cv_.notify_one / notify_all: only the worker ever waits on cv_; one     *)
(* that is awake misses the call.                                          *)
Notified(k) == IF wpc[k] = "blocked" THEN "wait" ELSE wpc[k]

(* Engine::submit_task and its counters; the notify_one is the caller's. *)
submit_task(k, h) ==
  task_queue_' = [task_queue_ EXCEPT ![k] = Append(@, h)]
on_task_resume_begin(k) ==
  inflight_tasks_' = [inflight_tasks_ EXCEPT ![k] = @ + 1]
on_task_resume_end(k) ==
  inflight_tasks_' = [inflight_tasks_ EXCEPT ![k] = @ - 1]
on_io_inflight_begin(k) == inflight_io_' = [inflight_io_ EXCEPT ![k] = @ + 1]
on_io_inflight_end(k, n) == inflight_io_' = [inflight_io_ EXCEPT ![k] = @ - n]

(* IoUring: submit_read and submit_write prepare entries, submit passes    *)
(* the first n on to the kernel, try_wait_one takes a completion if there  *)
(* is one.                                                                 *)
uring_prepare(k, ops) == sq' = [sq EXCEPT ![k] = @ \o ops]
uring_submit(k, n) ==
  /\ ring' = [ring EXCEPT ![k] = @ \cup Range(Prefix(sq[k], n))]
  /\ sq' = [sq EXCEPT ![k] = Rest(@, n)]
uring_try_wait_one(k, h) ==
  cq[k] # <<>> /\ h = Head(cq[k]) /\ cq' = [cq EXCEPT ![k] = Tail(@)]

QueuesEmpty(k) ==
  /\ task_queue_[k] = <<>> /\ io_waiting_queue_[k] = <<>>
  /\ io_read_submit_queue_[k] = <<>> /\ io_write_submit_queue_[k] = <<>>
----------------------------------------------------------------------------
(* The worker loop, Context::run *)

(* process_work_once: pop_batch. *)
PopBatch(k) ==
  /\ wpc[k] = "pop"
  /\ \/ /\ task_queue_[k] = <<>>
        /\ GotoW(k, "poll")
        /\ UNCHANGED <<task_queue_, work_batch_>>
     \/ /\ task_queue_[k] # <<>>
        /\ work_batch_' =
             [work_batch_ EXCEPT ![k] = Prefix(task_queue_[k], BatchSize)]
        /\ task_queue_' =
             [task_queue_ EXCEPT ![k] = Rest(task_queue_[k], BatchSize)]
        /\ GotoW(k, "resume")
  /\ UNCHANGED <<io_waiting_queue_, io_read_submit_queue_,
                 io_write_submit_queue_, counters, kernel, cur, active,
                 progressed, completed, stop_token, coro, dangling>>

(* on_task_resume_begin and handle.resume() for the next handle of the     *)
(* batch; back to the top of the loop after the last one.                  *)
ResumeNext(k) ==
  /\ wpc[k] = "resume"
  /\ \/ /\ work_batch_[k] = <<>>
        /\ GotoW(k, "pop")
        /\ UNCHANGED <<batch, inflight_tasks_, dangling>>
     \/ /\ work_batch_[k] # <<>>
        /\ cur' = [cur EXCEPT ![k] = Head(work_batch_[k])]
        /\ active' = [active EXCEPT ![k] = Head(work_batch_[k])]
        /\ work_batch_' = [work_batch_ EXCEPT ![k] = Tail(@)]
        /\ on_task_resume_begin(k)
        /\ dangling' = (dangling \/ frame[Head(work_batch_[k])] # "live")
        /\ GotoW(k, "run")
  /\ UNCHANGED <<queuesE, inflight_io_, kernel, progressed, completed,
                 stop_token, coro>>

(* Mutant of AfterResume: the frame is destroyed without asking done(). *)
AfterResumeAlwaysDestroys(k) ==
  /\ wpc[k] = "resumed"
  /\ on_task_resume_end(k)
  /\ frame' = [frame EXCEPT ![cur[k]] = "destroyed"]
  /\ GotoW(k, "complete")
  /\ UNCHANGED <<queuesE, inflight_io_, kernel, worker, stop_token, caller_,
                 parked, suspends, dangling>>

(* resume() has returned: on_task_resume_end, then handle.done() on the    *)
(* handle just resumed, which may have been resumed elsewhere since, or be *)
(* an inner frame that has ended and gone on to its caller.  Done on a     *)
(* destroyed frame is undefined: it may say anything.                      *)
AfterResume(k) ==
  LET t == cur[k]
      Destroy == frame' = [frame EXCEPT ![t] = "destroyed"]
                 /\ GotoW(k, "complete") /\ UNCHANGED cur
      Leave == cur' = [cur EXCEPT ![k] = NoTask]
               /\ GotoW(k, "resume") /\ UNCHANGED frame
  IN
  /\ wpc[k] = "resumed"
  /\ on_task_resume_end(k)
  /\ dangling' = (dangling \/ frame[t] = "destroyed")
  /\ \/ frame[t] \in {"final", "destroyed"} /\ Destroy
     \/ frame[t] \in {"live", "destroyed"} /\ Leave
  /\ UNCHANGED <<queuesE, inflight_io_, kernel, work_batch_, active,
                 progressed, completed, stop_token, caller_, parked, suspends>>

(* Mutant of PollPrepare: io_waiting_queue_ is drained without             *)
(* on_io_inflight_end.                                                     *)
PollNoEnd(k) ==
  LET w == io_waiting_queue_[k] IN
  /\ wpc[k] = "poll"
  /\ task_queue_' = [task_queue_ EXCEPT ![k] = @ \o w]
  /\ io_waiting_queue_' = [io_waiting_queue_ EXCEPT ![k] = <<>>]
  /\ progressed' = [progressed EXCEPT ![k] = w # <<>>]
  /\ GotoW(k, "reap")
  /\ UNCHANGED <<io_read_submit_queue_, io_write_submit_queue_, counters,
                 kernel, batch, completed, stop_token, coro, dangling>>

(* poll_io under mutex_ up to the submission: at most BatchSize            *)
(* suspend-once waiters go back to the task queue, at most BatchSize reads *)
(* and then writes are prepared (submit_read and submit_write of IoUring). *)
PollPrepare(k) ==
  LET w  == Prefix(io_waiting_queue_[k], BatchSize)
      r  == Prefix(io_read_submit_queue_[k], BatchSize)
      wr == Prefix(io_write_submit_queue_[k], BatchSize - Len(r))
  IN
  /\ wpc[k] = "poll"
  /\ task_queue_' = [task_queue_ EXCEPT ![k] = @ \o w]
  /\ io_waiting_queue_' = [io_waiting_queue_ EXCEPT ![k] = Rest(@, BatchSize)]
  /\ on_io_inflight_end(k, Len(w))
  /\ io_read_submit_queue_' =
       [io_read_submit_queue_ EXCEPT ![k] = Rest(@, BatchSize)]
  /\ io_write_submit_queue_' =
       [io_write_submit_queue_ EXCEPT ![k] = Rest(@, Len(wr))]
  /\ uring_prepare(k, r \o wr)
  /\ pending_submit_count_' =
       [pending_submit_count_ EXCEPT ![k] = @ + Len(r) + Len(wr)]
  /\ progressed' = [progressed EXCEPT ![k] = w # <<>>]
  /\ GotoW(k, IF r \o wr = <<>> THEN "reap" ELSE "submit")
  /\ UNCHANGED <<inflight_tasks_, ring, cq, batch, completed, stop_token, coro,
                 dangling>>

(* uring_.submit(), which may take fewer entries than there are and is     *)
(* called until none is left.  One that takes none throws on the worker    *)
(* and ends the program (see README).                                      *)
UringSubmit(k) ==
  /\ wpc[k] = "submit"
  /\ \E n \in 1..pending_submit_count_[k] :
       /\ uring_submit(k, n)
       /\ pending_submit_count_' = [pending_submit_count_ EXCEPT ![k] = @ - n]
       /\ GotoW(k, IF n = pending_submit_count_[k] THEN "reap" ELSE "submit")
  /\ progressed' = [progressed EXCEPT ![k] = TRUE]
  /\ UNCHANGED <<queuesE, counters, cq, batch, completed, stop_token, coro,
                 dangling>>

(* try_wait_one finds a completion: its awaiter's coroutine goes back to   *)
(* the task queue.                                                         *)
Reap(k) ==
  /\ wpc[k] = "reap" /\ completed[k] < BatchSize
  /\ \E t \in Tasks : uring_try_wait_one(k, t) /\ submit_task(k, t)
  /\ on_io_inflight_end(k, 1)
  /\ progressed' = [progressed EXCEPT ![k] = TRUE]
  /\ completed' = [completed EXCEPT ![k] = @ + 1]
  /\ UNCHANGED <<io_waiting_queue_, io_read_submit_queue_,
                 io_write_submit_queue_, inflight_tasks_, pending_submit_count_,
                 sq, ring, wpc, batch, stop_token, coro, dangling>>

(* Nothing left to reap, or BatchSize completions reaped: poll_io returns. *)
PollReturn(k) ==
  /\ wpc[k] = "reap" /\ (cq[k] = <<>> \/ completed[k] = BatchSize)
  /\ completed' = [completed EXCEPT ![k] = 0]
  /\ progressed' = [progressed EXCEPT ![k] = FALSE]
  /\ GotoW(k, IF progressed[k] THEN "pop" ELSE "canStop")
  /\ UNCHANGED <<queuesE, counters, kernel, batch, stop_token, coro, dangling>>

(* Mutant of CanStop: operations the kernel still has are overlooked. *)
CanStopIgnoresIo(k) ==
  /\ wpc[k] = "canStop"
  /\ GotoW(k, IF stop_token[k] /\ QueuesEmpty(k) THEN "exited" ELSE "wait")
  /\ UNCHANGED <<queuesE, counters, kernel, worker, stop_token, coro, dangling>>

(* Engine::can_stop: leave the loop, or go and wait. *)
CanStop(k) ==
  /\ wpc[k] = "canStop"
  /\ GotoW(k, IF /\ stop_token[k] /\ QueuesEmpty(k)
                 /\ pending_submit_count_[k] = 0
                 /\ inflight_tasks_[k] = 0 /\ inflight_io_[k] = 0
              THEN "exited" ELSE "wait")
  /\ UNCHANGED <<queuesE, counters, kernel, worker, stop_token, coro, dangling>>

(* wait_for_work_or_stop: the predicate, evaluated under mutex_. *)
WaitCheck(k) ==
  /\ wpc[k] = "wait"
  /\ GotoW(k, IF stop_token[k] \/ ~QueuesEmpty(k)
                 \/ pending_submit_count_[k] # 0 \/ inflight_io_[k] # 0
              THEN "pop" ELSE "waitBlock")
  /\ UNCHANGED <<queuesE, counters, kernel, worker, stop_token, coro, dangling>>

(* cv_.wait releases mutex_ and sleeps, in one step. *)
WaitBlock(k) ==
  /\ wpc[k] = "waitBlock"
  /\ GotoW(k, "blocked")
  /\ UNCHANGED <<queuesE, counters, kernel, worker, stop_token, coro, dangling>>

(* A condition variable may wake up for no reason. *)
SpuriousWake(k) ==
  /\ wpc[k] = "blocked"
  /\ GotoW(k, "wait")
  /\ UNCHANGED <<queuesE, counters, kernel, worker, stop_token, coro, dangling>>

(* The kernel completes an operation, when it likes. *)
KernelComplete(k) ==
  /\ \E t \in ring[k] :
       /\ ring' = [ring EXCEPT ![k] = @ \ {t}]
       /\ cq' = [cq EXCEPT ![k] = Append(@, t)]
  /\ UNCHANGED <<queuesE, counters, pending_submit_count_, sq, wpc, worker,
                 stop_token, coro, dangling>>
----------------------------------------------------------------------------
(* What the coroutine active[k] does while worker k runs it *)

Running(k) == wpc[k] = "run"
Suspending(k) ==
  /\ Running(k) /\ suspends[active[k]] < MaxSuspends
  /\ suspends' = [suspends EXCEPT ![active[k]] = @ + 1]
  /\ active' = [active EXCEPT ![k] = NoTask]
  /\ GotoW(k, "resumed")
  /\ UNCHANGED <<inflight_tasks_, kernel, work_batch_, cur, progressed,
                 completed, stop_token, frame, caller_, dangling>>

(* co_await of a Task that has not run yet: await_suspend notes the caller *)
(* and transfers to the new frame, on the same worker.                     *)
Await(k, t) ==
  /\ Running(k) /\ frame[t] = "none"
  /\ frame' = [frame EXCEPT ![t] = "live"]
  /\ caller_' = [caller_ EXCEPT ![t] = active[k]]
  /\ active' = [active EXCEPT ![k] = t]
  /\ UNCHANGED <<queuesE, counters, kernel, wpc, work_batch_, cur, progressed,
                 completed, stop_token, parked, suspends, dangling>>

(* The frames in S are destroyed by the Task objects that own them. *)
Owned(t) ==
  {c \in Tasks : caller_[c] = t /\ frame[c] \in {"final", "destroyed"}}
Drop(S, f) == [t \in Tasks |-> IF t \in S THEN "destroyed" ELSE f[t]]
Disowned(S) == [t \in Tasks |-> IF t \in S THEN NoTask ELSE caller_[t]]
Twice(S) == \E t \in S : frame[t] = "destroyed"

(* ~Task of the awaited temporary, at the end of the full expression. *)
Release(k) ==
  /\ Running(k)
  /\ \E t \in Owned(active[k]) :
       /\ frame' = Drop({t}, frame)
       /\ caller_' = Disowned({t})
       /\ dangling' = (dangling \/ Twice({t}))
  /\ UNCHANGED <<queuesE, counters, kernel, wpc, worker, stop_token, parked,
                 suspends>>

(* Mutant of Finish: final_suspend does not go back to the caller. *)
FinishForgetsCaller(k) ==
  /\ Running(k)
  /\ frame' = [frame EXCEPT ![active[k]] = "final"]
  /\ active' = [active EXCEPT ![k] = NoTask]
  /\ GotoW(k, "resumed")
  /\ UNCHANGED <<queuesE, counters, kernel, work_batch_, cur, progressed,
                 completed, stop_token, caller_, parked, suspends, dangling>>

(* The body ends: the Tasks it still owns are destroyed, and final_suspend *)
(* transfers to the caller or, for a detached frame, returns to the worker.*)
Finish(k) ==
  LET t == active[k]
      S == Owned(t)
  IN
  /\ Running(k)
  /\ frame' = [Drop(S, frame) EXCEPT ![t] =
                 IF @ = "destroyed" THEN "destroyed" ELSE "final"]
  /\ caller_' = Disowned(S)
  /\ active' = [active EXCEPT ![k] = caller_[t]]
  /\ \/ /\ caller_[t] = NoTask
        /\ GotoW(k, "resumed")
        /\ dangling' = (dangling \/ Twice(S))
     \/ /\ caller_[t] # NoTask
        /\ dangling' = (dangling \/ Twice(S) \/ frame[caller_[t]] # "live")
        /\ UNCHANGED wpc
  /\ UNCHANGED <<queuesE, counters, kernel, work_batch_, cur, progressed,
                 completed, stop_token, parked, suspends>>

(* co_await yield() *)
Yield(k) ==
  /\ Suspending(k)
  /\ submit_task(k, active[k])
  /\ UNCHANGED <<io_waiting_queue_, io_read_submit_queue_,
                 io_write_submit_queue_, inflight_io_, parked>>

(* co_await io_suspend_once(): submit_io_waiting *)
IoSuspendOnce(k) ==
  /\ Suspending(k)
  /\ on_io_inflight_begin(k)
  /\ io_waiting_queue_' = [io_waiting_queue_ EXCEPT ![k] = Append(@, active[k])]
  /\ UNCHANGED <<task_queue_, io_read_submit_queue_, io_write_submit_queue_,
                 parked>>

(* co_await io::read(...): submit_io_read *)
IoRead(k) ==
  /\ Suspending(k)
  /\ on_io_inflight_begin(k)
  /\ io_read_submit_queue_' =
       [io_read_submit_queue_ EXCEPT ![k] = Append(@, active[k])]
  /\ UNCHANGED <<task_queue_, io_waiting_queue_, io_write_submit_queue_,
                 parked>>

(* co_await io::write(...): submit_io_write *)
IoWrite(k) ==
  /\ Suspending(k)
  /\ on_io_inflight_begin(k)
  /\ io_write_submit_queue_' =
       [io_write_submit_queue_ EXCEPT ![k] = Append(@, active[k])]
  /\ UNCHANGED <<task_queue_, io_waiting_queue_, io_read_submit_queue_, parked>>

(* The coroutine parks itself in the wait queue of a Channel, AsyncMutex,  *)
(* ConditionVariable or WaitGroup.  From here on another worker may        *)
(* resume it, before this worker's resume() has returned.                  *)
Park(k) ==
  /\ Suspending(k)
  /\ parked' = parked \cup {active[k]}
  /\ UNCHANGED <<queuesE, inflight_io_>>

(* It takes a parked coroutine out of such a queue and passes it to        *)
(* reschedule_or_resume, which uses the context of the caller.             *)
Wake(k, p) ==
  /\ Running(k)
  /\ parked' = parked \ {p}
  /\ submit_task(k, p)
  /\ UNCHANGED <<io_waiting_queue_, io_read_submit_queue_,
                 io_write_submit_queue_, counters, kernel, wpc, worker,
                 stop_token, frame, caller_, suspends, dangling>>
=============================================================================
