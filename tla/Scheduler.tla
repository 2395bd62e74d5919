----------------------------- MODULE Scheduler -----------------------------
(***************************************************************************)
(* runtime::Scheduler (src/runtime/scheduler.cpp, include/runtime/) on top *)
(* of the contexts of Engine: threads outside the runtime call init,       *)
(* submit, loop and stop; the coroutines the workers run call              *)
(* submit_to_scheduler and Scheduler::submit.                              *)
(*                                                                         *)
(* state_mutex_ is held across two steps only by a loop() that has found   *)
(* its predicate false and has not gone to sleep yet (tpc "loopBlock").    *)
(*                                                                         *)
(* A thread outside the runtime that takes a coroutine from a wait queue   *)
(* runs it itself (inlined), beside the worker it parked on; such a frame  *)
(* is not in the runtime, and stays in parked until it ends.               *)
(***************************************************************************)
EXTENDS Engine

CONSTANTS
  Threads,     \* threads outside the runtime
  Calls,       \* Calls[u]: which of the calls thread u makes
  TaskCalls,   \* which of the operations coroutines perform
  MaxInits     \* bound: init() calls that build contexts

CallNames == {"init", "submit", "loop", "stop", "resume"}
(* "inner" stands for suspensions of a frame that another one awaits. *)
TaskCallNames == {"yield", "io", "read", "write", "park", "wake", "spawn",
                  "submit", "await", "inner"}

ASSUME CallsAssumption ==
  /\ Threads \cap Contexts = {}
  /\ Calls \in [Threads -> SUBSET CallNames]
  /\ TaskCalls \subseteq TaskCallNames
  /\ MaxInits \in Nat

(* Frames that suspend while another one awaits them and frames resumed by *)
(* an outside thread are not modelled together: the end of the one on the  *)
(* other's thread has no action here.                                      *)
ASSUME InlineAssumption ==
  "inner" \notin TaskCalls \/ \A u \in Threads : "resume" \notin Calls[u]

VARIABLES
  initialized_, accepting_, stop_requested_, pending_tasks_,  \* Scheduler
  next_,      \* Dispatcher::next_, modulo the number of contexts
  contexts,   \* Context objects that exist
  tpc, call,  \* where each thread is, and in which blocking call
  todo,       \* contexts a thread's shutdown has still to notify or join
  hand,       \* handle that a submit has accepted and not yet pushed ...
  target,     \* ... and the context it goes to; N once that is gone
  owed,       \* context whose worker a submit has still to notify, or N
  inlined,    \* frames a thread is resuming itself, the innermost last
  inits,      \* init() calls that have built contexts
  accepted    \* history: tasks counted since pending_tasks_ was reset

flags == <<initialized_, accepting_, stop_requested_>>
threadVars == <<tpc, call, todo>>
submitVars == <<hand, target, owed>>
schedVars == <<flags, pending_tasks_, next_, contexts, threadVars, submitVars,
               inlined, inits, accepted>>
vars == <<engineVars, schedVars>>

Executors == Threads \cup Contexts

Init ==
  /\ EngineInit
  /\ initialized_ = FALSE /\ accepting_ = FALSE /\ stop_requested_ = FALSE
  /\ pending_tasks_ = 0 /\ next_ = 0 /\ contexts = {}
  /\ tpc = [u \in Threads |-> "idle"]
  /\ call = [u \in Threads |-> "none"]
  /\ todo = [u \in Threads |-> {}]
  /\ hand = [x \in Executors |-> NoTask]
  /\ target = [x \in Executors |-> 0]
  /\ owed = [x \in Executors |-> N]
  /\ inlined = [u \in Threads |-> <<>>]
  /\ inits = 0 /\ accepted = {}
----------------------------------------------------------------------------
stateMutexHeld == \E u \in Threads : tpc[u] = "loopBlock"

GotoT(u, p) == tpc' = [tpc EXCEPT ![u] = p]
Enter(u, name) == tpc[u] = "idle" /\ name \in Calls[u]
Waits(u, name) == Enter(u, name) /\ call' = [call EXCEPT ![u] = name]

(* No submit() of x's is under way. *)
Returned(x) == hand[x] = NoTask /\ owed[x] = N

(* completion_cv_.notify_all: a loop() that is awake misses it. *)
CompletionNotified ==
  [u \in Threads |-> IF tpc[u] = "loopBlocked" THEN "loopCheck" ELSE tpc[u]]

(* Mutant of InitScheduler: the count of the tasks before is kept. *)
InitKeepsCount(u) ==
  /\ Enter(u, "init") /\ ~stateMutexHeld
  /\ ~initialized_ /\ contexts = {} /\ inits < MaxInits
  /\ inits' = inits + 1
  /\ wpc' = [k \in Contexts |-> "pop"]
  /\ stop_token' = [k \in Contexts |-> FALSE]
  /\ contexts' = Contexts
  /\ next_' = 0
  /\ stop_requested_' = FALSE /\ accepting_' = TRUE /\ initialized_' = TRUE
  /\ accepted' = {}
  /\ UNCHANGED <<queuesE, counters, kernel, worker, coro, dangling, threadVars,
                 submitVars, inlined, pending_tasks_>>

(* init(): the contexts are constructed and started, after a shutdown once *)
(* more.  A worker leaves its loop with nothing queued or in flight, so    *)
(* only stop_token tells a new context from the one it replaces.  On an    *)
(* initialized scheduler init() returns at once.                           *)
InitScheduler(u) ==
  /\ Enter(u, "init") /\ ~stateMutexHeld
  /\ ~initialized_ /\ contexts = {} /\ inits < MaxInits
  /\ inits' = inits + 1
  /\ wpc' = [k \in Contexts |-> "pop"]
  /\ stop_token' = [k \in Contexts |-> FALSE]
  /\ contexts' = Contexts
  /\ next_' = 0 /\ pending_tasks_' = 0
  /\ stop_requested_' = FALSE /\ accepting_' = TRUE /\ initialized_' = TRUE
  /\ accepted' = {}
  /\ UNCHANGED <<queuesE, counters, kernel, worker, coro, dangling, threadVars,
                 submitVars, inlined>>
----------------------------------------------------------------------------
(* submit_new, by a thread or by a coroutine on a worker *)

(* The part under state_mutex_: refuse and destroy, or count and choose a  *)
(* context round robin.                                                    *)
SubmitNew(x, t) ==
  /\ hand[x] = NoTask /\ frame[t] = "none" /\ ~stateMutexHeld
  /\ \/ /\ initialized_ /\ accepting_
        /\ pending_tasks_' = pending_tasks_ + 1
        /\ hand' = [hand EXCEPT ![x] = t]
        /\ target' = [target EXCEPT ![x] = next_]
        /\ next_' = (next_ + 1) % N
        /\ frame' = [frame EXCEPT ![t] = "live"]
        /\ accepted' = accepted \cup {t}
     \/ /\ ~(initialized_ /\ accepting_)
        /\ frame' = [frame EXCEPT ![t] = "destroyed"]
        /\ UNCHANGED <<pending_tasks_, hand, target, next_, accepted>>
  /\ UNCHANGED <<queuesE, counters, kernel, wpc, worker, stop_token, caller_,
                 parked, suspends, dangling, flags, contexts, threadVars, owed,
                 inlined, inits>>

(* target->submit_task, after the unlock: the push, under Engine::mutex_.  *)
(* The context may have stopped by now, or be gone: then the push is       *)
(* undefined and the handle is lost.                                       *)
SubmitPush(x) ==
  LET k == target[x] IN
  /\ hand[x] # NoTask
  /\ \/ /\ k \in contexts /\ ~mutexHeld(k)
        /\ submit_task(k, hand[x])
        /\ owed' = [owed EXCEPT ![x] = k]
        /\ UNCHANGED frame
     \/ /\ k \notin contexts
        /\ frame' = [frame EXCEPT ![hand[x]] = "leaked"]
        /\ UNCHANGED <<task_queue_, owed>>
  /\ hand' = [hand EXCEPT ![x] = NoTask]
  /\ target' = [target EXCEPT ![x] = 0]
  /\ UNCHANGED <<io_waiting_queue_, io_read_submit_queue_,
                 io_write_submit_queue_, counters, kernel, wpc, worker,
                 stop_token, caller_, parked, suspends, dangling, flags,
                 pending_tasks_, next_, contexts, threadVars, inlined, inits,
                 accepted>>

notifyOnly == <<queuesE, counters, kernel, worker, stop_token, coro, dangling,
                flags, pending_tasks_, next_, contexts, threadVars, hand,
                target, inlined, inits, accepted>>

(* Mutant of SubmitNotify: the worker is not woken. *)
SubmitNotifySilent(x) ==
  /\ owed[x] \in Contexts
  /\ owed' = [owed EXCEPT ![x] = N]
  /\ UNCHANGED <<notifyOnly, wpc>>

(* Its cv_.notify_one, after mutex_ is released. *)
SubmitNotify(x) ==
  /\ owed[x] \in Contexts
  /\ GotoW(owed[x], Notified(owed[x]))
  /\ owed' = [owed EXCEPT ![x] = N]
  /\ UNCHANGED notifyOnly

(* Mutant of Spawn: plain submit_task, which does not count. *)
SpawnUncounted(k, t) ==
  /\ Running(k) /\ frame[t] = "none"
  /\ frame' = [frame EXCEPT ![t] = "live"]
  /\ accepted' = accepted \cup {t}
  /\ submit_task(k, t)
  /\ UNCHANGED <<io_waiting_queue_, io_read_submit_queue_,
                 io_write_submit_queue_, counters, kernel, wpc, worker,
                 stop_token, caller_, parked, suspends, dangling, flags,
                 pending_tasks_, next_, contexts, threadVars, submitVars,
                 inlined, inits>>

(* submit_to_scheduler inside the runtime: submit_tracked_task counts the  *)
(* new task and pushes it on the caller's own context.                     *)
Spawn(k, t) ==
  /\ Running(k) /\ frame[t] = "none"
  /\ pending_tasks_' = pending_tasks_ + 1
  /\ frame' = [frame EXCEPT ![t] = "live"]
  /\ accepted' = accepted \cup {t}
  /\ submit_task(k, t)
  /\ UNCHANGED <<io_waiting_queue_, io_read_submit_queue_,
                 io_write_submit_queue_, counters, kernel, wpc, worker,
                 stop_token, caller_, parked, suspends, dangling, flags, next_,
                 contexts, threadVars, submitVars, inlined, inits>>

(* on_task_completed, called by the worker after handle.destroy(); it does *)
(* not take state_mutex_.                                                  *)
Complete(k) ==
  /\ wpc[k] = "complete"
  /\ pending_tasks_' = pending_tasks_ - 1
  /\ tpc' = IF pending_tasks_ = 1 THEN CompletionNotified ELSE tpc
  /\ cur' = [cur EXCEPT ![k] = NoTask]
  /\ GotoW(k, "resume")
  /\ UNCHANGED <<queuesE, counters, kernel, work_batch_, active, progressed,
                 completed, stop_token, coro, dangling, flags, next_, contexts,
                 call, todo, submitVars, inlined, inits, accepted>>
----------------------------------------------------------------------------
(* reschedule_or_resume on a thread outside the runtime *)

(* Frames that outside threads are running, and the innermost one of u's. *)
Inlined == UNION {Range(inlined[u]) : u \in Threads}
Innermost(u) == inlined[u][Len(inlined[u])]

(* Thread u runs its own code, or that of the coroutine it resumed last. *)
RunsCode(u) == inlined[u] # <<>> => Innermost(u) \in parked
RunsInlined(u) ==
  /\ Enter(u, "resume") /\ Returned(u)
  /\ inlined[u] # <<>> /\ Innermost(u) \in parked

inlineOnly == <<queuesE, counters, kernel, wpc, worker, stop_token, suspends,
                flags, pending_tasks_, next_, contexts, threadVars, submitVars,
                inits, accepted>>

(* u, or a coroutine it is running, takes a parked coroutine out of its    *)
(* wait queue.  There is no current context: handle.resume() runs it right *)
(* there.                                                                  *)
InlineResume(u) ==
  /\ Enter(u, "resume") /\ Returned(u) /\ RunsCode(u)
  /\ \E p \in parked \ Inlined :
       inlined' = [inlined EXCEPT ![u] = Append(@, p)]
  /\ UNCHANGED <<inlineOnly, frame, caller_, parked, dangling>>

(* It parks again, and resume() returns to u. *)
InlinePark(u) ==
  /\ RunsInlined(u)
  /\ inlined' = [inlined EXCEPT ![u] = SubSeq(@, 1, Len(@) - 1)]
  /\ UNCHANGED <<inlineOnly, frame, caller_, parked, dangling>>

(* It ends, also by the exception that co_await yield() and                *)
(* submit_to_scheduler throw without a context.  From here on done() is    *)
(* true for a worker that resumed it before.                               *)
InlineEnd(u) ==
  LET p == Innermost(u) IN
  /\ RunsInlined(u)
  /\ parked' = parked \ {p}
  /\ frame' = [Drop(Owned(p), frame) EXCEPT ![p] = "final"]
  /\ caller_' = Disowned(Owned(p))
  /\ dangling' = (dangling \/ Twice(Owned(p)))
  /\ UNCHANGED <<inlineOnly, inlined>>

(* The await_suspend of final_suspend looks for the caller in the frame,   *)
(* which such a worker may have destroyed; resume() returns to u, which    *)
(* does not look at done().                                                *)
InlineReturn(u) ==
  /\ inlined[u] # <<>> /\ Innermost(u) \notin parked
  /\ dangling' = (dangling \/ frame[Innermost(u)] # "final")
  /\ inlined' = [inlined EXCEPT ![u] = SubSeq(@, 1, Len(@) - 1)]
  /\ UNCHANGED <<inlineOnly, frame, caller_, parked>>
----------------------------------------------------------------------------
(* loop() and stop() *)

threadOnly == <<engineVars, pending_tasks_, next_, submitVars, inlined, inits,
                accepted>>

(* loop() throws unless initialized. *)
Loop(u) ==
  /\ Waits(u, "loop") /\ ~stateMutexHeld /\ initialized_
  /\ GotoT(u, "loopCheck")
  /\ UNCHANGED <<threadOnly, flags, contexts, todo>>

(* Mutant of LoopCheck: loop() does not wait for the tasks. *)
LoopNoWait(u) ==
  /\ tpc[u] = "loopCheck" /\ ~stateMutexHeld
  /\ accepting_' = FALSE
  /\ GotoT(u, "shutdown")
  /\ UNCHANGED <<threadOnly, initialized_, stop_requested_, contexts, call,
                 todo>>

(* The predicate of completion_cv_.wait, evaluated under state_mutex_. *)
LoopCheck(u) ==
  /\ tpc[u] = "loopCheck" /\ ~stateMutexHeld
  /\ \/ /\ stop_requested_ \/ pending_tasks_ = 0
        /\ accepting_' = FALSE
        /\ GotoT(u, "shutdown")
     \/ /\ ~stop_requested_ /\ pending_tasks_ # 0
        /\ GotoT(u, "loopBlock")
        /\ UNCHANGED accepting_
  /\ UNCHANGED <<threadOnly, initialized_, stop_requested_, contexts, call,
                 todo>>

LoopBlock(u) ==
  /\ tpc[u] = "loopBlock"
  /\ GotoT(u, "loopBlocked")
  /\ UNCHANGED <<threadOnly, flags, contexts, call, todo>>

LoopSpurious(u) ==
  /\ tpc[u] = "loopBlocked"
  /\ GotoT(u, "loopCheck")
  /\ UNCHANGED <<threadOnly, flags, contexts, call, todo>>

(* stop(), also the destructor; it returns at once when not initialized. *)
Stop(u) ==
  /\ Waits(u, "stop") /\ ~stateMutexHeld /\ initialized_
  /\ accepting_' = FALSE /\ stop_requested_' = TRUE
  /\ GotoT(u, "stopNotify")
  /\ UNCHANGED <<threadOnly, initialized_, contexts, todo>>

StopNotify(u) ==
  /\ tpc[u] = "stopNotify"
  /\ tpc' = [CompletionNotified EXCEPT ![u] = "shutdown"]
  /\ UNCHANGED <<threadOnly, flags, contexts, call, todo>>

(* shutdown_contexts: whoever comes second finds nothing to do. *)
Shutdown(u) ==
  /\ tpc[u] = "shutdown" /\ ~stateMutexHeld
  /\ \/ /\ ~initialized_
        /\ GotoT(u, "return")
        /\ UNCHANGED <<initialized_, todo>>
     \/ /\ initialized_
        /\ initialized_' = FALSE
        /\ todo' = [todo EXCEPT ![u] = contexts]
        /\ GotoT(u, "request")
  /\ UNCHANGED <<threadOnly, accepting_, stop_requested_, contexts, call>>

First(S) == CHOOSE k \in S : \A j \in S : k <= j

(* Context::notify_stop of the next context: request_stop, then notify_all *)
(* without taking Engine::mutex_.                                          *)
RequestStop(u) ==
  /\ tpc[u] = "request"
  /\ stop_token' = [stop_token EXCEPT ![First(todo[u])] = TRUE]
  /\ GotoT(u, "notify")
  /\ UNCHANGED <<queuesE, counters, kernel, wpc, worker, coro, dangling, flags,
                 pending_tasks_, next_, contexts, call, todo, submitVars,
                 inlined, inits, accepted>>

NotifyStop(u) ==
  /\ tpc[u] = "notify"
  /\ LET k == First(todo[u]) IN
       /\ GotoW(k, Notified(k))
       /\ \/ /\ todo[u] # {k}
             /\ todo' = [todo EXCEPT ![u] = @ \ {k}]
             /\ GotoT(u, "request")
          \/ /\ todo[u] = {k}
             /\ todo' = [todo EXCEPT ![u] = contexts]
             /\ GotoT(u, "join")
  /\ UNCHANGED <<queuesE, counters, kernel, worker, stop_token, coro, dangling,
                 flags, pending_tasks_, next_, contexts, call, submitVars,
                 inlined, inits, accepted>>

(* After the last join() the vector goes out of scope: the contexts are    *)
(* destroyed with the handles that were pushed after their workers had     *)
(* ended.  A submit on its way to one will find it gone; one that has      *)
(* pushed and not yet notified calls notify_one on a cv_ that is gone,     *)
(* which wakes nobody.                                                     *)
DestroyContexts ==
  LET lost == UNION {Range(task_queue_[k]) : k \in Contexts} IN
  /\ contexts' = {}
  /\ frame' = [t \in Tasks |-> IF t \in lost THEN "leaked" ELSE frame[t]]
  /\ task_queue_' = [k \in Contexts |-> <<>>]
  /\ target' = [x \in Executors |-> IF hand[x] = NoTask THEN 0 ELSE N]
  /\ owed' = [x \in Executors |-> N]

(* join() of the next context. *)
Join(u) ==
  /\ tpc[u] = "join" /\ wpc[First(todo[u])] = "exited"
  /\ todo' = [todo EXCEPT ![u] = @ \ {First(@)}]
  /\ \/ /\ todo[u] # {First(todo[u])}
        /\ UNCHANGED <<tpc, contexts, frame, task_queue_, target, owed>>
     \/ /\ todo[u] = {First(todo[u])}
        /\ DestroyContexts
        /\ GotoT(u, "return")
  /\ UNCHANGED <<io_waiting_queue_, io_read_submit_queue_,
                 io_write_submit_queue_, counters, kernel, wpc, worker,
                 stop_token, caller_, parked, suspends, dangling, flags,
                 pending_tasks_, next_, call, hand, inlined, inits, accepted>>

Return(u) ==
  /\ tpc[u] = "return"
  /\ GotoT(u, "idle")
  /\ call' = [call EXCEPT ![u] = "none"]
  /\ UNCHANGED <<threadOnly, flags, contexts, todo>>
----------------------------------------------------------------------------
(* Suspensions inside an awaited frame are the matter of one run only: see *)
(* the README on what they do to process_work_once.                        *)
MaySuspend(k) == caller_[active[k]] = NoTask \/ "inner" \in TaskCalls

(* The coroutine that is woken waits in a queue: no thread is running it. *)
WakeOne(k) == \E p \in parked \ Inlined : Wake(k, p)

(* What a coroutine does on worker k; submit() returns before it goes on.  *)
Body(k) ==
  /\ Running(k) /\ Returned(k)
  /\ \/ Finish(k)
     \/ Release(k)
     \/ "wake" \in TaskCalls /\ WakeOne(k)
     \/ "await" \in TaskCalls /\ \E t \in Tasks : Await(k, t)
     \/ /\ MaySuspend(k)
        /\ \/ "yield" \in TaskCalls /\ Yield(k)
           \/ "io" \in TaskCalls /\ IoSuspendOnce(k)
           \/ "read" \in TaskCalls /\ IoRead(k)
           \/ "write" \in TaskCalls /\ IoWrite(k)
           \/ "park" \in TaskCalls /\ Park(k)
  /\ UNCHANGED schedVars

Nested(k) ==
  \E t \in Tasks :
    /\ Running(k) /\ Returned(k)
    /\ \/ "spawn" \in TaskCalls /\ Spawn(k, t)
       \/ "submit" \in TaskCalls /\ SubmitNew(k, t)

WorkerLoop(k) ==
  /\ PopBatch(k) \/ ResumeNext(k) \/ AfterResume(k) \/ PollPrepare(k)
     \/ UringSubmit(k) \/ Reap(k) \/ PollReturn(k) \/ CanStop(k)
     \/ WaitCheck(k) \/ WaitBlock(k)
  /\ UNCHANGED schedVars

Worker(k) ==
  WorkerLoop(k) \/ Complete(k) \/ Body(k) \/ Nested(k) \/ SubmitPush(k)

Submit(u) ==
  \E t \in Tasks : Enter(u, "submit") /\ SubmitNew(u, t)

(* What thread u does itself, or a coroutine it is running. *)
Begin(u) ==
  /\ Returned(u) /\ RunsCode(u)
  /\ InitScheduler(u) \/ Submit(u) \/ Loop(u) \/ Stop(u)

Inline(u) == InlineResume(u) \/ InlinePark(u) \/ InlineEnd(u) \/ InlineReturn(u)

Continue(u) ==
  \/ SubmitPush(u) \/ LoopCheck(u) \/ LoopBlock(u) \/ StopNotify(u)
  \/ Shutdown(u) \/ RequestStop(u) \/ NotifyStop(u) \/ Join(u) \/ Return(u)

Environment ==
  \/ \E k \in Contexts :
       (SpuriousWake(k) \/ KernelComplete(k)) /\ UNCHANGED schedVars
  \/ \E u \in Threads : LoopSpurious(u)

Next ==
  \/ \E k \in Contexts : Worker(k)
  \/ \E u \in Threads : Begin(u) \/ Continue(u) \/ Inline(u)
  \/ \E x \in Executors : SubmitNotify(x)
  \/ Environment

Spec == Init /\ [][Next]_vars

(* Every thread that can run is scheduled; a condition variable need not   *)
(* wake up spuriously, the kernel need not complete, and no thread need    *)
(* begin a call, nor a coroutine that it runs end or park.                 *)
Fairness ==
  /\ \A k \in Contexts : WF_vars(Worker(k))
  /\ \A u \in Threads : WF_vars(Continue(u)) /\ WF_vars(InlineReturn(u))
  /\ \A x \in Executors : WF_vars(SubmitNotify(x))
FairSpec == Spec /\ Fairness
----------------------------------------------------------------------------
(* Properties *)

WorkerPCs == {"none", "pop", "resume", "run", "resumed", "complete", "poll",
              "submit", "reap", "canStop", "wait", "waitBlock", "blocked",
              "exited"}
ThreadPCs == {"idle", "loopCheck", "loopBlock", "loopBlocked", "stopNotify",
              "shutdown", "request", "notify", "join", "return"}

(* Every variable has the type its C++ counterpart has.  pending_tasks_    *)
(* below zero would stand for a size_t that has wrapped around.            *)
TypeOK ==
  /\ task_queue_ \in [Contexts -> Seq(Tasks)]
  /\ io_waiting_queue_ \in [Contexts -> Seq(Tasks)]
  /\ io_read_submit_queue_ \in [Contexts -> Seq(Tasks)]
  /\ io_write_submit_queue_ \in [Contexts -> Seq(Tasks)]
  /\ inflight_tasks_ \in [Contexts -> Nat] /\ inflight_io_ \in [Contexts -> Nat]
  /\ pending_submit_count_ \in [Contexts -> Nat]
  /\ sq \in [Contexts -> Seq(Tasks)]
  /\ ring \in [Contexts -> SUBSET Tasks] /\ cq \in [Contexts -> Seq(Tasks)]
  /\ wpc \in [Contexts -> WorkerPCs]
  /\ work_batch_ \in [Contexts -> Seq(Tasks)]
  /\ cur \in [Contexts -> Tasks \cup {NoTask}]
  /\ active \in [Contexts -> Tasks \cup {NoTask}]
  /\ progressed \in [Contexts -> BOOLEAN]
  /\ completed \in [Contexts -> 0..BatchSize]
  /\ stop_token \in [Contexts -> BOOLEAN]
  /\ frame \in [Tasks -> {"none", "live", "final", "destroyed", "leaked"}]
  /\ caller_ \in [Tasks -> Tasks \cup {NoTask}]
  /\ parked \subseteq Tasks /\ suspends \in [Tasks -> 0..MaxSuspends]
  /\ dangling \in BOOLEAN
  /\ initialized_ \in BOOLEAN /\ accepting_ \in BOOLEAN
  /\ stop_requested_ \in BOOLEAN
  /\ pending_tasks_ \in Nat /\ next_ \in Contexts /\ contexts \subseteq Contexts
  /\ tpc \in [Threads -> ThreadPCs]
  /\ call \in [Threads -> CallNames \cup {"none"}]
  /\ todo \in [Threads -> SUBSET Contexts]
  /\ hand \in [Executors -> Tasks \cup {NoTask}]
  /\ target \in [Executors -> 0..N] /\ owed \in [Executors -> 0..N]
  /\ inlined \in [Threads -> Seq(Tasks)] /\ inits \in 0..MaxInits
  /\ accepted \subseteq Tasks

(* pending_tasks_ counts the accepted tasks whose frame still exists, plus *)
(* the destroyed ones whose worker is about to report them; frames awaited *)
(* by another are no tasks of their own.  It is what loop() relies on:     *)
(* zero too early cuts tasks off, zero never hangs it.                     *)
PendingExact ==
  pending_tasks_ = Cardinality({t \in accepted : frame[t] # "destroyed"})
                   + Cardinality({k \in Contexts : wpc[k] = "complete"})

(* The places where the handle of task t is held. *)
Holders(t) ==
  LET In(q) == {k \in Contexts : t \in Range(q[k])} IN
  << In(task_queue_), In(io_waiting_queue_), In(io_read_submit_queue_),
     In(io_write_submit_queue_), In(sq), In(cq), In(work_batch_),
     {k \in Contexts : t \in ring[k]}, parked \cap {t},
     {x \in Executors : hand[x] = t},
     {c \in Tasks : caller_[c] = t /\ frame[c] = "live"},
     {k \in Contexts : active[k] = t /\ wpc[k] = "run"} >>
(* A live frame's handle is held in exactly one place, be it a queue, the  *)
(* frame it awaits or the worker that runs it, so that it is resumed once  *)
(* for every time it suspended: never twice, never not at all.             *)
(* The worker whose resume() is returning still looks at it, and is        *)
(* covered by NoDangling.                                                  *)
HandleHeldOnce ==
  \A t \in Tasks :
    LET H == Holders(t) IN
    /\ frame[t] = "live" =>
         /\ \E i \in 1..Len(H) : Cardinality(H[i]) = 1
         /\ \A i, j \in 1..Len(H) :
              H[i] # {} /\ H[j] # {} => i = j /\ Cardinality(H[i]) = 1
    /\ \A k \in Contexts : IsInjective(task_queue_[k])

(* No worker resumes, asks or destroys a frame that is gone, and no frame  *)
(* ends into a caller that is.                                             *)
NoDangling == ~dangling

(* inflight_io_ counts the operations that have been asked for and not     *)
(* been handed back to the task queue, wherever they are: a worker that    *)
(* saw zero too early would sleep or exit with a completion to come.       *)
InflightExact ==
  \A k \in Contexts :
    inflight_io_[k] = Len(io_waiting_queue_[k]) + Len(io_read_submit_queue_[k])
                      + Len(io_write_submit_queue_[k])
                      + Len(sq[k]) + Cardinality(ring[k]) + Len(cq[k])

(* When a loop() that nobody stopped returns, every accepted task has run  *)
(* to its end and been destroyed with the frames it awaited                *)
(* (SchedulerLoopCompletesAllTasks).  Only a submit that lost its context  *)
(* to a stop() before the last init() may still hold a handle.             *)
LoopCompletesAll ==
  \A u \in Threads :
    tpc[u] = "return" /\ call[u] = "loop" /\ ~stop_requested_ =>
      /\ \A t \in accepted : frame[t] = "destroyed"
      /\ \A t \in Tasks : frame[t] \notin {"live", "final"}
                            \/ \E x \in Executors : hand[x] = t

(* When loop(), stop() or the destructor returns, no task that submit      *)
(* accepted is left behind in the runtime or lost with its context: each   *)
(* one has run to its end, or is outside the runtime, parked in a wait     *)
(* queue or run by a thread that took it from there.                       *)
DrainedAtReturn ==
  \A u \in Threads :
    tpc[u] = "return" =>
      \A t \in accepted : frame[t] \notin {"live", "leaked"} \/ t \in parked

(* A worker sleeps beside a handle in its task queue only until the submit *)
(* that pushed it calls cv_.notify_one: no push falls between the worker's *)
(* look at its queue and its sleep, whoever submits, stops or wakes it     *)
(* meanwhile.  A push to a worker that has left its loop is lost, and not  *)
(* meant.                                                                  *)
PushedIsNotified ==
  \A k \in Contexts :
    wpc[k] = "blocked" /\ task_queue_[k] # <<>> =>
      \E x \in Executors : owed[x] = k

(* loop() wakes up once the last task has completed. *)
LoopWakes ==
  \A u \in Threads :
    (tpc[u] = "loopBlocked" /\ pending_tasks_ = 0) ~> (tpc[u] # "loopBlocked")
=============================================================================
