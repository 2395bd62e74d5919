------------------------------ MODULE WhenAll ------------------------------
(***************************************************************************)
(* when_all (include/when_all.h) on its WaitGroup: the coroutine Parent    *)
(* awaits the other coroutines, each a wrapper around one of the tasks it  *)
(* was given.  The two forms differ in who keeps the shared state alive.   *)
(* For a vector the wrappers reach it through the lambda's closure, which  *)
(* lives in the frame of when_all; for a pack each wrapper has a           *)
(* shared_ptr of its own.                                                  *)
(*                                                                         *)
(* Of the runtime only this matters: a worker runs one coroutine of its    *)
(* queue at a time, and what a coroutine submits or reschedules goes to    *)
(* the queue of the worker it runs on.  The frames the runtime resumes and *)
(* destroys are the matter of Engine.                                      *)
(***************************************************************************)
EXTENDS WaitGroup, FiniteSets, SequencesExt

CONSTANTS
  Parent,
  Workers,
  MaxSuspends   \* bound: suspensions of one child

Children == Coros \ {Parent}

ASSUME ParentAssumption == Parent \in Coros /\ MaxSuspends \in Nat
ASSUME CorosAssumption == IsFiniteSet(Coros)

VARIABLES
  queue, running,   \* task_queue_ of each worker, and what it runs
  form,             \* "vector" or "tuple"
  kids,             \* wrappers of the tasks given
  res, exception,   \* VectorState, TupleState: result slots, first exception
  owners,           \* frames that keep the state alive
  stage,            \* where when_all and the wrappers are
  away,             \* wrappers suspended inside their child
  suspends,
  thrown,           \* history: the children that threw, in order
  dangling          \* the state was used after its end

runtimeVars == <<queue, running>>
stateVars == <<res, exception, owners>>
childVars == <<away, suspends, thrown>>
vars == <<wgVars, runtimeVars, form, kids, stateVars, stage, childVars,
          dangling>>

Init ==
  /\ WgInit
  /\ \E w \in Workers :
       queue = [v \in Workers |-> IF v = w THEN <<Parent>> ELSE <<>>]
  /\ running = [w \in Workers |-> None]
  /\ form \in {"vector", "tuple"} /\ kids \in SUBSET Children
  /\ res = [c \in Children |-> "empty"] /\ exception = None
  /\ owners = {}
  /\ stage = [c \in Coros |-> "start"]
  /\ away = {} /\ suspends = [c \in Children |-> 0]
  /\ thrown = <<>> /\ dangling = FALSE

GotoStage(c, s) == stage' = [stage EXCEPT ![c] = s]
Push(w, s) == queue' = [queue EXCEPT ![w] = @ \o s]
Suspended(w) == running' = [running EXCEPT ![w] = None]

(* The running coroutine of worker w reaches into the shared state. *)
Touch == dangling' = (dangling \/ owners = {})
----------------------------------------------------------------------------
(* The worker resumes the next coroutine of its queue. *)
Pick(w) ==
  /\ running[w] = None /\ queue[w] # <<>>
  /\ running' = [running EXCEPT ![w] = Head(queue[w])]
  /\ queue' = [queue EXCEPT ![w] = Tail(@)]
  /\ UNCHANGED <<wgVars, form, kids, stateVars, stage, childVars, dangling>>

(* Who keeps the state: the frame of when_all, and for a pack the wrappers *)
(* when_all_impl hands a shared_ptr to.                                    *)
SharedBy == {Parent} \cup (IF form = "tuple" THEN kids ELSE {})

(* Mutant of Start: the wrappers are spread over the workers. *)
StartSpreads(w) ==
  /\ running[w] = Parent /\ stage[Parent] = "start"
  /\ Add(Parent, Cardinality(kids))
  /\ \E at \in [kids -> Workers] :
       queue' = [v \in Workers |->
                   queue[v] \o SetToSeq({c \in kids : at[c] = v})]
  /\ owners' = SharedBy
  /\ GotoStage(Parent, "wait")
  /\ UNCHANGED <<running, form, kids, res, exception, childVars, dangling>>

(* when_all up to its co_await: the state is made, the count set, and the  *)
(* wrappers submitted to this worker's own context.                        *)
Start(w) ==
  /\ running[w] = Parent /\ stage[Parent] = "start"
  /\ Add(Parent, Cardinality(kids))
  /\ Push(w, SetToSeq(kids))
  /\ owners' = SharedBy
  /\ GotoStage(Parent, "wait")
  /\ UNCHANGED <<running, form, kids, res, exception, childVars, dangling>>

(* co_await state->wg.wait(): await_ready, then await_suspend. *)
ParentReady(w) ==
  /\ running[w] = Parent /\ stage[Parent] = "wait"
  /\ WaitReady(Parent)
  /\ IF count_ = 0 THEN GotoStage(Parent, "join") ELSE UNCHANGED stage
  /\ Touch
  /\ UNCHANGED <<runtimeVars, form, kids, stateVars, childVars>>

ParentSuspend(w) ==
  /\ running[w] = Parent
  /\ WaitSuspend(Parent)
  /\ GotoStage(Parent, "join")
  /\ running' = IF count_ = 0 THEN running ELSE [running EXCEPT ![w] = None]
  /\ Touch
  /\ UNCHANGED <<queue, form, kids, stateVars, childVars>>

ParentResumed(w) ==
  /\ running[w] = Parent
  /\ WaitReturn(Parent)
  /\ UNCHANGED <<runtimeVars, form, kids, stateVars, stage, childVars,
                 dangling>>

(* After the wait: rethrow the exception, or move the results out; either  *)
(* way the frame gives up the state.  An empty slot has no value to move.  *)
Finish(w) ==
  /\ running[w] = Parent /\ pc[Parent] = "idle" /\ stage[Parent] = "join"
  /\ GotoStage(Parent, IF exception # None THEN "threw"
                       ELSE IF \A c \in kids : res[c] = "value" THEN "returned"
                       ELSE "undefined")
  /\ owners' = owners \ {Parent}
  /\ Suspended(w)
  /\ Touch
  /\ UNCHANGED <<wgVars, queue, form, kids, res, exception, childVars>>
----------------------------------------------------------------------------
(* A wrapper c *)

InChild(w, c) == c \in Children /\ running[w] = c /\ stage[c] = "start"

(* co_await tasks[i]: the child suspends somewhere ... *)
ChildSuspends(w, c) ==
  /\ InChild(w, c) /\ suspends[c] < MaxSuspends
  /\ suspends' = [suspends EXCEPT ![c] = @ + 1]
  /\ away' = away \cup {c}
  /\ Suspended(w)
  /\ UNCHANGED <<wgVars, queue, form, kids, stateVars, stage, thrown,
                 dangling>>

(* ... and is rescheduled by whoever wakes it, on any worker. *)
ChildWakes(w) ==
  /\ \E c \in away : away' = away \ {c} /\ Push(w, <<c>>)
  /\ UNCHANGED <<wgVars, running, form, kids, stateVars, stage, suspends,
                 thrown, dangling>>

(* The child returns a value, which is put into its slot. *)
ChildReturns(w, c) ==
  /\ InChild(w, c)
  /\ res' = [res EXCEPT ![c] = "value"]
  /\ GotoStage(c, "done")
  /\ Touch
  /\ UNCHANGED <<wgVars, runtimeVars, form, kids, exception, owners,
                 childVars>>

(* Mutants of store_first_exception and of ChildThrows: the last exception *)
(* is kept; the catch block leaves without done().                         *)
store_last_exception(c) == exception' = c
ChildThrowsLeaves(w, c) ==
  /\ InChild(w, c)
  /\ exception' = IF exception = None THEN c ELSE exception
  /\ thrown' = Append(thrown, c)
  /\ GotoStage(c, "end")
  /\ Touch
  /\ UNCHANGED <<wgVars, runtimeVars, form, kids, res, owners, away, suspends>>

store_first_exception(c) ==
  exception' = IF exception = None THEN c ELSE exception

(* The child throws: await_resume rethrows in the wrapper, which keeps the *)
(* exception unless there is one already.                                  *)
ChildThrows(w, c) ==
  /\ InChild(w, c)
  /\ store_first_exception(c)
  /\ thrown' = Append(thrown, c)
  /\ GotoStage(c, "done")
  /\ Touch
  /\ UNCHANGED <<wgVars, runtimeVars, form, kids, res, owners, away, suspends>>

(* state->wg.done() *)
WrapperDone(w, c) ==
  /\ running[w] = c /\ stage[c] = "done"
  /\ Done(c)
  /\ GotoStage(c, "end")
  /\ Touch
  /\ UNCHANGED <<runtimeVars, form, kids, stateVars, childVars>>

WrapperDrain(w, c) ==
  /\ running[w] = c
  /\ Drain(c)
  /\ Touch
  /\ UNCHANGED <<runtimeVars, form, kids, stateVars, stage, childVars>>

(* The drained handles are locals of done(): the state is not used. *)
WrapperReschedule(w, c) ==
  /\ running[w] = c
  /\ Reschedule(c)
  /\ Push(w, <<Head(wake[c])>>)
  /\ UNCHANGED <<running, form, kids, stateVars, stage, childVars, dangling>>

WrapperDoneReturn(w, c) ==
  /\ running[w] = c
  /\ DoneReturn(c)
  /\ UNCHANGED <<runtimeVars, form, kids, stateVars, stage, childVars,
                 dangling>>

(* The wrapper is over.  Its worker destroys the frame it resumed: the     *)
(* wrapper's, which gives up its shared_ptr, or, once the child has        *)
(* suspended, the child's, which transferred to the wrapper; the wrapper's *)
(* frame then stays behind with what it owns (README, finding 4).          *)
WrapperEnd(w, c) ==
  /\ running[w] = c /\ stage[c] = "end" /\ pc[c] = "idle"
  /\ GotoStage(c, "over")
  /\ \/ suspends[c] = 0 /\ owners' = owners \ {c}
     \/ suspends[c] > 0 /\ UNCHANGED owners
  /\ Suspended(w)
  /\ UNCHANGED <<wgVars, queue, form, kids, res, exception, childVars,
                 dangling>>

ChildStep(w, c) ==
  ChildSuspends(w, c) \/ ChildReturns(w, c) \/ ChildThrows(w, c)

Step(w) ==
  \/ Pick(w) \/ Start(w) \/ ParentReady(w) \/ ParentSuspend(w)
  \/ ParentResumed(w) \/ Finish(w)
  \/ \E c \in Children :
       \/ ChildStep(w, c) \/ WrapperDone(w, c) \/ WrapperDrain(w, c)
       \/ WrapperReschedule(w, c) \/ WrapperDoneReturn(w, c) \/ WrapperEnd(w, c)

Wakes == \E w \in Workers : ChildWakes(w)

Next == Wakes \/ \E w \in Workers : Step(w)

Spec == Init /\ [][Next]_vars

(* Workers run, and a child that suspends is woken some time. *)
FairSpec == Spec /\ WF_vars(Wakes) /\ \A w \in Workers : WF_vars(Step(w))
----------------------------------------------------------------------------
(* Properties *)

(* The state is not used after the last frame that holds it has let go,    *)
(* although in the vector form only when_all's own frame holds it: no      *)
(* wrapper has anything left to do with it when when_all gets to its end.  *)
StateOutlivesUses == ~dangling

(* when_all comes back only after every child has ended: with all results  *)
(* if none threw, with the exception of the first that threw otherwise.    *)
JoinFaithful ==
  /\ stage[Parent] # "undefined"
  /\ stage[Parent] \in {"returned", "threw"} =>
       /\ \A c \in kids : stage[c] \in {"end", "over"}
       /\ (stage[Parent] = "threw") <=> (thrown # <<>>)
       /\ thrown # <<>> => exception = Head(thrown)

(* when_all comes back, with no children too. *)
WhenAllReturns == <>(stage[Parent] \in {"returned", "threw"})
=============================================================================
