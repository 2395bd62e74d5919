-------------------------- MODULE SchedulerProofs --------------------------
(* Theorems about Scheduler on top of Engine: how a shutdown ends the      *)
(* workers, where the handle of every live coroutine is, who may look at a *)
(* frame when resume() has returned, what inflight_io_ and pending_tasks_  *)
(* count, and what loop() and stop() leave behind when they return.        *)
EXTENDS Scheduler, QueueLemmas, FiniteSetTheorems, WellFoundedInduction
----------------------------------------------------------------------------
(* What the proofs look at *)

(* Most of them leave aside who has still to notify whom, which frames run *)
(* on outside threads, and dangling.                                       *)
coreSched == <<flags, pending_tasks_, next_, contexts, threadVars, hand, target,
               inits, accepted>>
coreVars == <<queuesE, counters, kernel, wpc, worker, stop_token, coro,
              coreSched>>

(* The steps that change what is left: a notify_one is one more wakeup,    *)
(* and of a coroutine run outside only its end matters.                    *)
Starts(u) ==
  /\ hand[u] = NoTask
  /\ InitScheduler(u) \/ Submit(u) \/ InlineEnd(u) \/ Loop(u) \/ Stop(u)
Surroundings ==
  \/ \E k \in Contexts :
       (SpuriousWake(k) \/ KernelComplete(k)) /\ UNCHANGED coreSched
  \/ \E u \in Threads : LoopSpurious(u)
CoreNext ==
  \/ \E k \in Contexts : Worker(k)
  \/ \E u \in Threads : Starts(u) \/ Continue(u)
  \/ Surroundings

(* Every step is one of these or leaves the state they look at alone. *)
LEMMA NextCore ==
  ASSUME wpc \in [Contexts -> WorkerPCs], [Next]_vars
  PROVE  /\ [CoreNext]_coreVars
         /\ CoreNext \/ UNCHANGED dangling \/ \E u \in Threads : InlineReturn(u)
<1>1. CASE \E k \in Contexts : Worker(k)
  BY <1>1 DEF CoreNext
<1>2. CASE \E u \in Threads : Begin(u) \/ Continue(u) \/ InlineEnd(u)
  BY <1>2 DEF CoreNext, Begin, Starts, Returned, InlineEnd, RunsInlined
<1>3. CASE \E u \in Threads :
             InlineResume(u) \/ InlinePark(u) \/ InlineReturn(u)
  <2>1. UNCHANGED coreVars
    BY <1>3 DEF InlineResume, InlinePark, InlineReturn, inlineOnly, coreVars,
       coreSched, coro, submitVars
  <2>2. UNCHANGED dangling \/ \E u \in Threads : InlineReturn(u)
    BY <1>3 DEF InlineResume, InlinePark
  <2> QED BY <2>1, <2>2
<1>4. CASE \E x \in Executors : SubmitNotify(x)
  <2>1. PICK x \in Executors : SubmitNotify(x)
    BY <1>4
  <2>2. /\ UNCHANGED <<queuesE, counters, kernel, worker, stop_token, coro,
                       dangling, coreSched>>
        /\ owed[x] \in Contexts
        /\ wpc' = [wpc EXCEPT ![owed[x]] = Notified(owed[x])]
    BY <2>1 DEF SubmitNotify, notifyOnly, coreSched, GotoW
  <2>3. CASE wpc[owed[x]] = "blocked"
    <3>1. SpuriousWake(owed[x])
      BY <2>2, <2>3 DEF SpuriousWake, Notified, GotoW
    <3> QED BY <2>2, <3>1 DEF CoreNext, Surroundings
  <2>4. CASE wpc[owed[x]] # "blocked"
    <3>1. wpc' = wpc
      BY <2>2, <2>4 DEF Notified
    <3> QED BY <2>2, <3>1 DEF coreVars
  <2> QED BY <2>3, <2>4
<1>5. CASE Environment
  <2>1. Surroundings
    BY <1>5 DEF Environment, Surroundings, schedVars, coreSched, submitVars
  <2> QED BY <2>1 DEF CoreNext
<1>6. CASE UNCHANGED vars
  BY <1>6 DEF vars, engineVars, schedVars, submitVars, coreVars, coreSched
<1> QED BY <1>1, <1>2, <1>3, <1>4, <1>5, <1>6 DEF Next, Inline
----------------------------------------------------------------------------
(* Shutdown *)

(* Thread u is in the second half of shutdown_contexts: it has taken the   *)
(* contexts and notifies or joins them.                                    *)
Ending(u) == tpc[u] \in {"request", "notify", "join"}
Ended(k) == wpc[k] \in {"none", "exited"}

ShutTypes ==
  /\ tpc \in [Threads -> ThreadPCs] /\ todo \in [Threads -> SUBSET Contexts]
  /\ wpc \in [Contexts -> WorkerPCs] /\ initialized_ \in BOOLEAN

(* The contexts exist while the scheduler is initialized and while one     *)
(* thread, and no other, is ending them; the workers that thread has       *)
(* joined have left their loop, and without contexts all have.             *)
ShutInv ==
  /\ ShutTypes
  /\ initialized_ => contexts = Contexts /\ \A u \in Threads : ~Ending(u)
  /\ ~initialized_ /\ (\A u \in Threads : ~Ending(u)) => contexts = {}
  /\ \A u \in Threads : Ending(u) => contexts = Contexts /\ todo[u] # {}
  /\ \A u, v \in Threads : Ending(u) /\ Ending(v) => u = v
  /\ \A u \in Threads : tpc[u] = "join" =>
       \A k \in Contexts \ todo[u] : wpc[k] = "exited"
  /\ contexts = {} => \A k \in Contexts : Ended(k)

(* init() builds at least one context. *)
LEMMA SomeContext == Contexts # {}
<1>1. 0 \in 0..N - 1
  BY ContextsAssumption
<1> QED BY <1>1 DEF Contexts

(* CHOOSE finds the first context of a nonempty vector. *)
LEMMA FirstLemma ==
  ASSUME NEW S \in SUBSET Contexts, S # {}
  PROVE  First(S) \in S /\ First(S) \in Contexts
<1>1. S \subseteq Nat
  BY ContextsAssumption DEF Contexts
<1> DEFINE R == {p \in Nat \X Nat : p[1] < p[2]}
<1>2. IsWellFoundedOn(R, Nat)
  BY NatLessThanWellFounded, Zenon DEF OpToRel
<1> HIDE DEF R
<1>3. PICK m \in S : \A y \in S : ~(<<y, m>> \in R)
  BY <1>1, <1>2, WFMin, Zenon
<1>4. \A y \in S : m <= y
  <2> TAKE y \in S
  <2>1. y \in Nat /\ m \in Nat
    BY <1>1
  <2>2. y < m => <<y, m>> \in R
    BY <2>1 DEF R
  <2> QED BY <1>3, <2>1, <2>2
<1> QED BY <1>4 DEF First

(* A step that neither ends nor starts contexts: threads that are ending   *)
(* them stay where they are, and a worker that has ended stays so.         *)
ShutQuiet ==
  /\ UNCHANGED <<contexts, initialized_, todo>>
  /\ tpc' \in [Threads -> ThreadPCs]
  /\ \A u \in Threads : tpc'[u] # tpc[u] => ~Ending(u) /\ ~Ending(u)'
  /\ wpc' \in [Contexts -> WorkerPCs]
  /\ \A k \in Contexts : Ended(k) => wpc'[k] = wpc[k]

(* The invariant survives such a step. *)
LEMMA ShutQuietStep ==
  ASSUME ShutInv, ShutQuiet PROVE ShutInv'
<1>1. \A u \in Threads : Ending(u)' <=> Ending(u)
  BY DEF ShutQuiet, Ending
<1>2. \A u \in Threads : tpc'[u] = "join" => tpc[u] = "join"
  BY DEF ShutQuiet, Ending
<1>3. \A k \in Contexts : /\ Ended(k) => Ended(k)'
                          /\ wpc[k] = "exited" => wpc'[k] = "exited"
  BY DEF ShutQuiet, Ended
<1> QED BY <1>1, <1>2, <1>3 DEF ShutInv, ShutTypes, ShutQuiet

(* The waiters of completion_cv_ are in loop(), not in a shutdown. *)
LEMMA CompletionQuiet ==
  ASSUME ShutTypes
  PROVE  /\ CompletionNotified \in [Threads -> ThreadPCs]
         /\ \A u \in Threads : CompletionNotified[u] # tpc[u] =>
              tpc[u] = "loopBlocked" /\ CompletionNotified[u] = "loopCheck"
BY DEF ShutTypes, CompletionNotified, ThreadPCs

(* Every step of a worker is quiet: it ends only by leaving its own loop.  *)
LEMMA WorkerShut ==
  ASSUME ShutInv, NEW k \in Contexts, Worker(k) PROVE ShutQuiet
<1> USE DEF ShutInv, ShutTypes
<1>1. CASE WorkerLoop(k)
  BY <1>1 DEF WorkerLoop, schedVars, flags, threadVars, ShutQuiet, Ended,
     WorkerPCs, GotoW, PopBatch, ResumeNext, AfterResume, PollPrepare,
     UringSubmit, Reap, PollReturn, CanStop, WaitCheck, WaitBlock
<1>2. CASE Complete(k)
  <2>1. tpc' = CompletionNotified \/ tpc' = tpc
    BY <1>2 DEF Complete
  <2> QED BY <1>2, <2>1, CompletionQuiet
          DEF Complete, ShutQuiet, GotoW, Ended, Ending, WorkerPCs, flags
<1>3. CASE Body(k)
  BY <1>3 DEF Body, schedVars, flags, threadVars, ShutQuiet, Ended, Running,
     WorkerPCs, GotoW, Finish, Release, WakeOne, Wake, Await, Yield,
     IoSuspendOnce, IoRead, IoWrite, Park, Suspending
<1>4. CASE Nested(k)
  BY <1>4 DEF Nested, Spawn, SubmitNew, ShutQuiet, Ended, flags, threadVars
<1>5. CASE SubmitPush(k)
  BY <1>5 DEF SubmitPush, ShutQuiet, Ended, flags, threadVars, GotoW, Notified,
     WorkerPCs
<1> QED BY <1>1, <1>2, <1>3, <1>4, <1>5 DEF Worker

(* Every step of a thread outside the runtime keeps it.  Only init() and   *)
(* the steps of shutdown_contexts move contexts.                           *)
LEMMA ThreadShut ==
  ASSUME ShutInv, NEW u \in Threads, Starts(u) \/ Continue(u) PROVE ShutInv'
<1> USE DEF ShutInv, ShutTypes
<1>1. CASE InitScheduler(u)
  <2>1. tpc' = tpc /\ todo' = todo /\ contexts' = Contexts
        /\ initialized_' = TRUE /\ wpc' \in [Contexts -> WorkerPCs]
    BY <1>1 DEF InitScheduler, threadVars, WorkerPCs
  <2>2. \A v \in Threads : ~Ending(v)
    BY <1>1, SomeContext DEF InitScheduler
  <2>3. Contexts # {}
    BY SomeContext
  <2> QED BY <2>1, <2>2, <2>3 DEF Ending
<1>2. CASE Submit(u)
  BY <1>2, ShutQuietStep DEF Submit, SubmitNew, ShutQuiet, Ended, flags,
     threadVars
<1>3. CASE InlineEnd(u)
  BY <1>3, ShutQuietStep DEF InlineEnd, RunsInlined, inlineOnly, ShutQuiet,
     Ended, flags, threadVars
<1>4. CASE Loop(u) \/ Stop(u) \/ LoopCheck(u) \/ LoopBlock(u) \/ Return(u)
  <2>1. /\ UNCHANGED <<contexts, initialized_, todo, wpc>>
        /\ ~Ending(u)
        /\ \E p \in ThreadPCs \ {"request", "notify", "join"} : GotoT(u, p)
    BY <1>4 DEF Loop, Stop, LoopCheck, LoopBlock, Return, Waits, Enter, flags,
       threadOnly, engineVars, ThreadPCs, Ending
  <2> QED BY <2>1, ShutQuietStep DEF ShutQuiet, GotoT, Ending
<1>5. CASE SubmitPush(u)
  <2>1. ShutQuiet
    BY <1>5 DEF SubmitPush, ShutQuiet, Ended, flags, threadVars, GotoW,
       Notified, WorkerPCs
  <2> QED BY <2>1, ShutQuietStep
<1>6. CASE StopNotify(u)
  <2>1. ShutQuiet
    BY <1>6, CompletionQuiet
       DEF StopNotify, ShutQuiet, flags, threadOnly, engineVars, Ending,
           ThreadPCs
  <2> QED BY <2>1, ShutQuietStep
<1>7. CASE Shutdown(u)
  <2>1. CASE ~initialized_
    <3>1. ShutQuiet
      BY <1>7, <2>1 DEF Shutdown, ShutQuiet, threadOnly, engineVars, GotoT,
         Ending, ThreadPCs
    <3> QED BY <3>1, ShutQuietStep
  <2>2. CASE initialized_
    <3>1. /\ initialized_' = FALSE /\ UNCHANGED <<contexts, wpc>>
          /\ todo' = [todo EXCEPT ![u] = contexts]
          /\ tpc' = [tpc EXCEPT ![u] = "request"]
          /\ contexts = Contexts /\ \A v \in Threads : ~Ending(v)
      BY <1>7, <2>2 DEF Shutdown, threadOnly, engineVars, GotoT
    <3>2. Contexts # {}
      BY SomeContext
    <3>3. \A v \in Threads : Ending(v)' <=> v = u
      BY <3>1 DEF Ending
    <3>4. tpc' \in [Threads -> ThreadPCs]
          /\ \A v \in Threads : tpc'[v] # "join"
      BY <3>1 DEF ThreadPCs, Ending
    <3> QED BY <3>1, <3>2, <3>3, <3>4
  <2> QED BY <2>1, <2>2
<1>8. CASE RequestStop(u)
  <2>1. /\ UNCHANGED <<initialized_, contexts, wpc, todo>>
        /\ tpc[u] = "request" /\ tpc' = [tpc EXCEPT ![u] = "notify"]
    BY <1>8 DEF RequestStop, GotoT, flags
  <2>2. \A v \in Threads : Ending(v)' <=> Ending(v)
    BY <2>1 DEF Ending
  <2>3. tpc' \in [Threads -> ThreadPCs]
        /\ \A v \in Threads : tpc'[v] = "join" => tpc[v] = "join"
    BY <2>1 DEF ThreadPCs
  <2> QED BY <2>1, <2>2, <2>3 DEF Ended
<1>9. CASE NotifyStop(u)
  <2> DEFINE k == First(todo[u])
  <2>1. Ending(u) /\ todo[u] # {} /\ todo[u] \in SUBSET Contexts
    BY <1>9 DEF NotifyStop, Ending
  <2>2. k \in Contexts /\ k \in todo[u]
    BY <2>1, FirstLemma
  <2>3. /\ UNCHANGED <<initialized_, contexts>>
        /\ wpc' = [wpc EXCEPT ![k] = Notified(k)]
        /\ \/ /\ todo' = [todo EXCEPT ![u] = @ \ {k}] /\ todo[u] # {k}
              /\ tpc' = [tpc EXCEPT ![u] = "request"]
           \/ /\ todo' = [todo EXCEPT ![u] = contexts]
              /\ tpc' = [tpc EXCEPT ![u] = "join"]
    BY <1>9 DEF NotifyStop, GotoT, GotoW, flags
  <2> HIDE DEF k
  <2>4. /\ wpc' \in [Contexts -> WorkerPCs]
        /\ contexts' # {} /\ contexts = Contexts
    BY <2>1, <2>2, <2>3 DEF Notified, WorkerPCs
  <2>5. \A v \in Threads : Ending(v)' <=> Ending(v)
    BY <2>1, <2>3 DEF Ending
  <2>6. /\ tpc' \in [Threads -> ThreadPCs]
        /\ todo' \in [Threads -> SUBSET Contexts]
        /\ todo'[u] # {}
        /\ \A v \in Threads \ {u} : todo'[v] = todo[v] /\ tpc'[v] = tpc[v]
        /\ tpc'[u] = "join" => todo'[u] = Contexts
    BY <2>1, <2>2, <2>3, <2>4 DEF ThreadPCs
  <2>7. \A v \in Threads : Ending(v) => v = u
    BY <2>1
  <2>8. \A v \in Threads : tpc'[v] = "join" => v = u
    BY <2>6, <2>7 DEF Ending
  <2> QED BY <2>1, <2>3, <2>4, <2>5, <2>6, <2>7, <2>8
<1>10. CASE Join(u)
  <2> DEFINE k == First(todo[u])
  <2>1. /\ Ending(u) /\ todo[u] # {} /\ todo[u] \in SUBSET Contexts
        /\ tpc[u] = "join" /\ contexts = Contexts /\ ~initialized_
    BY <1>10 DEF Join, Ending
  <2>2. k \in Contexts /\ k \in todo[u]
    BY <2>1, FirstLemma
  <2>3. /\ UNCHANGED <<initialized_, wpc>> /\ wpc[k] = "exited"
        /\ todo' = [todo EXCEPT ![u] = @ \ {k}]
        /\ \/ todo[u] # {k} /\ UNCHANGED <<tpc, contexts>>
           \/ /\ todo[u] = {k} /\ contexts' = {}
              /\ tpc' = [tpc EXCEPT ![u] = "return"]
    BY <1>10 DEF Join, DestroyContexts, GotoT, flags
  <2> HIDE DEF k
  <2>4. \A v \in Threads : Ending(v) => v = u
    BY <2>1
  <2>5. todo' \in [Threads -> SUBSET Contexts]
        /\ \A j \in Contexts \ todo'[u] : wpc[j] = "exited"
    BY <2>1, <2>3
  <2>6. CASE todo[u] # {k} /\ UNCHANGED <<tpc, contexts>>
    <3>1. todo'[u] # {} /\ \A v \in Threads : Ending(v)' <=> Ending(v)
      BY <2>1, <2>2, <2>3, <2>6 DEF Ending
    <3>2. Contexts # {}
      BY SomeContext
    <3>3. \A v \in Threads : tpc[v] = "join" => v = u
      BY <2>4 DEF Ending
    <3> QED BY <2>1, <2>3, <2>4, <2>5, <2>6, <3>1, <3>2, <3>3
  <2>7. CASE /\ todo[u] = {k} /\ contexts' = {}
             /\ tpc' = [tpc EXCEPT ![u] = "return"]
    <3>1. \A v \in Threads : ~Ending(v)'
      BY <2>4, <2>7 DEF Ending
    <3>2. tpc' \in [Threads -> ThreadPCs]
          /\ \A v \in Threads : tpc'[v] # "join"
      BY <2>7, <3>1 DEF ThreadPCs, Ending
    <3>3. \A j \in Contexts : Ended(j)'
      BY <2>3, <2>5, <2>7 DEF Ended
    <3> QED BY <2>1, <2>3, <2>5, <2>7, <3>1, <3>2, <3>3
  <2> QED BY <2>3, <2>6, <2>7
<1> QED BY <1>1, <1>2, <1>3, <1>4, <1>5, <1>6, <1>7, <1>8, <1>9, <1>10
        DEF Starts, Continue

(* The invariant of a shutdown holds at the start and in every step. *)
LEMMA ShutHolds == Spec => []ShutInv
<1>1. Init => ShutInv
  <2> SUFFICES ASSUME Init PROVE ShutInv
    OBVIOUS
  <2>1. ShutTypes
    BY DEF Init, EngineInit, ShutTypes, ThreadPCs, WorkerPCs
  <2>2. /\ initialized_ = FALSE /\ contexts = {}
        /\ \A u \in Threads : tpc[u] = "idle"
        /\ \A k \in Contexts : wpc[k] = "none"
    BY DEF Init, EngineInit
  <2> QED BY <2>1, <2>2 DEF ShutInv, Ending, Ended
<1>2. ShutInv /\ [CoreNext]_coreVars => ShutInv'
  <2> SUFFICES ASSUME ShutInv, [CoreNext]_coreVars PROVE ShutInv'
    OBVIOUS
  <2>1. CASE \E k \in Contexts : Worker(k)
    BY <2>1, WorkerShut, ShutQuietStep
  <2>2. CASE \E u \in Threads : Starts(u) \/ Continue(u)
    BY <2>2, ThreadShut
  <2>3. CASE Surroundings
    <3>1. ShutQuiet
      BY <2>3 DEF Surroundings, coreSched, SpuriousWake, KernelComplete,
         LoopSpurious, ShutQuiet, ShutInv, ShutTypes, Ended, Ending, schedVars,
         flags, threadVars, threadOnly, engineVars, GotoW, GotoT, WorkerPCs,
         ThreadPCs
    <3> QED BY <3>1, ShutQuietStep
  <2>4. CASE UNCHANGED coreVars
    BY <2>4, ShutQuietStep DEF coreVars, coreSched, engineVars, schedVars,
       flags, threadVars, ShutQuiet, ShutInv, ShutTypes
  <2> QED BY <2>1, <2>2, <2>3, <2>4 DEF CoreNext
<1>3. ShutInv /\ [Next]_vars => [CoreNext]_coreVars
  BY NextCore DEF ShutInv, ShutTypes
<1> QED BY <1>1, <1>2, <1>3, PTL DEF Spec

(* Hence every step of a behavior moves the core, or nothing of it. *)
LEMMA CoreAlways == Spec => [][CoreNext]_coreVars
<1>1. ShutInv /\ [Next]_vars => [CoreNext]_coreVars
  BY NextCore DEF ShutInv, ShutTypes
<1> QED BY <1>1, ShutHolds, PTL DEF Spec

(* One thread alone initializes and ends the scheduler, as main does in    *)
(* every program of the repository.                                        *)
OneController ==
  \A u, v \in Threads :
    /\ Calls[u] \cap {"loop", "stop"} # {}
    /\ Calls[v] \cap {"init", "loop", "stop"} # {}
    => u = v

(* Whoever is in loop() or stop() may call them, and has no contexts left  *)
(* when it returns.                                                        *)
ReturnInv ==
  \A u \in Threads :
    /\ tpc[u] # "idle" => Calls[u] \cap {"loop", "stop"} # {}
    /\ tpc[u] = "return" => contexts = {}

(* Every step keeps that: without a second controller nobody shuts down or *)
(* initializes meanwhile.                                                  *)
LEMMA ReturnStep ==
  ASSUME OneController, ShutInv, ReturnInv, [CoreNext]_coreVars
  PROVE  ReturnInv'
<1> USE DEF ShutInv, ShutTypes
<1> DEFINE Same == /\ contexts' = contexts
                   /\ \A v \in Threads :
                        /\ tpc'[v] # "idle" => tpc[v] # "idle"
                        /\ tpc'[v] = "return" => tpc[v] = "return"
<1>1. ASSUME Same PROVE ReturnInv'
  BY <1>1 DEF ReturnInv
<1> HIDE DEF Same
<1>2. CASE \E k \in Contexts : Worker(k)
  <2>1. PICK k \in Contexts : Worker(k)
    BY <1>2
  <2>2. contexts' = contexts /\ (tpc' = tpc \/ tpc' = CompletionNotified)
    BY <2>1 DEF Worker, WorkerLoop, Complete, Body, Nested, Spawn, SubmitNew,
       SubmitPush, schedVars, threadVars
  <2> QED BY <1>1, <2>2, CompletionQuiet DEF Same
<1>3. CASE \E u \in Threads : Starts(u) \/ Continue(u)
  <2>1. PICK u \in Threads : Starts(u) \/ Continue(u)
    BY <1>3
  <2>2. CASE Submit(u) \/ InlineEnd(u) \/ SubmitPush(u)
    BY <1>1, <2>2 DEF Submit, SubmitNew, InlineEnd, RunsInlined, inlineOnly,
       SubmitPush, threadVars, Same
  <2>3. CASE InitScheduler(u)
    <3>1. tpc' = tpc /\ tpc[u] = "idle" /\ "init" \in Calls[u]
      BY <2>3 DEF InitScheduler, Enter, threadVars
    <3>2. \A v \in Threads : tpc[v] = "idle"
      BY <3>1 DEF ReturnInv, OneController
    <3> QED BY <3>1, <3>2 DEF ReturnInv
  <2>4. CASE Loop(u) \/ Stop(u)
    <3>1. /\ contexts' = contexts /\ Calls[u] \cap {"loop", "stop"} # {}
          /\ \E p \in ThreadPCs \ {"return"} : tpc' = [tpc EXCEPT ![u] = p]
      BY <2>4 DEF Loop, Stop, Waits, Enter, GotoT, ThreadPCs
    <3> QED BY <3>1 DEF ReturnInv
  <2>5. CASE LoopCheck(u) \/ LoopBlock(u) \/ RequestStop(u) \/ NotifyStop(u)
             \/ Return(u)
    <3>1. /\ contexts' = contexts /\ tpc[u] # "idle"
          /\ \E p \in ThreadPCs \ {"return"} : tpc' = [tpc EXCEPT ![u] = p]
      BY <2>5 DEF LoopCheck, LoopBlock, RequestStop, NotifyStop, Return, GotoT,
         ThreadPCs
    <3> QED BY <1>1, <3>1 DEF Same
  <2>6. CASE StopNotify(u)
    <3>1. /\ contexts' = contexts /\ tpc[u] # "idle"
          /\ tpc' = [CompletionNotified EXCEPT ![u] = "shutdown"]
      BY <2>6 DEF StopNotify
    <3> QED BY <1>1, <3>1, CompletionQuiet DEF Same
  <2>7. CASE Shutdown(u)
    <3>1. /\ contexts' = contexts /\ tpc[u] = "shutdown"
          /\ \/ initialized_ = FALSE /\ tpc' = [tpc EXCEPT ![u] = "return"]
             \/ tpc' = [tpc EXCEPT ![u] = "request"]
      BY <2>7 DEF Shutdown, GotoT
    <3>2. \A v \in Threads : v # u => tpc[v] = "idle"
      BY <3>1 DEF ReturnInv, OneController
    <3>3. initialized_ = FALSE => contexts = {}
      BY <3>1, <3>2 DEF Ending
    <3> QED BY <3>1, <3>2, <3>3 DEF ReturnInv
  <2>8. CASE Join(u)
    <3>1. /\ tpc[u] = "join"
          /\ \/ contexts' = contexts /\ tpc' = tpc
             \/ contexts' = {} /\ tpc' = [tpc EXCEPT ![u] = "return"]
      BY <2>8 DEF Join, DestroyContexts, GotoT
    <3> QED BY <3>1 DEF ReturnInv
  <2> QED BY <2>1, <2>2, <2>3, <2>4, <2>5, <2>6, <2>7, <2>8
          DEF Starts, Continue
<1>4. CASE Surroundings
  <2>1. contexts' = contexts /\ (tpc' = tpc \/ \E u \in Threads :
          tpc[u] = "loopBlocked" /\ tpc' = [tpc EXCEPT ![u] = "loopCheck"])
    BY <1>4 DEF Surroundings, coreSched, schedVars, threadVars, LoopSpurious,
       GotoT
  <2> QED BY <1>1, <2>1 DEF Same
<1>5. CASE UNCHANGED coreVars
  BY <1>1, <1>5 DEF coreVars, coreSched, schedVars, threadVars, Same
<1> QED BY <1>2, <1>3, <1>4, <1>5 DEF CoreNext

----------------------------------------------------------------------------
(* Where the handles are *)

Kinds == {"task", "waiting", "read", "write", "sq", "ring", "cq", "batch",
          "parked", "hand", "caller", "run"}
Spots == Executors \cup Tasks

(* The handle of task t is held in a place of kind i that belongs to x:    *)
(* the twelve places of Holders.                                           *)
At(t, i, x) ==
  \/ i = "task" /\ x \in Contexts /\ t \in Range(task_queue_[x])
  \/ i = "waiting" /\ x \in Contexts /\ t \in Range(io_waiting_queue_[x])
  \/ i = "read" /\ x \in Contexts /\ t \in Range(io_read_submit_queue_[x])
  \/ i = "write" /\ x \in Contexts /\ t \in Range(io_write_submit_queue_[x])
  \/ i = "sq" /\ x \in Contexts /\ t \in Range(sq[x])
  \/ i = "ring" /\ x \in Contexts /\ t \in ring[x]
  \/ i = "cq" /\ x \in Contexts /\ t \in Range(cq[x])
  \/ i = "batch" /\ x \in Contexts /\ t \in Range(work_batch_[x])
  \/ i = "parked" /\ x = t /\ t \in parked
  \/ i = "hand" /\ x \in Executors /\ hand[x] = t
  \/ i = "caller" /\ x \in Tasks /\ caller_[x] = t /\ frame[x] = "live"
  \/ i = "run" /\ x \in Contexts /\ wpc[x] = "run" /\ active[x] = t

(* A live frame is held in one place, any other frame in none. *)
OnlyAt(t, i, x) ==
  \A j \in Kinds, y \in Spots : At(t, j, y) <=> j = i /\ y = x
Nowhere(t) == \A j \in Kinds, y \in Spots : ~At(t, j, y)
HeldOnce(t) ==
  IF frame[t] = "live" THEN \E i \in Kinds, x \in Spots : OnlyAt(t, i, x)
                       ELSE Nowhere(t)

(* Queues of handles, one for each context, none of which holds a handle   *)
(* twice.                                                                  *)
Queues(q) ==
  q \in [Contexts -> Seq(Tasks)] /\ \A k \in Contexts : IsInjective(q[k])
QueuesInv ==
  /\ Queues(task_queue_) /\ Queues(io_waiting_queue_)
  /\ Queues(io_read_submit_queue_) /\ Queues(io_write_submit_queue_)
  /\ Queues(sq) /\ Queues(cq) /\ Queues(work_batch_)

Frames == {"none", "live", "final", "destroyed", "leaked"}
HandleTypes ==
  /\ ring \in [Contexts -> SUBSET Tasks]
  /\ wpc \in [Contexts -> WorkerPCs]
  /\ active \in [Contexts -> Tasks \cup {NoTask}]
  /\ frame \in [Tasks -> Frames]
  /\ caller_ \in [Tasks -> Tasks \cup {NoTask}]
  /\ parked \subseteq Tasks
  /\ hand \in [Executors -> Tasks \cup {NoTask}]

(* A worker runs a frame while it is in resume(), and has a batch only in  *)
(* process_work_once.                                                      *)
Processing(k) == wpc[k] \in {"resume", "run", "resumed", "complete"}
WorkInv ==
  \A k \in Contexts :
    /\ wpc[k] = "run" => active[k] \in Tasks
    /\ ~Processing(k) => work_batch_[k] = <<>>

(* A frame that has not begun has no caller; no frame that another awaits  *)
(* is parked unless such frames suspend.                                   *)
CallerInv ==
  /\ \A t \in Tasks : frame[t] = "none" => caller_[t] = NoTask
  /\ "inner" \notin TaskCalls => \A t \in parked : caller_[t] = NoTask

HandleInv ==
  /\ HandleTypes /\ QueuesInv /\ WorkInv /\ CallerInv
  /\ \A t \in Tasks : HeldOnce(t)

(* pop_batch and the drains of poll_io take the first n handles or all of  *)
(* them: what they take and what they leave make up the queue.             *)
LEMMA SplitLemma ==
  ASSUME NEW S, NEW q \in Seq(S), NEW n \in Nat
  PROVE  /\ Prefix(q, n) \in Seq(S) /\ Rest(q, n) \in Seq(S)
         /\ Range(q) = Range(Prefix(q, n)) \cup Range(Rest(q, n))
         /\ Len(Prefix(q, n)) = Least(n, Len(q))
         /\ Len(Rest(q, n)) = Len(q) - Least(n, Len(q))
         /\ IsInjective(q) =>
              /\ IsInjective(Prefix(q, n)) /\ IsInjective(Rest(q, n))
              /\ Range(Prefix(q, n)) \cap Range(Rest(q, n)) = {}
<1> DEFINE m == Least(n, Len(q))
           p == SubSeq(q, 1, m)
           r == SubSeq(q, m + 1, Len(q))
<1>1. /\ Len(q) \in Nat /\ m \in 0..Len(q) /\ DOMAIN q = 1..Len(q)
      /\ \A i \in 1..Len(q) : q[i] \in S
  BY LenProperties, ElementOfSeq DEF Least
<1> HIDE DEF m
<1>2. /\ p \in Seq(S) /\ Len(p) = m /\ \A i \in 1..m : p[i] = q[i]
  <2>1. \A i \in 1..m : q[i] \in S
    BY <1>1
  <2>2. /\ p \in Seq(S) /\ Len(p) = IF 1 <= m THEN m - 1 + 1 ELSE 0
        /\ \A i \in 1..m - 1 + 1 : p[i] = q[1 + i - 1]
    BY <1>1, <2>1, SubSeqProperties
  <2> QED BY <1>1, <2>2
<1>3. /\ r \in Seq(S) /\ Len(r) = Len(q) - m
      /\ \A i \in 1..Len(q) - m : r[i] = q[m + i]
  <2>1. \A i \in m + 1..Len(q) : q[i] \in S
    BY <1>1
  <2>2. /\ r \in Seq(S)
        /\ Len(r) = IF m + 1 <= Len(q) THEN Len(q) - (m + 1) + 1 ELSE 0
        /\ \A i \in 1..Len(q) - (m + 1) + 1 : r[i] = q[m + 1 + i - 1]
    BY <1>1, <2>1, SubSeqProperties
  <2>3. Len(q) - (m + 1) + 1 = Len(q) - m
        /\ \A i \in 1..Len(q) - m : m + 1 + i - 1 = m + i
    BY <1>1
  <2> HIDE DEF r
  <2>4. \A i \in 1..Len(q) - m : r[i] = q[m + i]
    <3> TAKE i \in 1..Len(q) - m
    <3>1. r[i] = q[m + 1 + i - 1]
      BY <2>2, <2>3
    <3> QED BY <2>3, <3>1
  <2>5. Len(r) = Len(q) - m
    <3>1. Len(q) \in Nat /\ m \in Nat /\ m <= Len(q)
      BY <1>1
    <3>2. CASE m + 1 <= Len(q)
      BY <2>2, <2>3, <3>2
    <3>3. CASE ~(m + 1 <= Len(q))
      <4>1. Len(q) - m = 0
        BY ONLY <3>1, <3>3
      <4> QED BY <2>2, <3>3, <4>1
    <3> QED BY <3>2, <3>3
  <2> QED BY <2>2, <2>4, <2>5
<1> HIDE DEF p, r
<1>4. DOMAIN p = 1..m /\ DOMAIN r = 1..Len(q) - m
  BY <1>2, <1>3, LenProperties
<1>5. Range(p) = {q[i] : i \in 1..m}
  BY <1>2, <1>4 DEF Range
<1>6. Range(r) = {q[i] : i \in m + 1..Len(q)}
  <2>1. \A i \in 1..Len(q) - m : m + i \in m + 1..Len(q)
    BY <1>1
  <2>2. \A i \in m + 1..Len(q) :
          i - m \in 1..Len(q) - m /\ m + (i - m) = i
    BY <1>1
  <2>3. \A i \in m + 1..Len(q) : r[i - m] = q[i]
    BY <1>3, <2>2
  <2> QED BY <1>3, <1>4, <2>1, <2>2, <2>3 DEF Range
<1>7. Range(q) = Range(p) \cup Range(r)
  <2>1. 1..Len(q) = 1..m \cup m + 1..Len(q)
    BY <1>1
  <2> QED BY <1>1, <1>5, <1>6, <2>1 DEF Range
<1>8. ASSUME IsInjective(q)
      PROVE  IsInjective(p) /\ IsInjective(r) /\ Range(p) \cap Range(r) = {}
  <2>1. \A i, j \in 1..Len(q) : q[i] = q[j] => i = j
    BY <1>1, <1>8 DEF IsInjective
  <2>2. IsInjective(p)
    BY <1>1, <1>2, <1>4, <2>1 DEF IsInjective
  <2>3. IsInjective(r)
    BY <1>1, <1>3, <1>4, <2>1 DEF IsInjective
  <2>4. \A i \in 1..m, j \in m + 1..Len(q) : q[i] # q[j]
    BY <1>1, <2>1
  <2> QED BY <1>5, <1>6, <2>2, <2>3, <2>4
<1>9. Prefix(q, n) = p /\ Rest(q, n) = r
  BY DEF Prefix, Rest, p, r, m
<1> QED BY <1>2, <1>3, <1>7, <1>8, <1>9 DEF m

(* How a step changes the places of one handle. *)
Stays(t) ==
  /\ frame'[t] = "live" <=> frame[t] = "live"
  /\ \A j \in Kinds, y \in Spots : At(t, j, y)' <=> At(t, j, y)
Goes(t, i, x, k, z) ==
  /\ At(t, i, x) /\ frame'[t] = "live"
  /\ \A j \in Kinds, y \in Spots :
       At(t, j, y)' <=> (j = k /\ y = z) \/ (At(t, j, y) /\ ~(j = i /\ y = x))
Comes(t, k, z) ==
  /\ frame[t] # "live" /\ frame'[t] = "live"
  /\ \A j \in Kinds, y \in Spots :
       At(t, j, y)' <=> (j = k /\ y = z) \/ At(t, j, y)
Departs(t, i, x) ==
  /\ At(t, i, x) /\ frame'[t] # "live"
  /\ \A j \in Kinds, y \in Spots :
       At(t, j, y)' <=> At(t, j, y) /\ ~(j = i /\ y = x)
Changes(t) ==
  \/ Stays(t)
  \/ \E i, k \in Kinds, x, z \in Spots : Goes(t, i, x, k, z)
  \/ \E k \in Kinds, z \in Spots : Comes(t, k, z)
  \/ \E i \in Kinds, x \in Spots : Departs(t, i, x)

(* A handle that is held is held there only, and its frame is live. *)
LEMMA HeldThere ==
  ASSUME NEW t, HeldOnce(t), NEW i \in Kinds, NEW x \in Spots, At(t, i, x)
  PROVE  frame[t] = "live" /\ OnlyAt(t, i, x)
<1>1. frame[t] = "live"
  BY DEF HeldOnce, Nowhere
<1>2. PICK j \in Kinds, y \in Spots : OnlyAt(t, j, y)
  BY <1>1 DEF HeldOnce
<1>3. i = j /\ x = y
  BY <1>2 DEF OnlyAt
<1> QED BY <1>1, <1>2, <1>3

(* Each of these changes leaves the handle of a live frame in one place. *)
LEMMA HeldStep ==
  ASSUME NEW t, HeldOnce(t), Changes(t)
  PROVE  HeldOnce(t)'
<1>1. CASE Stays(t)
  <2>1. CASE frame[t] = "live"
    <3>1. PICK i \in Kinds, x \in Spots : OnlyAt(t, i, x)
      BY <2>1 DEF HeldOnce
    <3>2. OnlyAt(t, i, x)'
      BY <1>1, <3>1 DEF OnlyAt, Stays
    <3> QED BY <1>1, <2>1, <3>2 DEF HeldOnce, Stays
  <2>2. CASE frame[t] # "live"
    BY <1>1, <2>2 DEF HeldOnce, Stays, Nowhere
  <2> QED BY <2>1, <2>2
<1>2. ASSUME NEW i \in Kinds, NEW k \in Kinds, NEW x \in Spots, NEW z \in Spots,
             Goes(t, i, x, k, z)
      PROVE  HeldOnce(t)'
  <2>1. OnlyAt(t, i, x)
    BY <1>2, HeldThere DEF Goes
  <2>2. OnlyAt(t, k, z)'
    BY <1>2, <2>1 DEF Goes, OnlyAt
  <2> QED BY <1>2, <2>2 DEF Goes, HeldOnce
<1>3. ASSUME NEW k \in Kinds, NEW z \in Spots, Comes(t, k, z)
      PROVE  HeldOnce(t)'
  <2>1. OnlyAt(t, k, z)'
    BY <1>3 DEF Comes, HeldOnce, Nowhere, OnlyAt
  <2> QED BY <1>3, <2>1 DEF Comes, HeldOnce
<1>4. ASSUME NEW i \in Kinds, NEW x \in Spots, Departs(t, i, x)
      PROVE  HeldOnce(t)'
  <2>1. OnlyAt(t, i, x)
    BY <1>4, HeldThere DEF Departs
  <2> QED BY <1>4, <2>1 DEF Departs, HeldOnce, Nowhere, OnlyAt
<1> QED BY <1>1, <1>2, <1>3, <1>4 DEF Changes

(* A step that moves no handle: frames that are not live may change, and   *)
(* workers may move where they run no frame.                               *)
QuietHandles ==
  /\ UNCHANGED <<queuesE, sq, ring, cq, work_batch_, active, parked, hand>>
  /\ frame' \in [Tasks -> Frames]
  /\ caller_' \in [Tasks -> Tasks \cup {NoTask}]
  /\ \A t \in Tasks :
       /\ frame'[t] = "live" <=> frame[t] = "live"
       /\ frame'[t] = "none" => frame[t] = "none"
       /\ frame[t] \in {"none", "live"} => caller_'[t] = caller_[t]
  /\ wpc' \in [Contexts -> WorkerPCs]
  /\ \A k \in Contexts :
       /\ wpc'[k] = "run" <=> wpc[k] = "run"
       /\ ~Processing(k)' => ~Processing(k) \/ work_batch_[k] = <<>>

(* The invariant survives it. *)
LEMMA QuietHandle ==
  ASSUME HandleInv, QuietHandles PROVE HandleInv'
<1>1. HandleTypes' /\ QueuesInv'
  BY DEF HandleInv, HandleTypes, QueuesInv, Queues, QuietHandles, queuesE
<1>2. WorkInv'
  BY DEF HandleInv, WorkInv, QuietHandles
<1>3. \A t \in Tasks : Stays(t)
  BY DEF QuietHandles, queuesE, Stays, At
<1>4. \A t \in Tasks : HeldOnce(t)'
  BY <1>3, HeldStep DEF HandleInv, Changes
<1>5. \A t \in parked : frame[t] = "live"
  <2> TAKE t \in parked
  <2>1. t \in Tasks /\ HeldOnce(t) /\ t \in Spots /\ "parked" \in Kinds
        /\ At(t, "parked", t)
    BY DEF HandleInv, HandleTypes, Spots, Kinds, At
  <2> QED BY <2>1, HeldThere
<1>6. CallerInv'
  BY <1>5 DEF HandleInv, HandleTypes, CallerInv, QuietHandles
<1> QED BY <1>1, <1>2, <1>4, <1>6 DEF HandleInv

(* The handles of M, all of one place, go to a place of another kind. *)
Moves(M, i, x, k, z) ==
  /\ i \in Kinds /\ k \in Kinds /\ i # k /\ x \in Spots /\ z \in Spots
  /\ \A t \in Tasks : frame'[t] = "live" <=> frame[t] = "live"
  /\ \A t \in Tasks, j \in Kinds \ {i, k}, y \in Spots :
       At(t, j, y)' <=> At(t, j, y)
  /\ \A t \in Tasks, y \in Spots :
       /\ At(t, i, y)' <=> At(t, i, y) /\ ~(y = x /\ t \in M)
       /\ At(t, k, y)' <=> At(t, k, y) \/ (y = z /\ t \in M)
  /\ \A t \in Tasks \cap M : At(t, i, x)

(* Then each handle is still in one place. *)
LEMMA MoveStep ==
  ASSUME HandleInv, NEW M, NEW i, NEW x, NEW k, NEW z, Moves(M, i, x, k, z)
  PROVE  \A t \in Tasks : HeldOnce(t)'
<1> SUFFICES ASSUME NEW t \in Tasks PROVE HeldOnce(t)'
  OBVIOUS
<1>1. HeldOnce(t)
  BY DEF HandleInv
<1> USE DEF Moves
<1>2. CASE t \notin M
  <2>1. ASSUME NEW j \in Kinds, NEW y \in Spots
        PROVE  At(t, j, y)' <=> At(t, j, y)
    <3>1. CASE j \in {i, k}
      BY <1>2, <3>1
    <3>2. CASE j \in Kinds \ {i, k}
      BY <3>2
    <3> QED BY <3>1, <3>2
  <2>2. Stays(t)
    BY <2>1 DEF Stays
  <2> QED BY <1>1, <2>2, HeldStep DEF Changes
<1>3. CASE t \in M
  <2>1. At(t, i, x) /\ frame[t] = "live"
    BY <1>1, <1>3, HeldThere
  <2>2. ASSUME NEW j \in Kinds, NEW y \in Spots
        PROVE  At(t, j, y)' <=> \/ j = k /\ y = z
                                \/ At(t, j, y) /\ ~(j = i /\ y = x)
    <3>1. CASE j = i
      BY <1>3, <3>1
    <3>2. CASE j = k
      BY <1>3, <3>2
    <3>3. CASE j \in Kinds \ {i, k}
      BY <3>3
    <3> QED BY <3>1, <3>2, <3>3
  <2>3. Goes(t, i, x, k, z)
    BY <2>1, <2>2 DEF Goes
  <2> QED BY <1>1, <2>3, HeldStep DEF Changes
<1> QED BY <1>2, <1>3

(* Contexts hold handles, and so does every thread. *)
LEMMA SpotsLemma ==
  Contexts \subseteq Spots /\ Executors \subseteq Spots /\ Tasks \subseteq Spots
BY DEF Spots, Executors

(* The queue of context k gains or loses the handles of M. *)
Gains(q, r, k, M) ==
  /\ Queues(r)
  /\ \A y \in Contexts, t \in Tasks :
       t \in Range(r[y]) <=> t \in Range(q[y]) \/ (y = k /\ t \in M)
Loses(q, r, k, M) ==
  /\ Queues(r)
  /\ \A y \in Contexts, t \in Tasks :
       t \in Range(r[y]) <=> t \in Range(q[y]) /\ ~(y = k /\ t \in M)

(* One queue is replaced. *)
Replaces(q, r, k, s) ==
  s \in Seq(Tasks) /\ IsInjective(s) /\ r = [q EXCEPT ![k] = s]

(* The other queues keep what they hold.                                   *)
LEMMA QueueReplace ==
  ASSUME NEW q, Queues(q), NEW k \in Contexts, NEW s, NEW r,
         Replaces(q, r, k, s)
  PROVE  /\ Queues(r)
         /\ \A y \in Contexts, t \in Tasks :
              t \in Range(r[y]) <=> IF y = k THEN t \in Range(s)
                                             ELSE t \in Range(q[y])
BY DEF Queues, Replaces

(* A handle that is held elsewhere is pushed to a queue. *)
Pushes(q, r, k, h) ==
  h \notin Range(q[k]) /\ r = [q EXCEPT ![k] = Append(@, h)]

(* The queue it is pushed to gains that handle, the others nothing.        *)
LEMMA QueuePush ==
  ASSUME NEW q, Queues(q), NEW k \in Contexts, NEW h \in Tasks, NEW r,
         Pushes(q, r, k, h)
  PROVE  Gains(q, r, k, {h})
<1> DEFINE s == Append(q[k], h)
<1>1. /\ s \in Seq(Tasks) /\ IsInjective(s) /\ Range(s) = Range(q[k]) \cup {h}
  BY PushLemma DEF Queues, Pushes
<1>2. r = [q EXCEPT ![k] = s]
  BY DEF Pushes
<1> HIDE DEF s
<1>3. Replaces(q, r, k, s)
  BY <1>1, <1>2 DEF Replaces
<1> QED BY <1>1, <1>3, QueueReplace DEF Gains

(* A frame that runs is in no other place, and its worker stops running it *)
(* when it suspends.                                                       *)
Suspends(k, h) ==
  /\ wpc[k] = "run" /\ active[k] = h
  /\ wpc' = [wpc EXCEPT ![k] = "resumed"]
  /\ active' = [active EXCEPT ![k] = NoTask]
  /\ UNCHANGED <<sq, ring, cq, work_batch_, hand, frame, caller_>>

(* What all suspensions have in common: the handle leaves the worker. *)
LEMMA SuspendLemma ==
  ASSUME HandleInv, NEW k \in Contexts, Suspending(k), UNCHANGED hand
  PROVE  \E h \in Tasks :
           /\ Suspends(k, h) /\ HeldOnce(h) /\ OnlyAt(h, "run", k)
           /\ \A t \in Tasks, y \in Spots :
                At(t, "run", y)' <=> At(t, "run", y) /\ ~(y = k /\ t \in {h})
           /\ WorkInv'
           /\ parked' \subseteq Tasks => HandleTypes'
<1> DEFINE h == active[k]
<1>1. h \in Tasks /\ Suspends(k, h)
  BY DEF Suspending, Running, GotoW, kernel, HandleInv, WorkInv, Suspends
<1> HIDE DEF h
<1>2. HeldOnce(h) /\ At(h, "run", k) /\ "run" \in Kinds
  BY <1>1 DEF HandleInv, At, Suspends, Kinds
<1>3. OnlyAt(h, "run", k)
  BY <1>2, HeldThere, SpotsLemma
<1>4. HandleTypes /\ WorkInv
  BY DEF HandleInv
<1>5. \A t \in Tasks, y \in Spots :
        At(t, "run", y)' <=> At(t, "run", y) /\ ~(y = k /\ t \in {h})
  BY <1>1, <1>4 DEF At, Suspends, HandleTypes
<1>6. WorkInv' /\ (parked' \subseteq Tasks => HandleTypes')
  BY <1>1, <1>4 DEF WorkInv, HandleTypes, Suspends, Processing, WorkerPCs
<1> QED BY <1>1, <1>2, <1>3, <1>5, <1>6

(* co_await yield(): the frame that runs goes to the task queue. *)
LEMMA YieldHandle ==
  ASSUME HandleInv, NEW k \in Contexts, Yield(k), UNCHANGED hand
  PROVE  HandleInv'
<1>1. PICK h \in Tasks :
        /\ Suspends(k, h) /\ HeldOnce(h) /\ OnlyAt(h, "run", k)
        /\ \A t \in Tasks, y \in Spots :
             At(t, "run", y)' <=> At(t, "run", y) /\ ~(y = k /\ t \in {h})
        /\ WorkInv'
        /\ parked' \subseteq Tasks => HandleTypes'
  BY SuspendLemma DEF Yield
<1>2. /\ task_queue_' =
           [task_queue_ EXCEPT ![k] = Append(@, h)]
      /\ UNCHANGED <<io_waiting_queue_, io_read_submit_queue_,
                     io_write_submit_queue_, parked>>
  BY <1>1 DEF Yield, Suspends, submit_task
<1>3. QueuesInv /\ HandleTypes /\ CallerInv
      /\ {"run", "task"} \subseteq Kinds /\ k \in Spots
  BY SpotsLemma DEF HandleInv, Kinds
<1>4. h \notin Range(task_queue_[k]) /\ At(h, "run", k)
  <2>1. h \in Range(task_queue_[k]) => At(h, "task", k)
    BY DEF At
  <2> QED BY <1>1, <1>3, <2>1 DEF OnlyAt
<1>5. Gains(task_queue_, task_queue_', k, {h})
  BY <1>2, <1>3, <1>4, QueuePush DEF QueuesInv, Pushes
<1>6. QueuesInv' /\ HandleTypes' /\ CallerInv'
  BY <1>1, <1>2, <1>3, <1>5
     DEF QueuesInv, Suspends, HandleTypes, CallerInv, Gains
<1>7. \A t \in Tasks, j \in Kinds \ {"run", "task"}, y \in Spots :
        At(t, j, y)' <=> At(t, j, y)
  BY <1>1, <1>2 DEF At, Suspends
<1>8. \A t \in Tasks, y \in Spots :
        At(t, "task", y)' <=> At(t, "task", y) \/ (y = k /\ t \in {h})
  BY <1>5 DEF At, Gains
<1>9. Moves({h}, "run", k, "task", k)
  BY <1>1, <1>3, <1>4, <1>7, <1>8 DEF Moves, Suspends
<1> QED BY <1>1, <1>6, <1>9, MoveStep DEF HandleInv

(* io_suspend_once(): it goes to io_waiting_queue_. *)
LEMMA IoSuspendOnceHandle ==
  ASSUME HandleInv, NEW k \in Contexts, IoSuspendOnce(k), UNCHANGED hand
  PROVE  HandleInv'
<1>1. PICK h \in Tasks :
        /\ Suspends(k, h) /\ HeldOnce(h) /\ OnlyAt(h, "run", k)
        /\ \A t \in Tasks, y \in Spots :
             At(t, "run", y)' <=> At(t, "run", y) /\ ~(y = k /\ t \in {h})
        /\ WorkInv'
        /\ parked' \subseteq Tasks => HandleTypes'
  BY SuspendLemma DEF IoSuspendOnce
<1>2. /\ io_waiting_queue_' =
           [io_waiting_queue_ EXCEPT ![k] = Append(@, h)]
      /\ UNCHANGED <<task_queue_, io_read_submit_queue_,
                     io_write_submit_queue_, parked>>
  BY <1>1 DEF IoSuspendOnce, Suspends
<1>3. QueuesInv /\ HandleTypes /\ CallerInv
      /\ {"run", "waiting"} \subseteq Kinds /\ k \in Spots
  BY SpotsLemma DEF HandleInv, Kinds
<1>4. h \notin Range(io_waiting_queue_[k]) /\ At(h, "run", k)
  <2>1. h \in Range(io_waiting_queue_[k]) => At(h, "waiting", k)
    BY DEF At
  <2> QED BY <1>1, <1>3, <2>1 DEF OnlyAt
<1>5. Gains(io_waiting_queue_, io_waiting_queue_', k, {h})
  BY <1>2, <1>3, <1>4, QueuePush DEF QueuesInv, Pushes
<1>6. QueuesInv' /\ HandleTypes' /\ CallerInv'
  BY <1>1, <1>2, <1>3, <1>5
     DEF QueuesInv, Suspends, HandleTypes, CallerInv, Gains
<1>7. \A t \in Tasks, j \in Kinds \ {"run", "waiting"}, y \in Spots :
        At(t, j, y)' <=> At(t, j, y)
  BY <1>1, <1>2 DEF At, Suspends
<1>8. \A t \in Tasks, y \in Spots :
        At(t, "waiting", y)' <=> At(t, "waiting", y) \/ (y = k /\ t \in {h})
  BY <1>5 DEF At, Gains
<1>9. Moves({h}, "run", k, "waiting", k)
  BY <1>1, <1>3, <1>4, <1>7, <1>8 DEF Moves, Suspends
<1> QED BY <1>1, <1>6, <1>9, MoveStep DEF HandleInv

(* io::read: it goes to io_read_submit_queue_. *)
LEMMA IoReadHandle ==
  ASSUME HandleInv, NEW k \in Contexts, IoRead(k), UNCHANGED hand
  PROVE  HandleInv'
<1>1. PICK h \in Tasks :
        /\ Suspends(k, h) /\ HeldOnce(h) /\ OnlyAt(h, "run", k)
        /\ \A t \in Tasks, y \in Spots :
             At(t, "run", y)' <=> At(t, "run", y) /\ ~(y = k /\ t \in {h})
        /\ WorkInv'
        /\ parked' \subseteq Tasks => HandleTypes'
  BY SuspendLemma DEF IoRead
<1>2. /\ io_read_submit_queue_' =
           [io_read_submit_queue_ EXCEPT ![k] = Append(@, h)]
      /\ UNCHANGED <<task_queue_, io_waiting_queue_,
                     io_write_submit_queue_, parked>>
  BY <1>1 DEF IoRead, Suspends
<1>3. QueuesInv /\ HandleTypes /\ CallerInv
      /\ {"run", "read"} \subseteq Kinds /\ k \in Spots
  BY SpotsLemma DEF HandleInv, Kinds
<1>4. h \notin Range(io_read_submit_queue_[k]) /\ At(h, "run", k)
  <2>1. h \in Range(io_read_submit_queue_[k]) => At(h, "read", k)
    BY DEF At
  <2> QED BY <1>1, <1>3, <2>1 DEF OnlyAt
<1>5. Gains(io_read_submit_queue_, io_read_submit_queue_', k, {h})
  BY <1>2, <1>3, <1>4, QueuePush DEF QueuesInv, Pushes
<1>6. QueuesInv' /\ HandleTypes' /\ CallerInv'
  BY <1>1, <1>2, <1>3, <1>5
     DEF QueuesInv, Suspends, HandleTypes, CallerInv, Gains
<1>7. \A t \in Tasks, j \in Kinds \ {"run", "read"}, y \in Spots :
        At(t, j, y)' <=> At(t, j, y)
  BY <1>1, <1>2 DEF At, Suspends
<1>8. \A t \in Tasks, y \in Spots :
        At(t, "read", y)' <=> At(t, "read", y) \/ (y = k /\ t \in {h})
  BY <1>5 DEF At, Gains
<1>9. Moves({h}, "run", k, "read", k)
  BY <1>1, <1>3, <1>4, <1>7, <1>8 DEF Moves, Suspends
<1> QED BY <1>1, <1>6, <1>9, MoveStep DEF HandleInv

(* io::write: it goes to io_write_submit_queue_. *)
LEMMA IoWriteHandle ==
  ASSUME HandleInv, NEW k \in Contexts, IoWrite(k), UNCHANGED hand
  PROVE  HandleInv'
<1>1. PICK h \in Tasks :
        /\ Suspends(k, h) /\ HeldOnce(h) /\ OnlyAt(h, "run", k)
        /\ \A t \in Tasks, y \in Spots :
             At(t, "run", y)' <=> At(t, "run", y) /\ ~(y = k /\ t \in {h})
        /\ WorkInv'
        /\ parked' \subseteq Tasks => HandleTypes'
  BY SuspendLemma DEF IoWrite
<1>2. /\ io_write_submit_queue_' =
           [io_write_submit_queue_ EXCEPT ![k] = Append(@, h)]
      /\ UNCHANGED <<task_queue_, io_waiting_queue_,
                     io_read_submit_queue_, parked>>
  BY <1>1 DEF IoWrite, Suspends
<1>3. QueuesInv /\ HandleTypes /\ CallerInv
      /\ {"run", "write"} \subseteq Kinds /\ k \in Spots
  BY SpotsLemma DEF HandleInv, Kinds
<1>4. h \notin Range(io_write_submit_queue_[k]) /\ At(h, "run", k)
  <2>1. h \in Range(io_write_submit_queue_[k]) => At(h, "write", k)
    BY DEF At
  <2> QED BY <1>1, <1>3, <2>1 DEF OnlyAt
<1>5. Gains(io_write_submit_queue_, io_write_submit_queue_', k, {h})
  BY <1>2, <1>3, <1>4, QueuePush DEF QueuesInv, Pushes
<1>6. QueuesInv' /\ HandleTypes' /\ CallerInv'
  BY <1>1, <1>2, <1>3, <1>5
     DEF QueuesInv, Suspends, HandleTypes, CallerInv, Gains
<1>7. \A t \in Tasks, j \in Kinds \ {"run", "write"}, y \in Spots :
        At(t, j, y)' <=> At(t, j, y)
  BY <1>1, <1>2 DEF At, Suspends
<1>8. \A t \in Tasks, y \in Spots :
        At(t, "write", y)' <=> At(t, "write", y) \/ (y = k /\ t \in {h})
  BY <1>5 DEF At, Gains
<1>9. Moves({h}, "run", k, "write", k)
  BY <1>1, <1>3, <1>4, <1>7, <1>8 DEF Moves, Suspends
<1> QED BY <1>1, <1>6, <1>9, MoveStep DEF HandleInv

(* A coroutine parks: it goes to a wait queue outside the runtime. *)
LEMMA ParkHandle ==
  ASSUME HandleInv, NEW k \in Contexts, Park(k), MaySuspend(k), UNCHANGED hand
  PROVE  HandleInv'
<1>1. PICK h \in Tasks :
        /\ Suspends(k, h) /\ HeldOnce(h) /\ OnlyAt(h, "run", k)
        /\ \A t \in Tasks, y \in Spots :
             At(t, "run", y)' <=> At(t, "run", y) /\ ~(y = k /\ t \in {h})
        /\ WorkInv'
        /\ parked' \subseteq Tasks => HandleTypes'
  BY SuspendLemma DEF Park
<1>2. parked' = parked \cup {h} /\ UNCHANGED queuesE
  BY <1>1 DEF Park, Suspends
<1>3. QueuesInv /\ HandleTypes /\ CallerInv
      /\ {"run", "parked"} \subseteq Kinds /\ k \in Spots /\ h \in Spots
  BY SpotsLemma DEF HandleInv, Kinds
<1>4. At(h, "run", k)
  BY <1>1, <1>3 DEF OnlyAt
<1>5. "inner" \notin TaskCalls => caller_[h] = NoTask
  BY <1>1 DEF MaySuspend, Suspends
<1>6. QueuesInv' /\ HandleTypes' /\ CallerInv'
  BY <1>1, <1>2, <1>3, <1>5
     DEF QueuesInv, Suspends, HandleTypes, CallerInv, queuesE
<1>7. \A t \in Tasks, j \in Kinds \ {"run", "parked"}, y \in Spots :
        At(t, j, y)' <=> At(t, j, y)
  BY <1>1, <1>2 DEF At, Suspends, queuesE
<1>8. \A t \in Tasks, y \in Spots :
        At(t, "parked", y)' <=> At(t, "parked", y) \/ (y = h /\ t \in {h})
  BY <1>2 DEF At
<1>9. Moves({h}, "run", k, "parked", h)
  BY <1>1, <1>3, <1>4, <1>7, <1>8 DEF Moves, Suspends
<1> QED BY <1>1, <1>6, <1>9, MoveStep DEF HandleInv

(* A coroutine takes a parked one out of its wait queue, which goes to the *)
(* task queue of the worker that runs the first.                           *)
LEMMA WakeHandle ==
  ASSUME HandleInv, NEW k \in Contexts, WakeOne(k), UNCHANGED hand
  PROVE  HandleInv'
<1>1. PICK p \in parked :
        /\ parked' = parked \ {p}
        /\ task_queue_' = [task_queue_ EXCEPT ![k] = Append(@, p)]
  BY DEF WakeOne, Wake, submit_task
<1>2. UNCHANGED <<io_waiting_queue_, io_read_submit_queue_,
                  io_write_submit_queue_, sq, ring, cq, work_batch_, hand,
                  frame, caller_, wpc, active>>
  BY DEF WakeOne, Wake, kernel, worker, batch
<1>3. QueuesInv /\ HandleTypes /\ CallerInv /\ WorkInv
      /\ {"parked", "task"} \subseteq Kinds /\ k \in Spots
      /\ p \in Tasks /\ p \in Spots /\ HeldOnce(p)
  BY SpotsLemma DEF HandleInv, Kinds, HandleTypes
<1>4. At(p, "parked", p)
  BY <1>1 DEF At
<1>5. p \notin Range(task_queue_[k])
  <2>1. p \in Range(task_queue_[k]) => At(p, "task", k)
    BY DEF At
  <2>2. OnlyAt(p, "parked", p)
    BY <1>3, <1>4, HeldThere
  <2> QED BY <1>3, <2>1, <2>2 DEF OnlyAt
<1>6. Gains(task_queue_, task_queue_', k, {p})
  BY <1>1, <1>3, <1>5, QueuePush DEF QueuesInv, Pushes
<1>7. QueuesInv' /\ HandleTypes' /\ CallerInv' /\ WorkInv'
  BY <1>1, <1>2, <1>3, <1>6
     DEF QueuesInv, HandleTypes, CallerInv, WorkInv, Gains, Processing
<1>8. \A t \in Tasks, j \in Kinds \ {"parked", "task"}, y \in Spots :
        At(t, j, y)' <=> At(t, j, y)
  BY <1>2 DEF At
<1>9. \A t \in Tasks, y \in Spots :
        /\ At(t, "parked", y)' <=> At(t, "parked", y) /\ ~(y = p /\ t \in {p})
        /\ At(t, "task", y)' <=> At(t, "task", y) \/ (y = k /\ t \in {p})
  BY <1>1, <1>6 DEF At, Gains
<1>10. Moves({p}, "parked", p, "task", k)
  BY <1>2, <1>3, <1>4, <1>8, <1>9 DEF Moves
<1> QED BY <1>7, <1>10, MoveStep DEF HandleInv

(* What a drain takes from a queue and what it leaves. *)
Takes(q, r, k, n) == n \in Nat /\ r = [q EXCEPT ![k] = Rest(@, n)]

(* The queue loses the prefix taken, which repeats no handle.              *)
LEMMA QueueTake ==
  ASSUME NEW q, Queues(q), NEW k \in Contexts, NEW n, NEW r, Takes(q, r, k, n)
  PROVE  /\ Loses(q, r, k, Range(Prefix(q[k], n)))
         /\ Prefix(q[k], n) \in Seq(Tasks) /\ IsInjective(Prefix(q[k], n))
         /\ Range(Prefix(q[k], n)) \subseteq Range(q[k])
<1> DEFINE a == q[k]
           p == Prefix(a, n)
           s == Rest(a, n)
<1>1. a \in Seq(Tasks) /\ IsInjective(a) /\ n \in Nat
      /\ r = [q EXCEPT ![k] = s]
  BY DEF Queues, Takes
<1> HIDE DEF a
<1>2. /\ p \in Seq(Tasks) /\ s \in Seq(Tasks)
      /\ Range(a) = Range(p) \cup Range(s)
      /\ IsInjective(p) /\ IsInjective(s) /\ Range(p) \cap Range(s) = {}
  BY <1>1, SplitLemma
<1> HIDE DEF p, s
<1>3. Replaces(q, r, k, s)
  BY <1>1, <1>2 DEF Replaces
<1>4. /\ Queues(r)
      /\ \A y \in Contexts, t \in Tasks :
           t \in Range(r[y]) <=> IF y = k THEN t \in Range(s)
                                          ELSE t \in Range(q[y])
  BY <1>3, QueueReplace
<1>5. Range(q[k]) = Range(p) \cup Range(s)
  BY <1>2 DEF a
<1>6. Loses(q, r, k, Range(p))
  BY <1>2, <1>4, <1>5 DEF Loses
<1> QED BY <1>2, <1>5, <1>6 DEF p, a

(* The front handle is taken from a queue. *)
Pops(q, r, k, h) ==
  q[k] # <<>> /\ h = Head(q[k]) /\ r = [q EXCEPT ![k] = Tail(@)]

(* The queue loses that handle, and only that one.                         *)
LEMMA QueuePop ==
  ASSUME NEW q, Queues(q), NEW k \in Contexts, NEW h, NEW r, Pops(q, r, k, h)
  PROVE  Loses(q, r, k, {h}) /\ h \in Tasks /\ h \in Range(q[k])
<1> DEFINE a == q[k]
           s == Tail(a)
<1>1. a \in Seq(Tasks) /\ IsInjective(a) /\ a # <<>> /\ h = Head(a)
      /\ r = [q EXCEPT ![k] = s]
  BY DEF Queues, Pops
<1> HIDE DEF a
<1>2. /\ h \in Tasks /\ s \in Seq(Tasks)
      /\ Range(a) = {h} \cup Range(s)
      /\ IsInjective(s) /\ h \notin Range(s)
  BY <1>1, PopLemma
<1> HIDE DEF s
<1>3. Replaces(q, r, k, s)
  BY <1>1, <1>2 DEF Replaces
<1>4. /\ Queues(r)
      /\ \A y \in Contexts, t \in Tasks :
           t \in Range(r[y]) <=> IF y = k THEN t \in Range(s)
                                          ELSE t \in Range(q[y])
  BY <1>3, QueueReplace
<1>5. Range(q[k]) = {h} \cup Range(s)
  BY <1>2 DEF a
<1> QED BY <1>2, <1>4, <1>5 DEF Loses

(* Handles that are held elsewhere are added to a queue. *)
Extends(q, r, k, s) ==
  /\ s \in Seq(Tasks) /\ IsInjective(s) /\ Range(q[k]) \cap Range(s) = {}
  /\ r = [q EXCEPT ![k] = @ \o s]

(* The queue gains them, and still holds none of them twice.               *)
LEMMA QueueExtend ==
  ASSUME NEW q, Queues(q), NEW k \in Contexts, NEW s, NEW r,
         Extends(q, r, k, s)
  PROVE  Gains(q, r, k, Range(s))
<1> DEFINE p == q[k] \o s
<1>1. /\ p \in Seq(Tasks) /\ Range(p) = Range(q[k]) \cup Range(s)
      /\ IsInjective(p)
  BY JoinLemma DEF Queues, Extends
<1>2. r = [q EXCEPT ![k] = p]
  BY DEF Extends
<1> HIDE DEF p
<1>3. Replaces(q, r, k, p)
  BY <1>1, <1>2 DEF Replaces
<1> QED BY <1>1, <1>3, QueueReplace DEF Gains

(* A handle in one place is in no other. *)
LEMMA Elsewhere ==
  ASSUME HandleInv, NEW t \in Tasks, NEW i \in Kinds, NEW x \in Spots,
         At(t, i, x)
  PROVE  /\ frame[t] = "live"
         /\ \A j \in Kinds, y \in Spots : At(t, j, y) => j = i /\ y = x
BY HeldThere DEF HandleInv, OnlyAt

(* try_wait_one: a completion goes back to the task queue. *)
LEMMA ReapHandle ==
  ASSUME HandleInv, NEW k \in Contexts, Reap(k), UNCHANGED hand
  PROVE  HandleInv'
<1>1. PICK h \in Tasks :
        /\ Pops(cq, cq', k, h)
        /\ task_queue_' = [task_queue_ EXCEPT ![k] = Append(@, h)]
  BY DEF Reap, uring_try_wait_one, submit_task, Pops
<1>2. UNCHANGED <<io_waiting_queue_, io_read_submit_queue_,
                  io_write_submit_queue_, sq, ring, work_batch_, hand, parked,
                  frame, caller_, wpc, active>>
  BY DEF Reap, batch, coro
<1>3. QueuesInv /\ HandleTypes /\ CallerInv /\ WorkInv
      /\ {"cq", "task"} \subseteq Kinds /\ k \in Spots
  BY SpotsLemma DEF HandleInv, Kinds
<1>4. Loses(cq, cq', k, {h}) /\ h \in Range(cq[k])
  BY <1>1, <1>3, QueuePop DEF QueuesInv
<1>5. At(h, "cq", k)
  BY <1>4 DEF At
<1>6. h \notin Range(task_queue_[k])
  <2>1. h \in Range(task_queue_[k]) => At(h, "task", k)
    BY DEF At
  <2> QED BY <1>3, <1>5, <2>1, Elsewhere
<1>7. Gains(task_queue_, task_queue_', k, {h})
  BY <1>1, <1>3, <1>6, QueuePush DEF QueuesInv, Pushes
<1>8. QueuesInv' /\ HandleTypes' /\ CallerInv' /\ WorkInv'
  BY <1>2, <1>3, <1>4, <1>7
     DEF QueuesInv, HandleTypes, CallerInv, WorkInv, Gains, Loses, Processing
<1>9. \A t \in Tasks, j \in Kinds \ {"cq", "task"}, y \in Spots :
        At(t, j, y)' <=> At(t, j, y)
  BY <1>2 DEF At
<1>10. \A t \in Tasks, y \in Spots :
         /\ At(t, "cq", y)' <=> At(t, "cq", y) /\ ~(y = k /\ t \in {h})
         /\ At(t, "task", y)' <=> At(t, "task", y) \/ (y = k /\ t \in {h})
  BY <1>4, <1>7 DEF At, Gains, Loses
<1>11. Moves({h}, "cq", k, "task", k)
  BY <1>2, <1>3, <1>5, <1>9, <1>10 DEF Moves
<1> QED BY <1>8, <1>11, MoveStep DEF HandleInv

(* The kernel completes an operation. *)
LEMMA KernelHandle ==
  ASSUME HandleInv, NEW k \in Contexts, KernelComplete(k), UNCHANGED hand
  PROVE  HandleInv'
<1>1. PICK h \in ring[k] :
        /\ ring' = [ring EXCEPT ![k] = @ \ {h}]
        /\ cq' = [cq EXCEPT ![k] = Append(@, h)]
  BY DEF KernelComplete
<1>2. UNCHANGED <<task_queue_, io_waiting_queue_, io_read_submit_queue_,
                  io_write_submit_queue_, sq, work_batch_, hand, parked,
                  frame, caller_, wpc, active>>
  BY DEF KernelComplete, queuesE, worker, batch, coro
<1>3. QueuesInv /\ HandleTypes /\ CallerInv /\ WorkInv
      /\ {"cq", "ring"} \subseteq Kinds /\ k \in Spots /\ h \in Tasks
  BY <1>1, SpotsLemma DEF HandleInv, Kinds, HandleTypes
<1>4. At(h, "ring", k)
  BY <1>1 DEF At
<1>5. h \notin Range(cq[k])
  <2>1. h \in Range(cq[k]) => At(h, "cq", k)
    BY DEF At
  <2> QED BY <1>3, <1>4, <2>1, Elsewhere
<1>6. Gains(cq, cq', k, {h})
  BY <1>1, <1>3, <1>5, QueuePush DEF QueuesInv, Pushes
<1>7. QueuesInv' /\ HandleTypes' /\ CallerInv' /\ WorkInv'
  BY <1>1, <1>2, <1>3, <1>6
     DEF QueuesInv, HandleTypes, CallerInv, WorkInv, Gains, Processing
<1>8. \A t \in Tasks, j \in Kinds \ {"ring", "cq"}, y \in Spots :
        At(t, j, y)' <=> At(t, j, y)
  BY <1>2 DEF At
<1>9. \A t \in Tasks, y \in Spots :
        /\ At(t, "ring", y)' <=> At(t, "ring", y) /\ ~(y = k /\ t \in {h})
        /\ At(t, "cq", y)' <=> At(t, "cq", y) \/ (y = k /\ t \in {h})
  BY <1>1, <1>3, <1>6 DEF At, Gains, HandleTypes
<1>10. Moves({h}, "ring", k, "cq", k)
  BY <1>2, <1>3, <1>4, <1>8, <1>9 DEF Moves
<1> QED BY <1>7, <1>10, MoveStep DEF HandleInv

(* uring_.submit() passes the first n entries on to the kernel. *)
LEMMA UringHandle ==
  ASSUME HandleInv, NEW k \in Contexts, UringSubmit(k), UNCHANGED hand,
         pending_submit_count_[k] \in Nat
  PROVE  HandleInv'
<1>1. PICK n \in Nat :
        /\ ring' = [ring EXCEPT ![k] = @ \cup Range(Prefix(sq[k], n))]
        /\ Takes(sq, sq', k, n)
        /\ \E p \in {"reap", "submit"} : wpc' = [wpc EXCEPT ![k] = p]
  <2>1. PICK n \in 1..pending_submit_count_[k] :
          /\ uring_submit(k, n)
          /\ GotoW(k, IF n = pending_submit_count_[k] THEN "reap" ELSE "submit")
    BY DEF UringSubmit
  <2>2. n \in Nat
    OBVIOUS
  <2> QED BY <2>1, <2>2 DEF uring_submit, Takes, GotoW
<1>2. /\ UNCHANGED <<task_queue_, io_waiting_queue_, io_read_submit_queue_,
                     io_write_submit_queue_, cq, work_batch_, hand, parked,
                     frame, caller_, active>>
      /\ wpc[k] = "submit"
  BY DEF UringSubmit, queuesE, worker, batch, coro
<1>3. QueuesInv /\ HandleTypes /\ CallerInv /\ WorkInv
      /\ {"sq", "ring"} \subseteq Kinds /\ k \in Spots
  BY SpotsLemma DEF HandleInv, Kinds
<1> DEFINE M == Range(Prefix(sq[k], n))
<1>4. Loses(sq, sq', k, M) /\ M \subseteq Range(sq[k])
  BY <1>1, <1>3, QueueTake DEF QueuesInv
<1>5. ring' = [ring EXCEPT ![k] = @ \cup M]
  BY <1>1
<1> HIDE DEF M
<1>6. M \subseteq Tasks
  BY <1>3, <1>4, RangeLemma DEF QueuesInv, Queues
<1>7. QueuesInv' /\ CallerInv'
  BY <1>2, <1>3, <1>4 DEF QueuesInv, CallerInv, Loses
<1>8. HandleTypes' /\ WorkInv'
  BY <1>1, <1>2, <1>3, <1>5, <1>6
     DEF HandleTypes, WorkInv, Processing, WorkerPCs
<1>9. \A t \in Tasks, j \in Kinds \ {"sq", "ring"}, y \in Spots :
        At(t, j, y)' <=> At(t, j, y)
  <2>1. \A y \in Contexts : wpc'[y] = "run" <=> wpc[y] = "run"
    BY <1>1, <1>2, <1>3 DEF HandleTypes
  <2> QED BY <1>2, <2>1 DEF At
<1>10. \A t \in Tasks, y \in Spots :
         /\ At(t, "sq", y)' <=> At(t, "sq", y) /\ ~(y = k /\ t \in M)
         /\ At(t, "ring", y)' <=> At(t, "ring", y) \/ (y = k /\ t \in M)
  BY <1>3, <1>4, <1>5 DEF At, Loses, HandleTypes
<1>11. \A t \in Tasks \cap M : At(t, "sq", k)
  BY <1>4 DEF At
<1>12. Moves(M, "sq", k, "ring", k)
  BY <1>2, <1>3, <1>9, <1>10, <1>11 DEF Moves
<1> QED BY <1>7, <1>8, <1>12, MoveStep DEF HandleInv

(* What is submitted is not awaited: neither a handle on its way to a      *)
(* context nor one that arrives after the worker has ended has a caller.   *)
TopInv ==
  /\ \A x \in Executors : hand[x] # NoTask => caller_[hand[x]] = NoTask
  /\ \A k \in Contexts : Ended(k) =>
       \A t \in Range(task_queue_[k]) : caller_[t] = NoTask

(* The handles of M leave their places of kind i, and their frames, which  *)
(* nobody awaits, are not live any more.                                   *)
Leaves(M, i) ==
  /\ M \subseteq Tasks /\ i \in Kinds \ {"caller"}
  /\ \A t \in M : /\ frame'[t] # "live" /\ caller_[t] = NoTask
                   /\ \E x \in Spots : At(t, i, x)
  /\ \A t \in Tasks \ M : frame'[t] = "live" <=> frame[t] = "live"
  /\ \A t \in Tasks : frame'[t] = "live" => caller_'[t] = caller_[t]
  /\ \A t \in Tasks, j \in Kinds \ {i, "caller"}, y \in Spots :
       At(t, j, y)' <=> At(t, j, y)
  /\ \A t \in Tasks, y \in Spots :
       At(t, i, y)' <=> At(t, i, y) /\ t \notin M

(* Then the others are still held once, and these not at all. *)
LEMMA LeaveStep ==
  ASSUME HandleInv, NEW M, NEW i, Leaves(M, i)
  PROVE  \A t \in Tasks : HeldOnce(t)'
<1> USE DEF Leaves
<1> SUFFICES ASSUME NEW t \in Tasks PROVE HeldOnce(t)'
  OBVIOUS
<1>1. HeldOnce(t)
  BY DEF HandleInv
<1>2. \A y \in Spots : At(t, "caller", y)' <=> At(t, "caller", y)
  <2> TAKE y \in Spots
  <2>1. At(t, "caller", y)' <=>
          y \in Tasks /\ caller_'[y] = t /\ frame'[y] = "live"
    BY DEF At
  <2>2. At(t, "caller", y) <=>
          y \in Tasks /\ caller_[y] = t /\ frame[y] = "live"
    BY DEF At
  <2> QED BY <2>1, <2>2, NoTaskAssumption
<1>3. CASE t \notin M
  <2>1. ASSUME NEW j \in Kinds, NEW y \in Spots
        PROVE  At(t, j, y)' <=> At(t, j, y)
    <3>1. CASE j \in {i, "caller"}
      BY <1>2, <1>3, <3>1
    <3>2. CASE j \in Kinds \ {i, "caller"}
      BY <3>2
    <3> QED BY <3>1, <3>2
  <2>2. Stays(t)
    BY <1>3, <2>1 DEF Stays
  <2> QED BY <1>1, <2>2, HeldStep DEF Changes
<1>4. CASE t \in M
  <2>1. PICK x \in Spots : At(t, i, x)
    BY <1>4
  <2>2. \A j \in Kinds, y \in Spots : At(t, j, y) => j = i /\ y = x
    BY <2>1, Elsewhere
  <2>3. ASSUME NEW j \in Kinds, NEW y \in Spots
        PROVE  At(t, j, y)' <=> At(t, j, y) /\ ~(j = i /\ y = x)
    <3>1. CASE j = i
      BY <1>4, <2>2, <3>1
    <3>2. CASE j = "caller"
      BY <1>2, <3>2
    <3>3. CASE j \in Kinds \ {i, "caller"}
      BY <3>3
    <3> QED BY <3>1, <3>2, <3>3
  <2>4. Departs(t, i, x)
    BY <1>4, <2>1, <2>3 DEF Departs
  <2> QED BY <1>1, <2>1, <2>4, HeldStep DEF Changes
<1> QED BY <1>3, <1>4

(* pop_batch: the handles at the front of the task queue become the batch, *)
(* which was empty.                                                        *)
LEMMA PopBatchHandle ==
  ASSUME HandleInv, NEW k \in Contexts, PopBatch(k), task_queue_[k] # <<>>,
         UNCHANGED hand
  PROVE  HandleInv'
<1> DEFINE s == Prefix(task_queue_[k], BatchSize)
           M == Range(s)
<1>1. /\ work_batch_' = [work_batch_ EXCEPT ![k] = s]
      /\ Takes(task_queue_, task_queue_', k, BatchSize)
      /\ wpc[k] = "pop" /\ wpc' = [wpc EXCEPT ![k] = "resume"]
  BY EngineBounds DEF PopBatch, Takes, GotoW
<1>2. UNCHANGED <<io_waiting_queue_, io_read_submit_queue_,
                  io_write_submit_queue_, sq, ring, cq, hand, parked, frame,
                  caller_, active>>
  BY DEF PopBatch, kernel, coro
<1>3. QueuesInv /\ HandleTypes /\ CallerInv /\ WorkInv
      /\ {"batch", "task"} \subseteq Kinds /\ k \in Spots
  BY SpotsLemma DEF HandleInv, Kinds
<1>4. /\ Loses(task_queue_, task_queue_', k, M) /\ M \subseteq Range(task_queue_[k])
      /\ s \in Seq(Tasks) /\ IsInjective(s)
  BY <1>1, <1>3, QueueTake DEF QueuesInv
<1> HIDE DEF s
<1>5. Replaces(work_batch_, work_batch_', k, s)
  BY <1>1, <1>4 DEF Replaces
<1>6. work_batch_[k] = <<>> /\ Range(work_batch_[k]) = {}
  BY <1>1, <1>3, EmptyQueueLemma DEF WorkInv, Processing
<1>7. Gains(work_batch_, work_batch_', k, M)
  BY <1>3, <1>5, <1>6, QueueReplace DEF Gains, QueuesInv
<1> HIDE DEF M
<1>8. QueuesInv' /\ CallerInv'
  BY <1>2, <1>3, <1>4, <1>7 DEF QueuesInv, CallerInv, Loses, Gains
<1>9. HandleTypes' /\ WorkInv'
  BY <1>1, <1>2, <1>3 DEF HandleTypes, WorkInv, Processing, WorkerPCs
<1>10. \A t \in Tasks, j \in Kinds \ {"task", "batch"}, y \in Spots :
         At(t, j, y)' <=> At(t, j, y)
  <2>1. \A y \in Contexts : wpc'[y] = "run" <=> wpc[y] = "run"
    BY <1>1, <1>3 DEF HandleTypes
  <2> QED BY <1>2, <2>1 DEF At
<1>11. \A t \in Tasks, y \in Spots :
         /\ At(t, "task", y)' <=> At(t, "task", y) /\ ~(y = k /\ t \in M)
         /\ At(t, "batch", y)' <=> At(t, "batch", y) \/ (y = k /\ t \in M)
  BY <1>4, <1>7 DEF At, Loses, Gains
<1>12. \A t \in Tasks \cap M : At(t, "task", k)
  BY <1>4 DEF At
<1>13. Moves(M, "task", k, "batch", k)
  BY <1>2, <1>3, <1>10, <1>11, <1>12 DEF Moves
<1> QED BY <1>8, <1>9, <1>13, MoveStep DEF HandleInv

(* handle.resume() for the next handle of the batch. *)
LEMMA ResumeHandle ==
  ASSUME HandleInv, NEW k \in Contexts, ResumeNext(k), work_batch_[k] # <<>>,
         UNCHANGED hand
  PROVE  HandleInv'
<1>1. PICK h : h = Head(work_batch_[k])
  OBVIOUS
<1>2. /\ Pops(work_batch_, work_batch_', k, h)
      /\ active' = [active EXCEPT ![k] = h]
      /\ wpc[k] = "resume" /\ wpc' = [wpc EXCEPT ![k] = "run"]
  BY <1>1 DEF ResumeNext, Pops, GotoW
<1>3. UNCHANGED <<task_queue_, io_waiting_queue_, io_read_submit_queue_,
                  io_write_submit_queue_, sq, ring, cq, hand, parked, frame,
                  caller_>>
  BY DEF ResumeNext, queuesE, kernel, coro
<1>4. QueuesInv /\ HandleTypes /\ CallerInv /\ WorkInv
      /\ {"batch", "run"} \subseteq Kinds /\ k \in Spots
  BY SpotsLemma DEF HandleInv, Kinds
<1>5. /\ Loses(work_batch_, work_batch_', k, {h}) /\ h \in Tasks
      /\ h \in Range(work_batch_[k])
  BY <1>2, <1>4, QueuePop DEF QueuesInv
<1>6. QueuesInv' /\ CallerInv'
  BY <1>3, <1>4, <1>5 DEF QueuesInv, CallerInv, Loses
<1>7. HandleTypes' /\ WorkInv'
  <2>1. \A y \in Contexts \ {k} : work_batch_'[y] = work_batch_[y]
    BY <1>2, <1>4 DEF Pops, QueuesInv, Queues
  <2> QED BY <1>2, <1>3, <1>4, <1>5, <2>1
          DEF HandleTypes, WorkInv, Processing, WorkerPCs
<1>8. \A t \in Tasks, j \in Kinds \ {"batch", "run"}, y \in Spots :
        At(t, j, y)' <=> At(t, j, y)
  BY <1>3 DEF At
<1>9. \A t \in Tasks, y \in Spots :
        /\ At(t, "batch", y)' <=> At(t, "batch", y) /\ ~(y = k /\ t \in {h})
        /\ At(t, "run", y)' <=> At(t, "run", y) \/ (y = k /\ t \in {h})
  BY <1>2, <1>4, <1>5 DEF At, Loses, HandleTypes
<1>10. At(h, "batch", k)
  BY <1>5 DEF At
<1>11. Moves({h}, "batch", k, "run", k)
  BY <1>3, <1>4, <1>8, <1>9, <1>10 DEF Moves
<1> QED BY <1>6, <1>7, <1>11, MoveStep DEF HandleInv

(* target->submit_task: the accepted handle goes to the chosen context, or *)
(* is lost with it.                                                        *)
LEMMA SubmitPushHandle ==
  ASSUME HandleInv, TopInv, NEW x \in Executors, SubmitPush(x),
         contexts \subseteq Contexts
  PROVE  HandleInv'
<1>0. PICK k : k = target[x]
  OBVIOUS
<1>1. PICK h \in Tasks :
        /\ hand[x] = h
        /\ hand' = [hand EXCEPT ![x] = NoTask]
        /\ \/ /\ k \in Contexts
              /\ task_queue_' = [task_queue_ EXCEPT ![k] = Append(@, h)]
              /\ UNCHANGED <<wpc, frame>>
           \/ /\ frame' = [frame EXCEPT ![h] = "leaked"]
              /\ UNCHANGED <<task_queue_, wpc>>
  BY <1>0 DEF SubmitPush, submit_task, HandleInv, HandleTypes
<1>2. UNCHANGED <<io_waiting_queue_, io_read_submit_queue_,
                  io_write_submit_queue_, sq, ring, cq, work_batch_, parked,
                  caller_, active>>
  BY DEF SubmitPush, kernel, worker, batch
<1>3. QueuesInv /\ HandleTypes /\ CallerInv /\ WorkInv
      /\ {"hand", "task"} \subseteq Kinds /\ x \in Spots
  BY SpotsLemma DEF HandleInv, Kinds
<1>4. At(h, "hand", x)
  BY <1>1 DEF At
<1>5. \A t \in Tasks, y \in Spots :
        At(t, "hand", y)' <=> At(t, "hand", y) /\ ~(y = x /\ t \in {h})
  BY <1>1, <1>3, NoTaskAssumption DEF At, HandleTypes
<1>6. CASE /\ k \in Contexts
           /\ task_queue_' = [task_queue_ EXCEPT ![k] = Append(@, h)]
           /\ UNCHANGED <<wpc, frame>>
  <2>1. k \in Spots
    BY <1>6, SpotsLemma
  <2>2. h \notin Range(task_queue_[k])
    <3>1. h \in Range(task_queue_[k]) => At(h, "task", k)
      BY <1>6 DEF At
    <3> QED BY <1>3, <1>4, <2>1, <3>1, Elsewhere
  <2>3. Gains(task_queue_, task_queue_', k, {h})
    BY <1>3, <1>6, <2>2, QueuePush DEF QueuesInv, Pushes
  <2>4. /\ wpc' \in [Contexts -> WorkerPCs]
        /\ \A y \in Contexts : /\ wpc'[y] = "run" <=> wpc[y] = "run"
                               /\ Processing(y)' <=> Processing(y)
    BY <1>3, <1>6 DEF HandleTypes, Processing
  <2>5. QueuesInv' /\ HandleTypes' /\ CallerInv' /\ WorkInv'
    BY <1>1, <1>2, <1>3, <1>6, <2>3, <2>4
       DEF QueuesInv, HandleTypes, CallerInv, WorkInv, Gains
  <2>6. \A t \in Tasks, j \in Kinds \ {"hand", "task"}, y \in Spots :
          At(t, j, y)' <=> At(t, j, y)
    BY <1>2, <1>6, <2>4 DEF At
  <2>7. \A t \in Tasks, y \in Spots :
          At(t, "task", y)' <=> At(t, "task", y) \/ (y = k /\ t \in {h})
    BY <1>6, <2>3 DEF At, Gains
  <2>8. Moves({h}, "hand", x, "task", k)
    BY <1>3, <1>4, <1>5, <1>6, <2>1, <2>6, <2>7 DEF Moves
  <2> QED BY <2>5, <2>8, MoveStep DEF HandleInv
<1>7. CASE /\ frame' = [frame EXCEPT ![h] = "leaked"]
           /\ UNCHANGED <<task_queue_, wpc>>
  <2>1. /\ frame' \in [Tasks -> Frames]
        /\ frame'[h] = "leaked" /\ \A t \in Tasks \ {h} : frame'[t] = frame[t]
    BY <1>3, <1>7 DEF HandleTypes, Frames
  <2>2. QueuesInv' /\ HandleTypes' /\ CallerInv' /\ WorkInv'
    BY <1>1, <1>2, <1>3, <1>7, <2>1
       DEF QueuesInv, HandleTypes, CallerInv, WorkInv, Processing
  <2>3. caller_[h] = NoTask
    BY <1>1, NoTaskAssumption DEF TopInv
  <2>4. \A t \in Tasks, j \in Kinds \ {"hand", "caller"}, y \in Spots :
          At(t, j, y)' <=> At(t, j, y)
    BY <1>2, <1>7 DEF At
  <2>5. Leaves({h}, "hand")
    <3>1. \A t \in Tasks, y \in Spots :
            At(t, "hand", y)' <=> At(t, "hand", y) /\ t \notin {h}
      BY <1>1, <1>3, <1>4, <1>5, Elsewhere
    <3> QED BY <1>2, <1>3, <1>4, <2>1, <2>3, <2>4, <3>1 DEF Leaves
  <2> QED BY <2>2, <2>5, LeaveStep DEF HandleInv
<1> QED BY <1>1, <1>6, <1>7

(* Draining as many handles as a prefix has leaves the same rest. *)
LEMMA RestLemma ==
  ASSUME NEW q \in Seq(Tasks), NEW n \in Nat
  PROVE  Len(Prefix(q, n)) \in Nat
         /\ Prefix(q, Len(Prefix(q, n))) = Prefix(q, n)
<1>1. Len(Prefix(q, n)) = Least(n, Len(q)) /\ Len(q) \in Nat
  BY SplitLemma, LenProperties
<1>2. Least(n, Len(q)) \in Nat
      /\ Least(Least(n, Len(q)), Len(q)) = Least(n, Len(q))
  BY <1>1 DEF Least
<1> QED BY <1>1, <1>2 DEF Prefix

(* poll_io up to the submission: the suspend-once waiters go back to the   *)
(* task queue, the reads and writes to the ring's submission queue.        *)
LEMMA PollHandle ==
  ASSUME HandleInv, NEW k \in Contexts, PollPrepare(k), UNCHANGED hand
  PROVE  HandleInv'
<1> DEFINE w == Prefix(io_waiting_queue_[k], BatchSize)
           r == Prefix(io_read_submit_queue_[k], BatchSize)
           v == Prefix(io_write_submit_queue_[k], BatchSize - Len(r))
           W == Range(w)
           R == Range(r)
           V == Range(v)
<1>1. QueuesInv /\ HandleTypes /\ CallerInv /\ WorkInv /\ k \in Spots
      /\ {"task", "waiting", "read", "write", "sq"} \subseteq Kinds
  BY SpotsLemma DEF HandleInv, Kinds
<1>2. BatchSize \in Nat /\ BatchSize - Len(r) \in Nat
  <2>1. io_read_submit_queue_[k] \in Seq(Tasks) /\ BatchSize \in Nat
    BY <1>1, EngineBounds DEF QueuesInv, Queues
  <2>2. Len(r) = Least(BatchSize, Len(io_read_submit_queue_[k]))
        /\ Len(io_read_submit_queue_[k]) \in Nat
    BY <2>1, SplitLemma, LenProperties
  <2> QED BY <2>1, <2>2 DEF Least
<1>3. /\ Len(v) \in Nat
      /\ Prefix(io_write_submit_queue_[k], Len(v)) = v
  BY <1>1, <1>2, RestLemma DEF QueuesInv, Queues
<1>4. /\ Takes(io_waiting_queue_, io_waiting_queue_', k, BatchSize)
      /\ Takes(io_read_submit_queue_, io_read_submit_queue_', k, BatchSize)
      /\ Takes(io_write_submit_queue_, io_write_submit_queue_', k, Len(v))
      /\ task_queue_' = [task_queue_ EXCEPT ![k] = @ \o w]
      /\ sq' = [sq EXCEPT ![k] = @ \o (r \o v)]
      /\ wpc[k] = "poll"
      /\ \E p \in {"reap", "submit"} : wpc' = [wpc EXCEPT ![k] = p]
  BY <1>2, <1>3 DEF PollPrepare, Takes, uring_prepare, GotoW
<1>5. UNCHANGED <<ring, cq, work_batch_, active, frame, caller_, parked, hand>>
  BY DEF PollPrepare, batch, coro
<1>6. /\ Loses(io_waiting_queue_, io_waiting_queue_', k, W)
      /\ w \in Seq(Tasks) /\ IsInjective(w)
      /\ W \subseteq Range(io_waiting_queue_[k])
  BY <1>1, <1>4, QueueTake DEF QueuesInv
<1>7. /\ Loses(io_read_submit_queue_, io_read_submit_queue_', k, R)
      /\ r \in Seq(Tasks) /\ IsInjective(r)
      /\ R \subseteq Range(io_read_submit_queue_[k])
  BY <1>1, <1>4, QueueTake DEF QueuesInv
<1>8. /\ Loses(io_write_submit_queue_, io_write_submit_queue_', k, V)
      /\ v \in Seq(Tasks) /\ IsInjective(v)
      /\ V \subseteq Range(io_write_submit_queue_[k])
  <2> DEFINE n == Len(v)
  <2>1. /\ Loses(io_write_submit_queue_, io_write_submit_queue_', k,
                 Range(Prefix(io_write_submit_queue_[k], n)))
        /\ Prefix(io_write_submit_queue_[k], n) \in Seq(Tasks)
        /\ IsInjective(Prefix(io_write_submit_queue_[k], n))
        /\ Range(Prefix(io_write_submit_queue_[k], n))
             \subseteq Range(io_write_submit_queue_[k])
    BY <1>1, <1>4, QueueTake DEF QueuesInv
  <2> QED BY <1>3, <2>1
<1> HIDE DEF w, r, v
<1>9. /\ \A t \in Tasks \cap W : At(t, "waiting", k)
      /\ \A t \in Tasks \cap R : At(t, "read", k)
      /\ \A t \in Tasks \cap V : At(t, "write", k)
      /\ \A t \in Range(task_queue_[k]) : At(t, "task", k)
      /\ \A t \in Range(sq[k]) : At(t, "sq", k)
  BY <1>6, <1>7, <1>8 DEF At
<1>10. W \subseteq Tasks /\ R \subseteq Tasks /\ V \subseteq Tasks
  BY <1>6, <1>7, <1>8, RangeLemma
<1>11. /\ Range(task_queue_[k]) \cap W = {} /\ R \cap V = {}
       /\ Range(sq[k]) \cap (R \cup V) = {}
       /\ W \cap R = {} /\ W \cap V = {}
  BY <1>1, <1>9, <1>10, Elsewhere
<1>12. Gains(task_queue_, task_queue_', k, W)
  <2>1. Extends(task_queue_, task_queue_', k, w)
    BY <1>4, <1>6, <1>11 DEF Extends
  <2> QED BY <1>1, <2>1, QueueExtend DEF QueuesInv
<1>13. Gains(sq, sq', k, R \cup V)
  <2> DEFINE p == r \o v
  <2>1. p \in Seq(Tasks) /\ IsInjective(p) /\ Range(p) = R \cup V
    BY <1>7, <1>8, <1>11, JoinLemma
  <2> HIDE DEF p
  <2>2. Extends(sq, sq', k, p)
    BY <1>4, <1>11, <2>1 DEF Extends, p
  <2>3. Gains(sq, sq', k, Range(p))
    BY <1>1, <2>2, QueueExtend DEF QueuesInv
  <2> QED BY <2>1, <2>3
<1> HIDE DEF W, R, V
<1>14. QueuesInv' /\ CallerInv'
  BY <1>1, <1>5, <1>6, <1>7, <1>8, <1>12, <1>13
     DEF QueuesInv, CallerInv, Loses, Gains
<1>15. HandleTypes' /\ WorkInv'
  BY <1>1, <1>4, <1>5 DEF HandleTypes, WorkInv, Processing, WorkerPCs
<1>16. \A t \in Tasks, y \in Spots,
          j \in Kinds \ {"task", "waiting", "read", "write", "sq"} :
         At(t, j, y)' <=> At(t, j, y)
  <2>1. \A y \in Contexts : wpc'[y] = "run" <=> wpc[y] = "run"
    BY <1>1, <1>4 DEF HandleTypes
  <2> QED BY <1>5, <2>1 DEF At
<1>17. \A t \in Tasks, y \in Spots :
         /\ At(t, "waiting", y)' <=> At(t, "waiting", y) /\ ~(y = k /\ t \in W)
         /\ At(t, "read", y)' <=> At(t, "read", y) /\ ~(y = k /\ t \in R)
         /\ At(t, "write", y)' <=> At(t, "write", y) /\ ~(y = k /\ t \in V)
         /\ At(t, "task", y)' <=> At(t, "task", y) \/ (y = k /\ t \in W)
         /\ At(t, "sq", y)' <=> At(t, "sq", y) \/ (y = k /\ t \in R \cup V)
  BY <1>6, <1>7, <1>8, <1>12, <1>13 DEF At, Loses, Gains
<1>18. ASSUME NEW t \in Tasks PROVE HeldOnce(t)'
  <2>1. HeldOnce(t) /\ frame' = frame
    BY <1>5 DEF HandleInv
  <2>2. CASE t \in W
    <3>1. At(t, "waiting", k) /\ frame[t] = "live" /\ t \notin R \cup V
      BY <1>1, <1>9, <1>11, <2>2, Elsewhere
    <3>2. Goes(t, "waiting", k, "task", k)
      BY <1>1, <1>16, <1>17, <2>1, <2>2, <3>1 DEF Goes, Kinds
    <3> QED BY <1>1, <2>1, <3>2, HeldStep DEF Changes
  <2>3. CASE t \in R
    <3>1. At(t, "read", k) /\ frame[t] = "live" /\ t \notin W \cup V
      BY <1>1, <1>9, <1>11, <2>3, Elsewhere
    <3>2. Goes(t, "read", k, "sq", k)
      BY <1>1, <1>16, <1>17, <2>1, <2>3, <3>1 DEF Goes, Kinds
    <3> QED BY <1>1, <2>1, <3>2, HeldStep DEF Changes
  <2>4. CASE t \in V
    <3>1. At(t, "write", k) /\ frame[t] = "live" /\ t \notin W \cup R
      BY <1>1, <1>9, <1>11, <2>4, Elsewhere
    <3>2. Goes(t, "write", k, "sq", k)
      BY <1>1, <1>16, <1>17, <2>1, <2>4, <3>1 DEF Goes, Kinds
    <3> QED BY <1>1, <2>1, <3>2, HeldStep DEF Changes
  <2>5. CASE t \notin W \cup R \cup V
    <3>1. Stays(t)
      BY <1>16, <1>17, <2>1, <2>5 DEF Stays, Kinds
    <3> QED BY <2>1, <3>1, HeldStep DEF Changes
  <2> QED BY <2>2, <2>3, <2>4, <2>5
<1> QED BY <1>14, <1>15, <1>18 DEF HandleInv

(* A frame begins its life, awaited by nobody, in a place of kind i. *)
Arrives(h, i, x) ==
  /\ h \in Tasks /\ i \in Kinds \ {"caller"} /\ x \in Spots
  /\ frame[h] = "none" /\ frame' = [frame EXCEPT ![h] = "live"]
  /\ UNCHANGED caller_
  /\ \A t \in Tasks, j \in Kinds \ {i, "caller"}, y \in Spots :
       At(t, j, y)' <=> At(t, j, y)
  /\ \A t \in Tasks, y \in Spots :
       At(t, i, y)' <=> At(t, i, y) \/ (y = x /\ t = h)

(* Then it is held there only. *)
LEMMA ArriveStep ==
  ASSUME HandleInv, NEW h, NEW i, NEW x, Arrives(h, i, x)
  PROVE  \A t \in Tasks : HeldOnce(t)'
<1> SUFFICES ASSUME NEW t \in Tasks PROVE HeldOnce(t)'
  OBVIOUS
<1>1. HeldOnce(t) /\ HandleTypes /\ CallerInv
  BY DEF HandleInv
<1>2. \A s \in Tasks : frame'[s] = IF s = h THEN "live" ELSE frame[s]
  BY <1>1 DEF Arrives, HandleTypes
<1>3. \A y \in Spots : At(t, "caller", y)' <=> At(t, "caller", y)
  <2>1. caller_[h] = NoTask /\ caller_' = caller_ /\ frame[h] = "none"
    BY <1>1 DEF Arrives, CallerInv
  <2> QED BY <1>2, <2>1, NoTaskAssumption DEF At
<1>4. CASE t = h
  <2>1. ASSUME NEW j \in Kinds, NEW y \in Spots
        PROVE  At(t, j, y)' <=> (j = i /\ y = x) \/ At(t, j, y)
    <3>1. CASE j \in {i, "caller"}
      BY <1>3, <1>4, <3>1 DEF Arrives
    <3>2. CASE j \in Kinds \ {i, "caller"}
      BY <3>2 DEF Arrives
    <3> QED BY <3>1, <3>2
  <2>2. Comes(t, i, x)
    BY <1>2, <1>4, <2>1 DEF Comes, Arrives
  <2> QED BY <1>1, <2>2, HeldStep DEF Changes, Arrives
<1>5. CASE t # h
  <2>1. ASSUME NEW j \in Kinds, NEW y \in Spots
        PROVE  At(t, j, y)' <=> At(t, j, y)
    <3>1. CASE j \in {i, "caller"}
      BY <1>3, <1>5, <3>1 DEF Arrives
    <3>2. CASE j \in Kinds \ {i, "caller"}
      BY <3>2 DEF Arrives
    <3> QED BY <3>1, <3>2
  <2>2. Stays(t)
    BY <1>2, <1>5, <2>1 DEF Stays
  <2> QED BY <1>1, <2>2, HeldStep DEF Changes
<1> QED BY <1>4, <1>5

(* A frame that has not begun is held nowhere. *)
LEMMA NotBegun ==
  ASSUME HandleInv, NEW h \in Tasks, frame[h] = "none"
  PROVE  Nowhere(h)
BY DEF HandleInv, HeldOnce

(* submit_to_scheduler inside the runtime: on the caller's own context. *)
LEMMA SpawnHandle ==
  ASSUME HandleInv, NEW k \in Contexts, NEW h \in Tasks, Spawn(k, h)
  PROVE  HandleInv'
<1>1. /\ frame[h] = "none" /\ frame' = [frame EXCEPT ![h] = "live"]
      /\ task_queue_' = [task_queue_ EXCEPT ![k] = Append(@, h)]
      /\ UNCHANGED <<io_waiting_queue_, io_read_submit_queue_,
                     io_write_submit_queue_, sq, ring, cq, work_batch_, parked,
                     caller_, wpc, active, hand>>
  BY DEF Spawn, submit_task, kernel, worker, batch, submitVars
<1>2. QueuesInv /\ HandleTypes /\ CallerInv /\ WorkInv
      /\ "task" \in Kinds /\ k \in Spots
  BY SpotsLemma DEF HandleInv, Kinds
<1>3. h \notin Range(task_queue_[k])
  <2>1. h \in Range(task_queue_[k]) => At(h, "task", k)
    BY DEF At
  <2> QED BY <1>1, <1>2, <2>1, NotBegun DEF Nowhere
<1>4. Gains(task_queue_, task_queue_', k, {h})
  BY <1>1, <1>2, <1>3, QueuePush DEF QueuesInv, Pushes
<1>5. QueuesInv' /\ HandleTypes' /\ CallerInv' /\ WorkInv'
  BY <1>1, <1>2, <1>4
     DEF QueuesInv, HandleTypes, CallerInv, WorkInv, Gains, Processing, Frames
<1>6. \A t \in Tasks, j \in Kinds \ {"task", "caller"}, y \in Spots :
        At(t, j, y)' <=> At(t, j, y)
  BY <1>1 DEF At
<1>7. \A t \in Tasks, y \in Spots :
        At(t, "task", y)' <=> At(t, "task", y) \/ (y = k /\ t = h)
  BY <1>4 DEF At, Gains
<1>8. Arrives(h, "task", k)
  BY <1>1, <1>2, <1>6, <1>7 DEF Arrives
<1> QED BY <1>5, <1>8, ArriveStep DEF HandleInv

(* submit_new under state_mutex_: the task is refused and destroyed, or    *)
(* accepted and on its way.                                                *)
LEMMA SubmitNewHandle ==
  ASSUME HandleInv, NEW x \in Executors, NEW h \in Tasks, SubmitNew(x, h)
  PROVE  HandleInv'
<1>1. /\ frame[h] = "none" /\ hand[x] = NoTask
      /\ UNCHANGED <<queuesE, sq, ring, cq, work_batch_, parked, caller_, wpc,
                     active>>
  BY DEF SubmitNew, kernel, worker, batch
<1>2. QueuesInv /\ HandleTypes /\ CallerInv /\ WorkInv
      /\ "hand" \in Kinds /\ x \in Spots
  BY SpotsLemma DEF HandleInv, Kinds
<1>3. CASE initialized_ /\ accepting_
  <2>1. /\ hand' = [hand EXCEPT ![x] = h]
        /\ frame' = [frame EXCEPT ![h] = "live"]
    BY <1>3 DEF SubmitNew
  <2>2. QueuesInv' /\ HandleTypes' /\ CallerInv' /\ WorkInv'
    BY <1>1, <1>2, <2>1 DEF QueuesInv, HandleTypes, CallerInv, WorkInv,
       Processing, Frames, queuesE
  <2>3. \A t \in Tasks, j \in Kinds \ {"hand", "caller"}, y \in Spots :
          At(t, j, y)' <=> At(t, j, y)
    BY <1>1 DEF At, queuesE
  <2>4. \A t \in Tasks, y \in Spots :
          At(t, "hand", y)' <=> At(t, "hand", y) \/ (y = x /\ t = h)
    BY <1>1, <1>2, <2>1, NoTaskAssumption DEF At, HandleTypes
  <2>5. Arrives(h, "hand", x)
    BY <1>1, <1>2, <2>1, <2>3, <2>4 DEF Arrives
  <2> QED BY <2>2, <2>5, ArriveStep DEF HandleInv
<1>4. CASE ~(initialized_ /\ accepting_)
  <2>1. UNCHANGED hand /\ frame' = [frame EXCEPT ![h] = "destroyed"]
    BY <1>4 DEF SubmitNew, submitVars
  <2>2. QuietHandles
    BY <1>1, <1>2, <2>1 DEF QuietHandles, HandleTypes, Frames, Processing
  <2> QED BY <2>2, QuietHandle
<1> QED BY <1>3, <1>4

(* co_await of a Task: the new frame runs, and holds the one that awaits   *)
(* it as its caller.                                                       *)
LEMMA AwaitHandle ==
  ASSUME HandleInv, NEW k \in Contexts, NEW h \in Tasks, Await(k, h),
         UNCHANGED hand
  PROVE  HandleInv'
<1>0. PICK a : a = active[k]
  OBVIOUS
<1>1. /\ wpc[k] = "run" /\ frame[h] = "none"
      /\ frame' = [frame EXCEPT ![h] = "live"]
      /\ caller_' = [caller_ EXCEPT ![h] = a]
      /\ active' = [active EXCEPT ![k] = h]
      /\ UNCHANGED <<queuesE, sq, ring, cq, work_batch_, parked, wpc, hand>>
  BY <1>0 DEF Await, Running, kernel
<1>2. QueuesInv /\ HandleTypes /\ CallerInv /\ WorkInv
      /\ {"run", "caller"} \subseteq Kinds /\ k \in Spots /\ h \in Spots
  BY SpotsLemma DEF HandleInv, Kinds
<1>3. a \in Tasks /\ At(a, "run", k)
  BY <1>0, <1>1, <1>2 DEF WorkInv, At
<1>4. frame[a] = "live" /\ a # h
  BY <1>1, <1>2, <1>3, Elsewhere
<1>5. \A t \in parked : t # h
  <2>1. \A t \in parked : At(t, "parked", t) /\ t \in Tasks /\ t \in Spots
    BY <1>2, SpotsLemma DEF At, HandleTypes
  <2> QED BY <1>1, <2>1, NotBegun DEF Nowhere, Kinds
<1>6. QueuesInv' /\ HandleTypes' /\ CallerInv' /\ WorkInv'
  <2>1. QueuesInv' /\ HandleTypes' /\ WorkInv'
    BY <1>1, <1>2, <1>3 DEF QueuesInv, HandleTypes, WorkInv, Processing,
       Frames, queuesE
  <2>2. CallerInv'
    BY <1>1, <1>2, <1>5 DEF CallerInv, HandleTypes
  <2> QED BY <2>1, <2>2
<1>7. \A t \in Tasks, j \in Kinds \ {"run", "caller"}, y \in Spots :
        At(t, j, y)' <=> At(t, j, y)
  BY <1>1 DEF At, queuesE
<1>8. \A t \in Tasks, y \in Spots :
        /\ At(t, "run", y)' <=> IF y = k THEN t = h ELSE At(t, "run", y)
        /\ At(t, "run", k) <=> t = a
        /\ At(t, "caller", y)' <=> At(t, "caller", y) \/ (t = a /\ y = h)
  BY <1>0, <1>1, <1>2 DEF At, HandleTypes
<1>9. \A t \in Tasks : frame'[t] = IF t = h THEN "live" ELSE frame[t]
  BY <1>1, <1>2 DEF HandleTypes
<1>10. ASSUME NEW t \in Tasks PROVE HeldOnce(t)'
  <2>1. HeldOnce(t)
    BY DEF HandleInv
  <2>2. CASE t = h
    <3>1. ASSUME NEW j \in Kinds, NEW y \in Spots
          PROVE  At(t, j, y)' <=> (j = "run" /\ y = k) \/ At(t, j, y)
      BY <1>2, <1>4, <1>7, <1>8, <2>2
    <3>2. Comes(t, "run", k)
      BY <1>1, <1>9, <2>2, <3>1 DEF Comes
    <3> QED BY <1>2, <2>1, <3>2, HeldStep DEF Changes
  <2>3. CASE t = a
    <3>1. ASSUME NEW j \in Kinds, NEW y \in Spots
          PROVE  At(t, j, y)' <=> \/ j = "caller" /\ y = h
                                  \/ At(t, j, y) /\ ~(j = "run" /\ y = k)
      BY <1>2, <1>4, <1>7, <1>8, <2>3
    <3>2. Goes(t, "run", k, "caller", h)
      BY <1>3, <1>4, <1>9, <2>3, <3>1 DEF Goes
    <3> QED BY <1>2, <2>1, <3>2, HeldStep DEF Changes
  <2>4. CASE t \notin {a, h}
    <3>1. ASSUME NEW j \in Kinds, NEW y \in Spots
          PROVE  At(t, j, y)' <=> At(t, j, y)
      BY <1>2, <1>7, <1>8, <2>4
    <3>2. Stays(t)
      BY <1>9, <2>4, <3>1 DEF Stays
    <3> QED BY <2>1, <3>2, HeldStep DEF Changes
  <2> QED BY <2>2, <2>3, <2>4
<1> QED BY <1>6, <1>10 DEF HandleInv

(* Task objects destroy frames that have ended and have no effect on live  *)
(* ones.                                                                   *)
LEMMA DropLemma ==
  ASSUME HandleTypes, NEW h \in Tasks, NEW S, S \subseteq Owned(h)
  PROVE  /\ S \subseteq Tasks
         /\ Drop(S, frame) \in [Tasks -> Frames]
         /\ Disowned(S) \in [Tasks -> Tasks \cup {NoTask}]
         /\ \A t \in S : frame[t] \in {"final", "destroyed"}
         /\ \A t \in Tasks :
              /\ Drop(S, frame)[t] = IF t \in S THEN "destroyed" ELSE frame[t]
              /\ Disowned(S)[t] = IF t \in S THEN NoTask ELSE caller_[t]
BY DEF HandleTypes, Owned, Drop, Disowned, Frames

(* A thread outside the runtime runs a parked coroutine to its end. *)
LEMMA InlineHandle ==
  ASSUME HandleInv, "inner" \notin TaskCalls, NEW u \in Threads,
         InlineEnd(u)
  PROVE  HandleInv'
<1>1. PICK p \in parked :
        /\ parked' = parked \ {p}
        /\ frame' = [Drop(Owned(p), frame) EXCEPT ![p] = "final"]
        /\ caller_' = Disowned(Owned(p))
  BY DEF InlineEnd, RunsInlined, inlineOnly
<1>2. UNCHANGED <<queuesE, sq, ring, cq, work_batch_, active, wpc, hand>>
  BY DEF InlineEnd, RunsInlined, inlineOnly, kernel, worker, batch, submitVars
<1>3. QueuesInv /\ HandleTypes /\ CallerInv /\ WorkInv
      /\ "parked" \in Kinds \ {"caller"} /\ p \in Tasks /\ p \in Spots
  BY SpotsLemma DEF HandleInv, Kinds, HandleTypes
<1>4. At(p, "parked", p)
  BY <1>1 DEF At
<1>5. caller_[p] = NoTask
  BY <1>1, <1>3 DEF CallerInv
<1> DEFINE S == Owned(p)
<1>6. /\ Drop(S, frame) \in [Tasks -> Frames]
      /\ Disowned(S) \in [Tasks -> Tasks \cup {NoTask}]
      /\ \A t \in S : frame[t] \in {"final", "destroyed"}
      /\ \A t \in Tasks :
           /\ Drop(S, frame)[t] = IF t \in S THEN "destroyed" ELSE frame[t]
           /\ Disowned(S)[t] = IF t \in S THEN NoTask ELSE caller_[t]
  BY <1>3, DropLemma
<1> HIDE DEF S
<1>7. /\ frame' \in [Tasks -> Frames] /\ frame'[p] = "final"
      /\ caller_' \in [Tasks -> Tasks \cup {NoTask}]
      /\ \A t \in Tasks \ {p} :
           frame'[t] = IF t \in S THEN "destroyed" ELSE frame[t]
      /\ \A t \in Tasks : caller_'[t] = IF t \in S THEN NoTask ELSE caller_[t]
  BY <1>1, <1>3, <1>6 DEF S, Frames
<1>8. QueuesInv' /\ HandleTypes' /\ WorkInv'
  BY <1>1, <1>2, <1>3, <1>7 DEF QueuesInv, HandleTypes, WorkInv, Processing,
     queuesE
<1>9. CallerInv'
  BY <1>1, <1>3, <1>7 DEF CallerInv, HandleTypes
<1>10. \A t \in Tasks, j \in Kinds \ {"parked", "caller"}, y \in Spots :
         At(t, j, y)' <=> At(t, j, y)
  BY <1>2 DEF At, queuesE
<1>11. \A t \in Tasks, y \in Spots :
         At(t, "parked", y)' <=> At(t, "parked", y) /\ t \notin {p}
  BY <1>1 DEF At
<1>12. /\ \A t \in Tasks \ {p} : frame'[t] = "live" <=> frame[t] = "live"
       /\ \A t \in Tasks : frame'[t] = "live" => caller_'[t] = caller_[t]
  BY <1>6, <1>7
<1>13. Leaves({p}, "parked")
  BY <1>3, <1>4, <1>5, <1>7, <1>10, <1>11, <1>12 DEF Leaves
<1> QED BY <1>8, <1>9, <1>13, LeaveStep DEF HandleInv

(* The last join(): the contexts go, with the handles that arrived after   *)
(* their workers had ended.                                                *)
LEMMA DestroyHandle ==
  ASSUME HandleInv, TopInv, DestroyContexts, \A k \in Contexts : Ended(k),
         UNCHANGED <<io_waiting_queue_, io_read_submit_queue_,
                     io_write_submit_queue_, sq, ring, cq, work_batch_, parked,
                     caller_, active, wpc, hand>>
  PROVE  HandleInv'
<1> DEFINE lost == UNION {Range(task_queue_[k]) : k \in Contexts}
<1>1. QueuesInv /\ HandleTypes /\ CallerInv /\ WorkInv
      /\ "task" \in Kinds \ {"caller"}
  BY DEF HandleInv, Kinds
<1>2. \A t \in lost : \E k \in Contexts : t \in Range(task_queue_[k])
  OBVIOUS
<1>3. \A k \in Contexts : Range(task_queue_[k]) \subseteq lost
  OBVIOUS
<1>4. lost \subseteq Tasks
  BY <1>1, RangeLemma DEF QueuesInv, Queues
<1>5. /\ frame' = [t \in Tasks |-> IF t \in lost THEN "leaked" ELSE frame[t]]
      /\ task_queue_' = [k \in Contexts |-> <<>>]
  BY DEF DestroyContexts
<1> HIDE DEF lost
<1>6. Queues(task_queue_')
  BY <1>5, EmptyQueueLemma DEF Queues
<1>7. QueuesInv' /\ HandleTypes' /\ CallerInv' /\ WorkInv'
  BY <1>1, <1>4, <1>5, <1>6
     DEF QueuesInv, HandleTypes, CallerInv, WorkInv, Processing, Frames
<1>8. \A t \in Tasks, j \in Kinds \ {"task", "caller"}, y \in Spots :
        At(t, j, y)' <=> At(t, j, y)
  BY DEF At
<1>9. \A t \in Tasks, y \in Spots :
        At(t, "task", y)' <=> At(t, "task", y) /\ t \notin lost
  <2>1. \A t \in Tasks, y \in Spots : ~At(t, "task", y)'
    BY <1>5, EmptyQueueLemma DEF At
  <2>2. \A t \in Tasks, y \in Spots : At(t, "task", y) => t \in lost
    BY <1>3 DEF At
  <2> QED BY <2>1, <2>2
<1>10. \A t \in lost : caller_[t] = NoTask /\ \E x \in Spots : At(t, "task", x)
  BY <1>2, SpotsLemma DEF TopInv, At
<1>11. Leaves(lost, "task")
  BY <1>1, <1>4, <1>5, <1>8, <1>9, <1>10 DEF Leaves
<1> QED BY <1>7, <1>11, LeaveStep DEF HandleInv

(* The body ends: a detached frame is done with, an awaited one hands the  *)
(* worker over to its caller.                                              *)
LEMMA FinishHandle ==
  ASSUME HandleInv, NEW k \in Contexts, Finish(k), UNCHANGED hand
  PROVE  HandleInv'
<1>0. PICK h, c : h = active[k] /\ c = caller_[active[k]]
  OBVIOUS
<1> DEFINE S == Owned(h)
<1>1. /\ wpc[k] = "run"
      /\ frame' = [Drop(S, frame) EXCEPT ![h] =
                     IF @ = "destroyed" THEN "destroyed" ELSE "final"]
      /\ caller_' = Disowned(S)
      /\ active' = [active EXCEPT ![k] = c]
      /\ \/ c = NoTask /\ wpc' = [wpc EXCEPT ![k] = "resumed"]
         \/ c # NoTask /\ UNCHANGED wpc
      /\ UNCHANGED <<queuesE, sq, ring, cq, work_batch_, parked, hand>>
  BY <1>0 DEF Finish, Running, GotoW, kernel
<1>2. QueuesInv /\ HandleTypes /\ CallerInv /\ WorkInv
      /\ {"run", "caller"} \subseteq Kinds /\ k \in Spots
  BY SpotsLemma DEF HandleInv, Kinds
<1>3. h \in Tasks /\ h \in Spots /\ c = caller_[h] /\ c \in Tasks \cup {NoTask}
      /\ At(h, "run", k)
  BY <1>0, <1>1, <1>2, SpotsLemma DEF WorkInv, At, HandleTypes
<1>4. /\ Drop(S, frame) \in [Tasks -> Frames]
      /\ Disowned(S) \in [Tasks -> Tasks \cup {NoTask}]
      /\ \A t \in S : frame[t] \in {"final", "destroyed"}
      /\ \A t \in Tasks :
           /\ Drop(S, frame)[t] = IF t \in S THEN "destroyed" ELSE frame[t]
           /\ Disowned(S)[t] = IF t \in S THEN NoTask ELSE caller_[t]
  BY <1>2, <1>3, DropLemma
<1> HIDE DEF S
<1>5. frame[h] = "live"
      /\ \A j \in Kinds, y \in Spots : At(h, j, y) => j = "run" /\ y = k
  BY <1>2, <1>3, Elsewhere
<1>6. /\ frame' \in [Tasks -> Frames] /\ frame'[h] = "final"
      /\ \A t \in Tasks \ {h} :
           frame'[t] = IF t \in S THEN "destroyed" ELSE frame[t]
  BY <1>1, <1>3, <1>4, <1>5 DEF Frames
<1>7. /\ caller_' \in [Tasks -> Tasks \cup {NoTask}]
      /\ \A t \in Tasks : caller_'[t] = IF t \in S THEN NoTask ELSE caller_[t]
  BY <1>1, <1>4
<1>8. QueuesInv' /\ HandleTypes' /\ WorkInv'
  BY <1>1, <1>2, <1>3, <1>6, <1>7
     DEF QueuesInv, HandleTypes, WorkInv, Processing, WorkerPCs, queuesE
<1>9. CallerInv'
  BY <1>1, <1>2, <1>6, <1>7 DEF CallerInv, HandleTypes
<1>10. \A t \in Tasks, j \in Kinds \ {"run", "caller"}, y \in Spots :
         At(t, j, y)' <=> At(t, j, y)
  BY <1>1 DEF At, queuesE
<1>11. \A t \in Tasks, y \in Spots :
         At(t, "caller", y)' <=> At(t, "caller", y) /\ y # h
  <2>1. \A y \in Tasks : y # h =>
          /\ frame'[y] = "live" <=> frame[y] = "live"
          /\ frame[y] = "live" => caller_'[y] = caller_[y]
    BY <1>4, <1>6, <1>7
  <2> QED BY <1>6, <2>1 DEF At
<1>12. \A t \in Tasks, y \in Spots :
         At(t, "run", y)' <=> IF y = k THEN t = c ELSE At(t, "run", y)
  BY <1>1, <1>2, <1>3, NoTaskAssumption DEF At, HandleTypes
<1>13. \A t \in Tasks : /\ At(t, "run", k) <=> t = h
                        /\ At(t, "caller", h) <=> t = c
  BY <1>0, <1>1, <1>3, <1>5 DEF At
<1>14. c # h
  BY <1>2, <1>3, <1>5, <1>13
<1>15. ASSUME NEW t \in Tasks PROVE HeldOnce(t)'
  <2>1. HeldOnce(t)
    BY DEF HandleInv
  <2>2. CASE t = h
    <3>1. ASSUME NEW j \in Kinds, NEW y \in Spots
          PROVE  At(t, j, y)' <=> At(t, j, y) /\ ~(j = "run" /\ y = k)
      BY <1>2, <1>3, <1>5, <1>10, <1>11, <1>12, <1>14, <2>2
    <3>2. Departs(t, "run", k)
      BY <1>3, <1>6, <2>2, <3>1 DEF Departs
    <3> QED BY <1>2, <2>1, <3>2, HeldStep DEF Changes
  <2>3. CASE t = c
    <3>1. At(t, "caller", h) /\ frame[t] = "live"
      BY <1>2, <1>3, <1>13, <2>3, Elsewhere
    <3>2. t # h /\ t \notin S /\ frame'[t] = "live"
      BY <1>4, <1>6, <1>14, <2>3, <3>1
    <3>3. ASSUME NEW j \in Kinds, NEW y \in Spots
          PROVE  At(t, j, y)' <=> \/ j = "run" /\ y = k
                                  \/ At(t, j, y) /\ ~(j = "caller" /\ y = h)
      BY <1>2, <1>3, <1>10, <1>11, <1>12, <2>3
    <3>4. Goes(t, "caller", h, "run", k)
      BY <3>1, <3>2, <3>3 DEF Goes
    <3> QED BY <1>2, <1>3, <2>1, <3>4, HeldStep DEF Changes
  <2>4. CASE t \notin {h, c}
    <3>1. ASSUME NEW j \in Kinds, NEW y \in Spots
          PROVE  At(t, j, y)' <=> At(t, j, y)
      BY <1>2, <1>3, <1>10, <1>11, <1>12, <1>13, <2>4
    <3>2. Stays(t)
      BY <1>4, <1>6, <2>4, <3>1 DEF Stays
    <3> QED BY <2>1, <3>2, HeldStep DEF Changes
  <2> QED BY <2>2, <2>3, <2>4
<1> QED BY <1>8, <1>9, <1>15 DEF HandleInv

(* ~Task of an awaited temporary. *)
LEMMA ReleaseHandle ==
  ASSUME HandleInv, NEW k \in Contexts, Release(k), UNCHANGED hand
  PROVE  HandleInv'
<1>1. PICK t \in Owned(active[k]) :
        frame' = Drop({t}, frame) /\ caller_' = Disowned({t})
  BY DEF Release
<1>2. wpc[k] = "run"
      /\ UNCHANGED <<queuesE, sq, ring, cq, work_batch_, active, parked, hand,
                     wpc>>
  BY DEF Release, Running, kernel, worker, batch
<1>3. HandleTypes /\ active[k] \in Tasks
  BY <1>2 DEF HandleInv, WorkInv
<1> DEFINE S == {t}
<1>4. S \subseteq Owned(active[k])
  BY <1>1
<1> HIDE DEF S
<1>5. /\ Drop(S, frame) \in [Tasks -> Frames]
      /\ Disowned(S) \in [Tasks -> Tasks \cup {NoTask}]
      /\ \A s \in S : frame[s] \in {"final", "destroyed"}
      /\ \A s \in Tasks :
           /\ Drop(S, frame)[s] = IF s \in S THEN "destroyed" ELSE frame[s]
           /\ Disowned(S)[s] = IF s \in S THEN NoTask ELSE caller_[s]
  BY <1>3, <1>4, DropLemma
<1>6. QuietHandles
  BY <1>1, <1>2, <1>3, <1>5 DEF QuietHandles, S, HandleTypes, Processing
<1> QED BY <1>6, QuietHandle

(* Steps that submit nothing: a worker that has ended has its queue as it  *)
(* was, or an empty one, and no live frame gains a caller.                 *)
TopQuiet ==
  /\ UNCHANGED hand
  /\ \A t \in Tasks :
       frame[t] = "live" => caller_'[t] \in {caller_[t], NoTask}
  /\ \A k \in Contexts : Ended(k)' =>
       task_queue_'[k] = <<>> \/ (Ended(k) /\ task_queue_'[k] = task_queue_[k])

(* The handles that TopInv speaks of belong to live frames. *)
LEMMA SubmittedLive ==
  ASSUME HandleInv
  PROVE  /\ \A x \in Executors : hand[x] # NoTask =>
              hand[x] \in Tasks /\ frame[hand[x]] = "live"
         /\ \A k \in Contexts : \A t \in Range(task_queue_[k]) :
              t \in Tasks /\ frame[t] = "live"
<1>1. HandleTypes /\ QueuesInv /\ {"hand", "task"} \subseteq Kinds
  BY DEF HandleInv, Kinds
<1>2. \A x \in Executors : hand[x] # NoTask =>
        hand[x] \in Tasks /\ x \in Spots /\ At(hand[x], "hand", x)
  BY <1>1, SpotsLemma DEF HandleTypes, At
<1>3. \A k \in Contexts : \A t \in Range(task_queue_[k]) :
        t \in Tasks /\ k \in Spots /\ At(t, "task", k)
  BY <1>1, SpotsLemma, RangeLemma DEF QueuesInv, Queues, At
<1> QED BY <1>1, <1>2, <1>3, Elsewhere

(* The invariant survives such a step. *)
LEMMA TopQuietStep ==
  ASSUME HandleInv, TopInv, TopQuiet PROVE TopInv'
<1>1. \A x \in Executors : hand'[x] # NoTask => caller_'[hand'[x]] = NoTask
  BY SubmittedLive DEF TopInv, TopQuiet
<1>2. ASSUME NEW k \in Contexts, Ended(k)', NEW t \in Range(task_queue_[k])'
      PROVE  caller_'[t] = NoTask
  <2>1. task_queue_'[k] # <<>>
    BY <1>2, EmptyQueueLemma
  <2>2. Ended(k) /\ task_queue_'[k] = task_queue_[k]
    BY <1>2, <2>1 DEF TopQuiet
  <2> QED BY <1>2, <2>2, SubmittedLive DEF TopInv, TopQuiet
<1> QED BY <1>1, <1>2 DEF TopInv

(* A task that is accepted has not begun, so nobody awaits it. *)
LEMMA SubmitNewTop ==
  ASSUME HandleInv, TopInv, NEW x \in Executors, NEW h \in Tasks,
         SubmitNew(x, h)
  PROVE  TopInv'
<1>1. UNCHANGED <<caller_, task_queue_, wpc>> /\ caller_[h] = NoTask
  BY DEF SubmitNew, queuesE, HandleInv, CallerInv
<1>2. hand' = hand \/ hand' = [hand EXCEPT ![x] = h]
  BY DEF SubmitNew, submitVars
<1>3. hand \in [Executors -> Tasks \cup {NoTask}]
  BY DEF HandleInv, HandleTypes
<1> QED BY <1>1, <1>2, <1>3 DEF TopInv, Ended

(* Neither has one that reaches its context. *)
LEMMA SubmitPushTop ==
  ASSUME HandleInv, TopInv, NEW x \in Executors, SubmitPush(x),
         contexts \subseteq Contexts
  PROVE  TopInv'
<1>1. /\ UNCHANGED caller_ /\ hand' = [hand EXCEPT ![x] = NoTask]
      /\ hand[x] # NoTask
  BY DEF SubmitPush
<1>2. hand \in [Executors -> Tasks \cup {NoTask}] /\ Queues(task_queue_)
      /\ wpc \in [Contexts -> WorkerPCs]
  BY DEF HandleInv, HandleTypes, QueuesInv
<1>3. PICK h \in Tasks : h = hand[x] /\ caller_[h] = NoTask
  BY <1>1, <1>2 DEF TopInv
<1>4. ASSUME NEW k \in Contexts, Ended(k)', NEW t \in Range(task_queue_[k])'
      PROVE  caller_'[t] = NoTask
  <2>1. Ended(k)
    BY <1>2, <1>4 DEF SubmitPush, GotoW, Notified, Ended
  <2>2. task_queue_'[k] = task_queue_[k]
        \/ task_queue_'[k] = Append(task_queue_[k], h)
    <3>1. \/ task_queue_' = task_queue_
          \/ task_queue_' = [task_queue_ EXCEPT ![target[x]] = Append(@, h)]
      BY <1>3 DEF SubmitPush, submit_task
    <3>2. task_queue_ \in [Contexts -> Seq(Tasks)]
      BY <1>2 DEF Queues
    <3> QED BY <3>1, <3>2
  <2>3. t \in Range(task_queue_[k]) \/ t = h
    <3>1. task_queue_[k] \in Seq(Tasks) /\ t \in Range(task_queue_'[k])
      BY <1>2, <1>4 DEF Queues
    <3>2. Range(Append(task_queue_[k], h)) = Range(task_queue_[k]) \cup {h}
      BY <3>1, PushLemma
    <3> QED BY <2>2, <3>1, <3>2
  <2> QED BY <1>1, <1>3, <2>1, <2>3 DEF TopInv
<1> QED BY <1>1, <1>2, <1>4 DEF TopInv

(* Steps of a worker that touch no handle. *)
Idles(k) ==
  \/ PopBatch(k) /\ task_queue_[k] = <<>>
  \/ ResumeNext(k) /\ work_batch_[k] = <<>>
  \/ PollReturn(k) \/ CanStop(k) \/ WaitCheck(k) \/ WaitBlock(k)
  \/ SpuriousWake(k)

(* They keep every handle where it is. *)
LEMMA IdleHandle ==
  ASSUME HandleInv, NEW k \in Contexts, Idles(k), UNCHANGED hand
  PROVE  HandleInv'
<1>1. HandleTypes
  BY DEF HandleInv
<1>2. UNCHANGED <<queuesE, sq, ring, cq, work_batch_, active, parked, frame,
                  caller_>>
  BY DEF Idles, PopBatch, ResumeNext, PollReturn, CanStop, WaitCheck,
     WaitBlock, SpuriousWake, queuesE, kernel, worker, batch, coro
<1>3. \E p \in WorkerPCs \ {"run"} :
        /\ wpc' = [wpc EXCEPT ![k] = p] /\ wpc[k] # "run"
        /\ wpc[k] # "resume" => ~Processing(k)
        /\ wpc[k] = "resume" => work_batch_[k] = <<>>
  BY DEF Idles, PopBatch, ResumeNext, PollReturn, CanStop, WaitCheck,
     WaitBlock, SpuriousWake, GotoW, WorkerPCs, Processing
<1>4. QuietHandles
  BY <1>1, <1>2, <1>3 DEF QuietHandles, HandleTypes, Processing
<1> QED BY <1>4, QuietHandle

(* done(), destroy() and on_task_completed find a frame that has ended. *)
LEMMA AfterHandle ==
  ASSUME HandleInv, NEW k \in Contexts, UNCHANGED hand,
         AfterResume(k) \/ Complete(k)
  PROVE  HandleInv'
<1>1. HandleTypes
  BY DEF HandleInv
<1>2. UNCHANGED <<queuesE, sq, ring, cq, work_batch_, active, parked, caller_>>
  BY DEF AfterResume, Complete, queuesE, kernel, coro
<1>3. \E p \in {"resume", "complete"} :
        wpc' = [wpc EXCEPT ![k] = p] /\ wpc[k] \in {"resumed", "complete"}
  BY DEF AfterResume, Complete, GotoW
<1>4. \/ frame' = frame
      \/ /\ frame' = [frame EXCEPT ![cur[k]] = "destroyed"]
         /\ frame[cur[k]] \in {"final", "destroyed"}
  BY DEF AfterResume, Complete, coro
<1>5. /\ frame' \in [Tasks -> Frames]
      /\ \A t \in Tasks : /\ frame'[t] = "live" <=> frame[t] = "live"
                          /\ frame'[t] = "none" => frame[t] = "none"
  BY <1>1, <1>4 DEF HandleTypes, Frames
<1>6. /\ wpc' \in [Contexts -> WorkerPCs]
      /\ \A j \in Contexts : /\ wpc'[j] = "run" <=> wpc[j] = "run"
                             /\ Processing(j)' <=> Processing(j)
  BY <1>1, <1>3 DEF HandleTypes, WorkerPCs, Processing
<1>7. QuietHandles
  BY <1>1, <1>2, <1>5, <1>6 DEF QuietHandles, HandleTypes
<1> QED BY <1>7, QuietHandle

(* pending_submit_count_ never goes below zero: poll_io adds what it has   *)
(* prepared and takes off what the kernel has taken.                       *)
CountInv == pending_submit_count_ \in [Contexts -> Nat]

(* Every iteration of a worker's loop keeps the handles in their places. *)
LEMMA LoopHandle ==
  ASSUME HandleInv, CountInv, NEW k \in Contexts, WorkerLoop(k)
  PROVE  HandleInv'
<1>1. UNCHANGED hand
  BY DEF WorkerLoop, schedVars, submitVars
<1>2. CASE PopBatch(k)
  BY <1>1, <1>2, PopBatchHandle, IdleHandle DEF Idles
<1>3. CASE ResumeNext(k)
  BY <1>1, <1>3, ResumeHandle, IdleHandle DEF Idles
<1>4. CASE PollReturn(k) \/ CanStop(k) \/ WaitCheck(k) \/ WaitBlock(k)
  BY <1>1, <1>4, IdleHandle DEF Idles
<1>5. CASE UringSubmit(k)
  BY <1>1, <1>5, UringHandle DEF CountInv
<1>6. CASE AfterResume(k) \/ PollPrepare(k) \/ Reap(k)
  BY <1>1, <1>6, AfterHandle, PollHandle, ReapHandle
<1> QED BY <1>2, <1>3, <1>4, <1>5, <1>6 DEF WorkerLoop

(* So does every step of the coroutine it runs. *)
LEMMA BodyHandle ==
  ASSUME HandleInv, NEW k \in Contexts, Body(k) PROVE HandleInv'
<1>1. UNCHANGED hand
  BY DEF Body, schedVars, submitVars
<1>2. CASE Finish(k) \/ Release(k) \/ WakeOne(k)
  BY <1>1, <1>2, FinishHandle, ReleaseHandle, WakeHandle
<1>3. CASE \E t \in Tasks : Await(k, t)
  BY <1>1, <1>3, AwaitHandle
<1>4. CASE Yield(k) \/ IoSuspendOnce(k) \/ IoRead(k) \/ IoWrite(k)
  BY <1>1, <1>4, YieldHandle, IoSuspendOnceHandle, IoReadHandle, IoWriteHandle
<1>5. CASE Park(k) /\ MaySuspend(k)
  BY <1>1, <1>5, ParkHandle
<1> QED BY <1>2, <1>3, <1>4, <1>5 DEF Body

(* A worker touches its own queue only, and leaves its loop with an empty  *)
(* one; only Await gives a frame a caller, and that frame is new.          *)
LEMMA WorkerTop ==
  ASSUME HandleInv, NEW k \in Contexts,
         WorkerLoop(k) \/ Body(k) \/ Complete(k)
         \/ \E t \in Tasks : Spawn(k, t)
  PROVE  TopQuiet
<1>1. /\ wpc \in [Contexts -> WorkerPCs]
      /\ task_queue_ \in [Contexts -> Seq(Tasks)]
      /\ frame \in [Tasks -> Frames]
      /\ caller_ \in [Tasks -> Tasks \cup {NoTask}]
  BY DEF HandleInv, HandleTypes, QueuesInv, Queues
<1>2. UNCHANGED hand
  BY DEF WorkerLoop, Body, Complete, Spawn, schedVars, submitVars
<1>3. \A j \in Contexts \ {k} :
        wpc'[j] = wpc[j] /\ task_queue_'[j] = task_queue_[j]
  BY <1>1 DEF WorkerLoop, PopBatch, ResumeNext, AfterResume, PollPrepare,
     UringSubmit, Reap, PollReturn, CanStop, WaitCheck, WaitBlock, Complete,
     Body, Finish, Release, WakeOne, Wake, Await, Yield, IoSuspendOnce, IoRead,
     IoWrite, Park, Suspending, Spawn, queuesE, GotoW, submit_task
<1>4. wpc'[k] = "none" \/ wpc'[k] = "exited" =>
        task_queue_'[k] = <<>>
  <2>1. CASE WorkerLoop(k)
    BY <1>1, <2>1 DEF WorkerLoop, PopBatch, ResumeNext, AfterResume,
       PollPrepare, UringSubmit, Reap, PollReturn, CanStop, WaitCheck,
       WaitBlock, QueuesEmpty, queuesE, GotoW
  <2>2. CASE Body(k) \/ Complete(k) \/ \E t \in Tasks : Spawn(k, t)
    BY <1>1, <2>2 DEF Complete, Body, Finish, Release, WakeOne, Wake, Await,
       Yield, IoSuspendOnce, IoRead, IoWrite, Park, Suspending, Spawn, Running,
       GotoW
  <2> QED BY <2>1, <2>2
<1>5. \A t \in Tasks : frame[t] = "live" => caller_'[t] \in {caller_[t], NoTask}
  <2>1. CASE WorkerLoop(k) \/ Complete(k) \/ \E t \in Tasks : Spawn(k, t)
    BY <2>1 DEF WorkerLoop, PopBatch, ResumeNext, AfterResume, PollPrepare,
       UringSubmit, Reap, PollReturn, CanStop, WaitCheck, WaitBlock, Complete,
       Spawn, coro
  <2>2. CASE Body(k)
    BY <1>1, <2>2 DEF Body, Finish, Release, WakeOne, Wake, Await, Yield,
       IoSuspendOnce, IoRead, IoWrite, Park, Suspending, Disowned
  <2> QED BY <2>1, <2>2
<1> QED BY <1>2, <1>3, <1>4, <1>5 DEF TopQuiet, Ended

(* Every step keeps the count of prepared entries a natural number. *)
LEMMA CountStep ==
  ASSUME HandleInv, CountInv, [CoreNext]_coreVars PROVE CountInv'
<1>1. CASE \E k \in Contexts : PollPrepare(k)
  <2>1. PICK k \in Contexts : PollPrepare(k)
    BY <1>1
  <2>2. PICK m, n \in Nat :
          pending_submit_count_' = [pending_submit_count_ EXCEPT ![k] = @ + m + n]
    <3> DEFINE r == Prefix(io_read_submit_queue_[k], BatchSize)
               b == BatchSize - Len(r)
    <3>1. io_read_submit_queue_[k] \in Seq(Tasks)
          /\ io_write_submit_queue_[k] \in Seq(Tasks)
      BY DEF HandleInv, QueuesInv, Queues
    <3>2. BatchSize \in Nat
      BY EngineBounds
    <3>3. Len(r) = Least(BatchSize, Len(io_read_submit_queue_[k]))
          /\ Len(io_read_submit_queue_[k]) \in Nat
      BY <3>1, <3>2, SplitLemma, LenProperties
    <3>4. Len(r) \in Nat /\ b \in Nat
      BY <3>2, <3>3 DEF Least
    <3>5. Len(Prefix(io_write_submit_queue_[k], b)) \in Nat
      BY <3>1, <3>4, RestLemma
    <3> QED BY <2>1, <3>4, <3>5 DEF PollPrepare
  <2> QED BY <2>2 DEF CountInv
<1>2. CASE \E k \in Contexts : UringSubmit(k)
  <2>1. PICK k \in Contexts : UringSubmit(k)
    BY <1>2
  <2>2. PICK n \in 1..pending_submit_count_[k] :
          pending_submit_count_' = [pending_submit_count_ EXCEPT ![k] = @ - n]
    BY <2>1 DEF UringSubmit
  <2> QED BY <2>2 DEF CountInv
<1>3. CASE UNCHANGED pending_submit_count_
  BY <1>3 DEF CountInv
<1>4. CASE \E k \in Contexts : Worker(k)
  BY <1>1, <1>2, <1>3, <1>4 DEF Worker, WorkerLoop, PopBatch, ResumeNext,
     AfterResume, Reap, PollReturn, CanStop, WaitCheck, WaitBlock, Complete,
     Body, Finish, Release, WakeOne, Wake, Await, Yield, IoSuspendOnce, IoRead,
     IoWrite, Park, Suspending, Nested, Spawn, SubmitNew, SubmitPush, kernel
<1>5. CASE \E u \in Threads : Starts(u) \/ Continue(u)
  BY <1>3, <1>5 DEF Starts, Continue, InitScheduler, Submit, SubmitNew,
     InlineEnd, RunsInlined, inlineOnly, Loop, Stop, SubmitPush, LoopCheck,
     LoopBlock, StopNotify, Shutdown, RequestStop, NotifyStop, Join, Return,
     threadOnly, engineVars, kernel
<1>6. CASE Surroundings \/ UNCHANGED coreVars
  BY <1>3, <1>6 DEF Surroundings, SpuriousWake, KernelComplete, LoopSpurious,
     coreVars, coreSched, threadOnly, engineVars, kernel
<1> QED BY <1>4, <1>5, <1>6 DEF CoreNext

(* The steps of init(), loop() and stop() that touch no handle. *)
Controls(u) ==
  \/ InitScheduler(u) \/ Loop(u) \/ Stop(u) \/ LoopCheck(u) \/ LoopBlock(u)
  \/ LoopSpurious(u) \/ StopNotify(u) \/ Shutdown(u) \/ RequestStop(u)
  \/ NotifyStop(u) \/ Return(u)
  \/ Join(u) /\ todo[u] # {First(todo[u])}

(* They keep the handles, and start a worker only where none runs. *)
LEMMA ControlHandle ==
  ASSUME ShutInv, HandleInv, TopInv, NEW u \in Threads, Controls(u)
  PROVE  HandleInv' /\ TopInv'
<1>1. HandleTypes
  BY DEF HandleInv
<1>2. UNCHANGED <<queuesE, sq, ring, cq, work_batch_, active, parked, frame,
                  caller_, hand>>
  BY DEF Controls, InitScheduler, Loop, Stop, LoopCheck, LoopBlock,
     LoopSpurious, StopNotify, Shutdown, RequestStop, NotifyStop, Return, Join,
     threadOnly, engineVars, queuesE, kernel, worker, batch, coro, submitVars
<1>3. \/ wpc' = wpc
      \/ \E k \in Contexts : wpc' = [wpc EXCEPT ![k] = Notified(k)]
      \/ /\ wpc' = [k \in Contexts |-> "pop"]
         /\ \A k \in Contexts : Ended(k)
  <2>1. CASE InitScheduler(u)
    BY <2>1 DEF InitScheduler, ShutInv
  <2>2. CASE NotifyStop(u)
    <3>1. todo[u] # {} /\ todo[u] \in SUBSET Contexts
      BY <2>2 DEF NotifyStop, ShutInv, ShutTypes, Ending
    <3>2. First(todo[u]) \in Contexts
      BY <3>1, FirstLemma
    <3> QED BY <2>2, <3>2 DEF NotifyStop, GotoW
  <2>3. CASE Controls(u) /\ ~InitScheduler(u) /\ ~NotifyStop(u)
    BY <2>3 DEF Controls, Loop, Stop, LoopCheck, LoopBlock, LoopSpurious,
       StopNotify, Shutdown, RequestStop, Return, Join, threadOnly, engineVars
  <2> QED BY <2>1, <2>2, <2>3
<1>4. /\ wpc' \in [Contexts -> WorkerPCs]
      /\ \A k \in Contexts : /\ wpc'[k] = "run" <=> wpc[k] = "run"
                             /\ Processing(k)' <=> Processing(k)
                             /\ Ended(k)' => Ended(k)
  BY <1>1, <1>3 DEF HandleTypes, WorkerPCs, Notified, Ended, Processing
<1>5. QuietHandles
  BY <1>1, <1>2, <1>4 DEF QuietHandles, HandleTypes
<1>6. TopQuiet
  BY <1>2, <1>4 DEF TopQuiet, queuesE
<1> QED BY <1>5, <1>6, QuietHandle, TopQuietStep

(* The last join() finds every worker at its end. *)
LEMMA LastJoinHandle ==
  ASSUME ShutInv, HandleInv, TopInv, NEW u \in Threads, Join(u),
         todo[u] = {First(todo[u])}
  PROVE  HandleInv' /\ TopInv'
<1>1. /\ tpc[u] = "join" /\ wpc[First(todo[u])] = "exited" /\ DestroyContexts
      /\ UNCHANGED <<io_waiting_queue_, io_read_submit_queue_,
                     io_write_submit_queue_, sq, ring, cq, work_batch_, parked,
                     caller_, active, wpc, hand>>
  BY DEF Join, kernel, worker, batch
<1>2. \A k \in Contexts : Ended(k)
  BY <1>1 DEF ShutInv, Ended
<1>3. TopQuiet
  BY <1>1 DEF TopQuiet, DestroyContexts
<1> QED BY <1>1, <1>2, <1>3, DestroyHandle, TopQuietStep

(* A thread outside the runtime keeps the handles in their places. *)
LEMMA ThreadHandle ==
  ASSUME ShutInv, HandleInv, TopInv, NEW u \in Threads,
         Starts(u) \/ Continue(u)
  PROVE  HandleInv' /\ TopInv'
<1>1. u \in Executors /\ contexts \subseteq Contexts
  BY DEF Executors, ShutInv
<1>2. CASE Submit(u)
  BY <1>1, <1>2, SubmitNewHandle, SubmitNewTop DEF Submit
<1>3. CASE SubmitPush(u)
  BY <1>1, <1>3, SubmitPushHandle, SubmitPushTop
<1>4. CASE InlineEnd(u)
  <2>1. "inner" \notin TaskCalls
    BY <1>4, InlineAssumption DEF InlineEnd, RunsInlined, Enter
  <2>2. TopQuiet
    BY <1>4 DEF InlineEnd, RunsInlined, inlineOnly, TopQuiet, queuesE,
       submitVars, Disowned, Ended, HandleInv, HandleTypes
  <2> QED BY <1>4, <2>1, <2>2, InlineHandle, TopQuietStep
<1>5. CASE Join(u)
  BY <1>5, ControlHandle, LastJoinHandle DEF Controls
<1>6. CASE InitScheduler(u) \/ Loop(u) \/ Stop(u) \/ LoopCheck(u)
           \/ LoopBlock(u) \/ StopNotify(u) \/ Shutdown(u) \/ RequestStop(u)
           \/ NotifyStop(u) \/ Return(u)
  BY <1>6, ControlHandle DEF Controls
<1> QED BY <1>2, <1>3, <1>4, <1>5, <1>6 DEF Starts, Continue

(* So does a worker. *)
LEMMA WorkerHandle ==
  ASSUME ShutInv, HandleInv, TopInv, CountInv, NEW k \in Contexts, Worker(k)
  PROVE  HandleInv' /\ TopInv'
<1>1. k \in Executors /\ contexts \subseteq Contexts
  BY DEF Executors, ShutInv
<1>2. CASE WorkerLoop(k)
  BY <1>2, LoopHandle, WorkerTop, TopQuietStep
<1>3. CASE Body(k)
  BY <1>3, BodyHandle, WorkerTop, TopQuietStep
<1>4. CASE Complete(k)
  <2>1. UNCHANGED hand
    BY <1>4 DEF Complete, submitVars
  <2> QED BY <1>4, <2>1, AfterHandle, WorkerTop, TopQuietStep
<1>5. CASE \E t \in Tasks : Spawn(k, t)
  BY <1>5, SpawnHandle, WorkerTop, TopQuietStep
<1>6. CASE \E t \in Tasks : SubmitNew(k, t)
  BY <1>1, <1>6, SubmitNewHandle, SubmitNewTop
<1>7. CASE SubmitPush(k)
  BY <1>1, <1>7, SubmitPushHandle, SubmitPushTop
<1> QED BY <1>2, <1>3, <1>4, <1>5, <1>6, <1>7 DEF Worker, Nested

(* So do the kernel and a spurious wakeup. *)
LEMMA EnvironmentHandle ==
  ASSUME ShutInv, HandleInv, TopInv, Surroundings
  PROVE  HandleInv' /\ TopInv'
<1>1. CASE \E u \in Threads : LoopSpurious(u)
  BY <1>1, ControlHandle DEF Controls
<1>2. CASE \E k \in Contexts :
             (SpuriousWake(k) \/ KernelComplete(k)) /\ UNCHANGED coreSched
  <2>1. PICK k \in Contexts :
          (SpuriousWake(k) \/ KernelComplete(k)) /\ UNCHANGED coreSched
    BY <1>2
  <2>2. UNCHANGED hand
    BY <2>1 DEF coreSched
  <2>3. HandleInv'
    BY <2>1, <2>2, IdleHandle, KernelHandle DEF Idles
  <2>4. /\ UNCHANGED <<task_queue_, caller_>>
        /\ wpc' = wpc \/ wpc' = [wpc EXCEPT ![k] = "wait"]
    BY <2>1 DEF SpuriousWake, KernelComplete, GotoW, queuesE, coro
  <2>5. TopQuiet
    BY <2>2, <2>4 DEF TopQuiet, Ended, HandleInv, HandleTypes
  <2> QED BY <2>3, <2>5, TopQuietStep
<1> QED BY <1>1, <1>2 DEF Surroundings, coreSched

(* At the start there is no frame and no handle. *)
LEMMA InitHandle ==
  ASSUME Init PROVE HandleInv /\ TopInv /\ CountInv
<1>1. /\ task_queue_ = [k \in Contexts |-> <<>>]
      /\ io_waiting_queue_ = [k \in Contexts |-> <<>>]
      /\ io_read_submit_queue_ = [k \in Contexts |-> <<>>]
      /\ io_write_submit_queue_ = [k \in Contexts |-> <<>>]
      /\ sq = [k \in Contexts |-> <<>>] /\ cq = [k \in Contexts |-> <<>>]
      /\ work_batch_ = [k \in Contexts |-> <<>>]
      /\ ring = [k \in Contexts |-> {}]
      /\ wpc = [k \in Contexts |-> "none"]
      /\ active = [k \in Contexts |-> NoTask]
      /\ frame = [t \in Tasks |-> "none"]
      /\ caller_ = [t \in Tasks |-> NoTask]
      /\ parked = {} /\ hand = [x \in Executors |-> NoTask]
      /\ pending_submit_count_ = [k \in Contexts |-> 0]
  BY DEF Init, EngineInit
<1>2. HandleTypes /\ WorkInv /\ CallerInv /\ CountInv
  BY <1>1 DEF HandleTypes, WorkInv, CallerInv, CountInv, WorkerPCs, Frames
<1>3. <<>> \in Seq(Tasks) /\ Range(<<>>) = {} /\ IsInjective(<<>>)
  BY EmptyQueueLemma
<1>4. QueuesInv
  BY <1>1, <1>3 DEF QueuesInv, Queues
<1>5. \A t \in Tasks : Nowhere(t)
  BY <1>1, <1>3, NoTaskAssumption DEF Nowhere, At
<1>6. \A t \in Tasks : HeldOnce(t)
  BY <1>1, <1>5 DEF HeldOnce
<1> QED BY <1>1, <1>2, <1>3, <1>4, <1>6 DEF HandleInv, TopInv

(* The invariant of the handles holds in every state. *)
LEMMA HandleHolds ==
  Spec => [](HandleInv /\ TopInv /\ CountInv)
<1> DEFINE Inv == HandleInv /\ TopInv /\ CountInv
<1>1. Init => Inv
  BY InitHandle
<1>2. ShutInv /\ Inv /\ [CoreNext]_coreVars => Inv'
  <2> SUFFICES ASSUME ShutInv, Inv, [CoreNext]_coreVars PROVE Inv'
    OBVIOUS
  <2>1. CountInv'
    BY CountStep
  <2>2. CASE UNCHANGED coreVars
    <3>1. QuietHandles /\ TopQuiet
      BY <2>2 DEF coreVars, coreSched, engineVars, schedVars, queuesE, kernel,
         worker, batch, coro, submitVars, QuietHandles, TopQuiet, HandleInv,
         HandleTypes, Processing, Ended
    <3> QED BY <2>1, <3>1, QuietHandle, TopQuietStep
  <2> QED BY <2>1, <2>2, WorkerHandle, ThreadHandle,
          EnvironmentHandle DEF CoreNext
<1> HIDE DEF Inv
<1>3. Spec => []Inv
  BY <1>1, <1>2, ShutHolds, CoreAlways, PTL DEF Spec
<1> QED BY <1>3 DEF Inv

(* The kinds of places in the order of Holders. *)
KindOf == <<"task", "waiting", "read", "write", "sq", "cq", "batch", "ring",
            "parked", "hand", "caller", "run">>

(* Holders lists the places that At describes. *)
LEMMA HoldersAt ==
  ASSUME HandleTypes, NEW t \in Tasks
  PROVE  /\ Len(Holders(t)) = 12
         /\ \A n \in 1..12 :
              Holders(t)[n] = {y \in Spots : At(t, KindOf[n], y)}
<1>1. Contexts \subseteq Spots /\ Executors \subseteq Spots
      /\ Tasks \subseteq Spots
  BY SpotsLemma
<1> DEFINE P(i) == {y \in Spots : At(t, i, y)}
<1>2. /\ P("task") = {k \in Contexts : t \in Range(task_queue_[k])}
      /\ P("waiting") = {k \in Contexts : t \in Range(io_waiting_queue_[k])}
      /\ P("read") = {k \in Contexts : t \in Range(io_read_submit_queue_[k])}
      /\ P("write") = {k \in Contexts : t \in Range(io_write_submit_queue_[k])}
  BY <1>1 DEF At
<1>3. /\ P("sq") = {k \in Contexts : t \in Range(sq[k])}
      /\ P("cq") = {k \in Contexts : t \in Range(cq[k])}
      /\ P("batch") = {k \in Contexts : t \in Range(work_batch_[k])}
      /\ P("ring") = {k \in Contexts : t \in ring[k]}
  BY <1>1 DEF At
<1>4. /\ P("parked") = parked \cap {t}
      /\ P("hand") = {x \in Executors : hand[x] = t}
      /\ P("caller") = {c \in Tasks : caller_[c] = t /\ frame[c] = "live"}
      /\ P("run") = {k \in Contexts : active[k] = t /\ wpc[k] = "run"}
  BY <1>1 DEF At, HandleTypes
<1> HIDE DEF P
<1>5. Holders(t) = << P("task"), P("waiting"), P("read"), P("write"), P("sq"),
                      P("cq"), P("batch"), P("ring"), P("parked"), P("hand"),
                      P("caller"), P("run") >>
  BY <1>2, <1>3, <1>4 DEF Holders
<1>6. \A n \in 1..12 : n \in {1, 2, 3, 4, 5, 6, 7, 8, 9, 10, 11, 12}
  OBVIOUS
<1>7. \A n \in 1..12 : Holders(t)[n] = P(KindOf[n])
  BY <1>5, <1>6 DEF KindOf
<1> QED BY <1>5, <1>7 DEF P

(* Each kind is listed, and only once. *)
LEMMA KindOfLemma ==
  /\ \A i \in Kinds : \E n \in 1..12 : KindOf[n] = i
  /\ \A n \in 1..12 : KindOf[n] \in Kinds
  /\ \A m, n \in 1..12 : KindOf[m] = KindOf[n] => m = n
<1>1. \A n \in 1..12 : n \in {1, 2, 3, 4, 5, 6, 7, 8, 9, 10, 11, 12}
  OBVIOUS
<1>2. \A i \in Kinds : \E n \in {1, 2, 3, 4, 5, 6, 7, 8, 9, 10, 11, 12} :
        KindOf[n] = i
  BY DEF Kinds, KindOf
<1>3. \A n \in {1, 2, 3, 4, 5, 6, 7, 8, 9, 10, 11, 12} : n \in 1..12
  OBVIOUS
<1> QED BY <1>1, <1>2, <1>3 DEF Kinds, KindOf

(* HandleHeldOnce of every scheduler that Scheduler models: a live frame's *)
(* handle is in exactly one queue, frame or worker, and no task queue      *)
(* holds a handle twice.                                                   *)
THEOREM SchedulerHandles ==
  Spec => []HandleHeldOnce
<1>1. HandleInv => HandleHeldOnce
  <2> SUFFICES ASSUME HandleInv, NEW t \in Tasks
               PROVE  /\ frame[t] = "live" =>
                           /\ \E i \in 1..Len(Holders(t)) :
                                Cardinality(Holders(t)[i]) = 1
                           /\ \A i, j \in 1..Len(Holders(t)) :
                                Holders(t)[i] # {} /\ Holders(t)[j] # {} =>
                                  i = j /\ Cardinality(Holders(t)[i]) = 1
                      /\ \A k \in Contexts : IsInjective(task_queue_[k])
    BY Zenon DEF HandleHeldOnce
  <2>1. \A k \in Contexts : IsInjective(task_queue_[k])
    BY DEF HandleInv, QueuesInv, Queues
  <2>2. ASSUME frame[t] = "live"
        PROVE  /\ \E i \in 1..12 : Cardinality(Holders(t)[i]) = 1
               /\ \A i, j \in 1..12 :
                    Holders(t)[i] # {} /\ Holders(t)[j] # {} =>
                      i = j /\ Cardinality(Holders(t)[i]) = 1
    <3>1. PICK c \in Kinds, x \in Spots : OnlyAt(t, c, x)
      BY <2>2 DEF HandleInv, HeldOnce
    <3>2. \A n \in 1..12 : Holders(t)[n] = {y \in Spots : At(t, KindOf[n], y)}
      BY HoldersAt DEF HandleInv
    <3>3. \A n \in 1..12 : Holders(t)[n] = IF KindOf[n] = c THEN {x} ELSE {}
      <4> TAKE n \in 1..12
      <4>1. /\ KindOf[n] \in Kinds
            /\ Holders(t)[n] = {y \in Spots : At(t, KindOf[n], y)}
        BY <3>2, KindOfLemma
      <4>2. \A y \in Spots : At(t, KindOf[n], y) <=> KindOf[n] = c /\ y = x
        BY <3>1, <4>1 DEF OnlyAt
      <4> QED BY <4>1, <4>2
    <3>4. Cardinality({x}) = 1
      BY FS_Singleton
    <3>5. PICK n \in 1..12 : KindOf[n] = c
      BY KindOfLemma
    <3>6. \A i \in 1..12 : Holders(t)[i] # {} => i = n
      BY <3>3, <3>5, KindOfLemma
    <3> QED BY <3>3, <3>4, <3>5, <3>6
  <2>3. Len(Holders(t)) = 12
    BY HoldersAt DEF HandleInv
  <2> QED BY <2>1, <2>2, <2>3
<1> QED BY <1>1, HandleHolds, PTL
----------------------------------------------------------------------------
(* Operations in flight *)

(* As many elements as there are places, when none is repeated. *)
LEMMA RangeCount ==
  ASSUME NEW S, NEW q \in Seq(S), IsInjective(q)
  PROVE  IsFiniteSet(Range(q)) /\ Cardinality(Range(q)) = Len(q)
<1>1. Len(q) \in Nat /\ DOMAIN q = 1..Len(q) /\ q \in [1..Len(q) -> S]
  BY LenProperties
<1>2. q \in [1..Len(q) -> Range(q)]
  BY <1>1 DEF Range
<1>3. \A y \in Range(q) : \E i \in 1..Len(q) : q[i] = y
  BY <1>1 DEF Range
<1>4. ExistsBijection(1..Len(q), Range(q))
  BY <1>2, <1>3 DEF ExistsBijection, Bijection, Injection, Surjection
<1>5. IsFiniteSet(1..Len(q)) /\ Cardinality(1..Len(q)) = Len(q)
  BY <1>1, FS_Interval
<1> QED BY <1>4, <1>5, FS_Bijection

(* The operations of context k that have not been handed back. *)
Asked(k) ==
  Len(io_waiting_queue_[k]) + Len(io_read_submit_queue_[k])
  + Len(io_write_submit_queue_[k])
  + Len(sq[k]) + Cardinality(ring[k]) + Len(cq[k])
InflightInv ==
  /\ inflight_io_ \in [Contexts -> Int]
  /\ \A k \in Contexts : IsFiniteSet(ring[k]) /\ inflight_io_[k] = Asked(k)

(* Each part of the sum is a natural number. *)
LEMMA AskedNat ==
  ASSUME HandleInv, InflightInv, NEW k \in Contexts
  PROVE  /\ Len(io_waiting_queue_[k]) \in Nat
         /\ Len(io_read_submit_queue_[k]) \in Nat
         /\ Len(io_write_submit_queue_[k]) \in Nat
         /\ Len(sq[k]) \in Nat /\ Cardinality(ring[k]) \in Nat
         /\ Len(cq[k]) \in Nat
<1>1. /\ Len(io_waiting_queue_[k]) \in Nat
      /\ Len(io_read_submit_queue_[k]) \in Nat
      /\ Len(io_write_submit_queue_[k]) \in Nat
      /\ Len(sq[k]) \in Nat /\ Len(cq[k]) \in Nat
  BY LenProperties DEF HandleInv, QueuesInv, Queues
<1>2. Cardinality(ring[k]) \in Nat
  BY FS_CardinalityType DEF InflightInv
<1> QED BY <1>1, <1>2

(* The parts of the sum of context k grow by these numbers. *)
Grows(k, a, b, c, d, e, f) ==
  /\ a \in Int /\ b \in Int /\ c \in Int /\ d \in Int /\ e \in Int /\ f \in Int
  /\ Len(io_waiting_queue_'[k]) = Len(io_waiting_queue_[k]) + a
  /\ Len(io_read_submit_queue_'[k]) = Len(io_read_submit_queue_[k]) + b
  /\ Len(io_write_submit_queue_'[k]) = Len(io_write_submit_queue_[k]) + c
  /\ Len(sq'[k]) = Len(sq[k]) + d
  /\ Cardinality(ring'[k]) = Cardinality(ring[k]) + e
  /\ Len(cq'[k]) = Len(cq[k]) + f

(* Then the sum grows by all of them. *)
LEMMA AskedGrows ==
  ASSUME HandleInv, InflightInv, NEW k \in Contexts,
         NEW a, NEW b, NEW c, NEW d, NEW e, NEW f, Grows(k, a, b, c, d, e, f)
  PROVE  Asked(k)' = Asked(k) + (a + b + c + d + e + f)
<1>1. PICK p \in Nat : p = Len(io_waiting_queue_[k])
  BY AskedNat
<1>2. PICK q \in Nat : q = Len(io_read_submit_queue_[k])
  BY AskedNat
<1>3. PICK r \in Nat : r = Len(io_write_submit_queue_[k])
  BY AskedNat
<1>4. PICK s \in Nat : s = Len(sq[k])
  BY AskedNat
<1>5. PICK t \in Nat : t = Cardinality(ring[k])
  BY AskedNat
<1>6. PICK u \in Nat : u = Len(cq[k])
  BY AskedNat
<1>7. Asked(k)' = (p + a) + (q + b) + (r + c) + (s + d) + (t + e) + (u + f)
  BY <1>1, <1>2, <1>3, <1>4, <1>5, <1>6 DEF Asked, Grows
<1>8. Asked(k) = p + q + r + s + t + u
  BY <1>1, <1>2, <1>3, <1>4, <1>5, <1>6 DEF Asked
<1>9. a \in Int /\ b \in Int /\ c \in Int /\ d \in Int /\ e \in Int /\ f \in Int
  BY DEF Grows
<1>10. (p + a) + (q + b) + (r + c) + (s + d) + (t + e) + (u + f)
       = (p + q + r + s + t + u) + (a + b + c + d + e + f)
  BY ONLY <1>9, p \in Nat, q \in Nat, r \in Nat, s \in Nat, t \in Nat, u \in Nat
<1> QED BY <1>7, <1>8, <1>10

(* Nothing of the other contexts changes, and on context k the count is    *)
(* exact again.                                                            *)
AsksFor(k) ==
  /\ inflight_io_' \in [Contexts -> Int]
  /\ \A j \in Contexts \ {k} :
       /\ inflight_io_'[j] = inflight_io_[j]
       /\ io_waiting_queue_'[j] = io_waiting_queue_[j]
       /\ io_read_submit_queue_'[j] = io_read_submit_queue_[j]
       /\ io_write_submit_queue_'[j] = io_write_submit_queue_[j]
       /\ sq'[j] = sq[j] /\ ring'[j] = ring[j] /\ cq'[j] = cq[j]
  /\ IsFiniteSet(ring'[k]) /\ inflight_io_'[k] = Asked(k)'

(* Then the count is exact for each of them. *)
LEMMA AskStep ==
  ASSUME InflightInv, NEW k \in Contexts, AsksFor(k)
  PROVE  InflightInv'
<1>1. \A j \in Contexts \ {k} :
        IsFiniteSet(ring'[j]) /\ inflight_io_'[j] = Asked(j)'
  BY DEF InflightInv, AsksFor, Asked
<1> QED BY <1>1 DEF InflightInv, AsksFor

(* A push makes a queue longer by one. *)
Pushed(q, r, k, h) == r = [q EXCEPT ![k] = Append(@, h)]

(* The other queues keep their lengths.                                    *)
LEMMA PushLen ==
  ASSUME NEW q, Queues(q), NEW k \in Contexts, NEW h \in Tasks, NEW r,
         Pushed(q, r, k, h)
  PROVE  /\ Len(q[k]) \in Nat /\ Len(r[k]) = Len(q[k]) + 1
         /\ \A j \in Contexts \ {k} : r[j] = q[j]
<1>1. q \in [Contexts -> Seq(Tasks)] /\ q[k] \in Seq(Tasks)
  BY DEF Queues
<1>2. Len(q[k]) \in Nat /\ Len(Append(q[k], h)) = Len(q[k]) + 1
  BY <1>1, AppendProperties, LenProperties
<1> QED BY <1>1, <1>2 DEF Pushed

(* A suspension for I/O pushes the handle to one queue and counts it. *)
LEMMA SuspendAsks ==
  ASSUME HandleInv, InflightInv, NEW k \in Contexts,
         IoSuspendOnce(k) \/ IoRead(k) \/ IoWrite(k)
  PROVE  InflightInv'
<1>1. /\ inflight_io_' = [inflight_io_ EXCEPT ![k] = @ + 1]
      /\ UNCHANGED <<sq, ring, cq>> /\ Running(k)
  BY DEF IoSuspendOnce, IoRead, IoWrite, Suspending, kernel,
     on_io_inflight_begin
<1>2. PICK h \in Tasks : h = active[k]
  BY <1>1 DEF HandleInv, WorkInv, Running
<1>3. /\ Queues(io_waiting_queue_) /\ Queues(io_read_submit_queue_)
      /\ Queues(io_write_submit_queue_)
  BY DEF HandleInv, QueuesInv
<1>4. IsFiniteSet(ring'[k])
  BY <1>1 DEF InflightInv
<1>5. /\ Len(io_waiting_queue_[k]) \in Nat
      /\ Len(io_read_submit_queue_[k]) \in Nat
      /\ Len(io_write_submit_queue_[k]) \in Nat
      /\ Len(sq[k]) \in Nat /\ Cardinality(ring[k]) \in Nat
      /\ Len(cq[k]) \in Nat
  BY AskedNat
<1>6. CASE IoSuspendOnce(k)
  <2>1. /\ io_waiting_queue_' = [io_waiting_queue_ EXCEPT ![k] = Append(@, h)]
        /\ UNCHANGED <<io_read_submit_queue_, io_write_submit_queue_>>
    BY <1>2, <1>6 DEF IoSuspendOnce
  <2>2. /\ Len(io_waiting_queue_'[k]) = Len(io_waiting_queue_[k]) + 1
        /\ \A j \in Contexts \ {k} :
             io_waiting_queue_'[j] = io_waiting_queue_[j]
    <3>1. Pushed(io_waiting_queue_, io_waiting_queue_', k, h)
      BY <2>1 DEF Pushed
    <3> QED BY <1>3, <3>1, PushLen
  <2>3. Grows(k, 1, 0, 0, 0, 0, 0)
    BY <1>1, <1>5, <2>1, <2>2 DEF Grows
  <2>4. Asked(k)' = Asked(k) + (1 + 0 + 0 + 0 + 0 + 0)
    BY <2>3, AskedGrows
  <2>5. inflight_io_'[k] = Asked(k)'
    BY <1>1, <2>4 DEF InflightInv
  <2>6. AsksFor(k)
    BY <1>1, <1>4, <2>1, <2>2, <2>5 DEF AsksFor, InflightInv
  <2> QED BY <2>6, AskStep
<1>7. CASE IoRead(k)
  <2>1. /\ io_read_submit_queue_' = [io_read_submit_queue_ EXCEPT ![k] = Append(@, h)]
        /\ UNCHANGED <<io_waiting_queue_, io_write_submit_queue_>>
    BY <1>2, <1>7 DEF IoRead
  <2>2. /\ Len(io_read_submit_queue_'[k]) = Len(io_read_submit_queue_[k]) + 1
        /\ \A j \in Contexts \ {k} :
             io_read_submit_queue_'[j] = io_read_submit_queue_[j]
    <3>1. Pushed(io_read_submit_queue_, io_read_submit_queue_', k, h)
      BY <2>1 DEF Pushed
    <3> QED BY <1>3, <3>1, PushLen
  <2>3. Grows(k, 0, 1, 0, 0, 0, 0)
    BY <1>1, <1>5, <2>1, <2>2 DEF Grows
  <2>4. Asked(k)' = Asked(k) + (0 + 1 + 0 + 0 + 0 + 0)
    BY <2>3, AskedGrows
  <2>5. inflight_io_'[k] = Asked(k)'
    BY <1>1, <2>4 DEF InflightInv
  <2>6. AsksFor(k)
    BY <1>1, <1>4, <2>1, <2>2, <2>5 DEF AsksFor, InflightInv
  <2> QED BY <2>6, AskStep
<1>8. CASE IoWrite(k)
  <2>1. /\ io_write_submit_queue_' = [io_write_submit_queue_ EXCEPT ![k] = Append(@, h)]
        /\ UNCHANGED <<io_waiting_queue_, io_read_submit_queue_>>
    BY <1>2, <1>8 DEF IoWrite
  <2>2. /\ Len(io_write_submit_queue_'[k]) = Len(io_write_submit_queue_[k]) + 1
        /\ \A j \in Contexts \ {k} :
             io_write_submit_queue_'[j] = io_write_submit_queue_[j]
    <3>1. Pushed(io_write_submit_queue_, io_write_submit_queue_', k, h)
      BY <2>1 DEF Pushed
    <3> QED BY <1>3, <3>1, PushLen
  <2>3. Grows(k, 0, 0, 1, 0, 0, 0)
    BY <1>1, <1>5, <2>1, <2>2 DEF Grows
  <2>4. Asked(k)' = Asked(k) + (0 + 0 + 1 + 0 + 0 + 0)
    BY <2>3, AskedGrows
  <2>5. inflight_io_'[k] = Asked(k)'
    BY <1>1, <2>4 DEF InflightInv
  <2>6. AsksFor(k)
    BY <1>1, <1>4, <2>1, <2>2, <2>5 DEF AsksFor, InflightInv
  <2> QED BY <2>6, AskStep
<1> QED BY <1>6, <1>7, <1>8

(* A completion moves an operation from the kernel to the completion       *)
(* queue.                                                                  *)
LEMMA KernelAsks ==
  ASSUME HandleInv, InflightInv, NEW k \in Contexts, KernelComplete(k)
  PROVE  InflightInv'
<1>1. PICK t \in ring[k] : /\ ring' = [ring EXCEPT ![k] = @ \ {t}]
                           /\ cq' = [cq EXCEPT ![k] = Append(@, t)]
  BY DEF KernelComplete
<1>2. UNCHANGED <<io_waiting_queue_, io_read_submit_queue_,
                  io_write_submit_queue_, sq, inflight_io_>>
  BY DEF KernelComplete, queuesE, counters
<1>3. ring \in [Contexts -> SUBSET Tasks] /\ t \in Tasks /\ Queues(cq)
  BY <1>1 DEF HandleInv, HandleTypes, QueuesInv
<1>4. Pushed(cq, cq', k, t)
  BY <1>1 DEF Pushed
<1>5. Len(cq'[k]) = Len(cq[k]) + 1 /\ \A j \in Contexts \ {k} : cq'[j] = cq[j]
  BY <1>3, <1>4, PushLen
<1>6. /\ IsFiniteSet(ring'[k])
      /\ Cardinality(ring'[k]) = Cardinality(ring[k]) - 1
      /\ \A j \in Contexts \ {k} : ring'[j] = ring[j]
  <2>1. IsFiniteSet(ring[k]) /\ ring'[k] = ring[k] \ {t}
    BY <1>1, <1>3 DEF InflightInv
  <2>2. IsFiniteSet(ring[k] \ {t})
        /\ Cardinality(ring[k] \ {t}) = Cardinality(ring[k]) - 1
    BY <1>1, <2>1, FS_RemoveElement
  <2> QED BY <1>1, <1>3, <2>1, <2>2
<1>7. /\ Len(io_waiting_queue_[k]) \in Nat
      /\ Len(io_read_submit_queue_[k]) \in Nat
      /\ Len(io_write_submit_queue_[k]) \in Nat
      /\ Len(sq[k]) \in Nat /\ Cardinality(ring[k]) \in Nat
      /\ Len(cq[k]) \in Nat
  BY AskedNat
<1>8. Grows(k, 0, 0, 0, 0, -1, 1)
  BY <1>2, <1>5, <1>6, <1>7 DEF Grows
<1>9. Asked(k)' = Asked(k) + 0
  <2>1. Asked(k)' = Asked(k) + (0 + 0 + 0 + 0 + (-1) + 1)
    BY <1>8, AskedGrows
  <2>2. 0 + 0 + 0 + 0 + (-1) + 1 = 0
    BY ONLY TRUE
  <2> QED BY ONLY <2>1, <2>2
<1>10. inflight_io_' = [inflight_io_ EXCEPT ![k] = @ + 0]
  BY <1>2 DEF InflightInv
<1>11. inflight_io_'[k] = Asked(k)'
  BY <1>9, <1>10 DEF InflightInv
<1>12. AsksFor(k)
  BY <1>2, <1>5, <1>6, <1>10, <1>11 DEF AsksFor, InflightInv
<1> QED BY <1>12, AskStep

(* try_wait_one takes a completion, and the count goes down with it. *)
LEMMA ReapAsks ==
  ASSUME HandleInv, InflightInv, NEW k \in Contexts, Reap(k)
  PROVE  InflightInv'
<1>1. /\ cq[k] # <<>> /\ cq' = [cq EXCEPT ![k] = Tail(@)]
      /\ inflight_io_' = [inflight_io_ EXCEPT ![k] = @ - 1]
      /\ UNCHANGED <<io_waiting_queue_, io_read_submit_queue_,
                     io_write_submit_queue_, sq, ring>>
  BY DEF Reap, uring_try_wait_one, on_io_inflight_end
<1>2. cq \in [Contexts -> Seq(Tasks)]
  BY DEF HandleInv, QueuesInv, Queues
<1>3. cq[k] \in Seq(Tasks)
  BY <1>2
<1>4. Len(Tail(cq[k])) = Len(cq[k]) - 1
  BY <1>1, <1>3, HeadTailProperties
<1>5. /\ Len(io_waiting_queue_[k]) \in Nat
      /\ Len(io_read_submit_queue_[k]) \in Nat
      /\ Len(io_write_submit_queue_[k]) \in Nat
      /\ Len(sq[k]) \in Nat /\ Cardinality(ring[k]) \in Nat
      /\ Len(cq[k]) \in Nat
  BY AskedNat
<1>6. Len(cq'[k]) = Len(cq[k]) + (-1) /\ \A j \in Contexts \ {k} : cq'[j] = cq[j]
  BY <1>1, <1>2, <1>4, <1>5
<1>7. Grows(k, 0, 0, 0, 0, 0, -1)
  BY <1>1, <1>5, <1>6 DEF Grows
<1>8. Asked(k)' = Asked(k) + (-1)
  <2>1. Asked(k)' = Asked(k) + (0 + 0 + 0 + 0 + 0 + (-1))
    BY <1>7, AskedGrows
  <2>2. 0 + 0 + 0 + 0 + 0 + (-1) = -1
    BY ONLY TRUE
  <2> QED BY ONLY <2>1, <2>2
<1>9. inflight_io_' = [inflight_io_ EXCEPT ![k] = @ + (-1)]
  BY <1>1 DEF InflightInv
<1>10. inflight_io_'[k] = Asked(k)'
  BY <1>8, <1>9 DEF InflightInv
<1>11. AsksFor(k)
  BY <1>1, <1>6, <1>9, <1>10 DEF AsksFor, InflightInv
<1> QED BY <1>11, AskStep

(* uring_.submit passes prepared entries on to the kernel: no handle is    *)
(* prepared twice, or prepared and in the kernel's hands.                  *)
LEMMA UringAsks ==
  ASSUME HandleInv, InflightInv, CountInv, NEW k \in Contexts, UringSubmit(k)
  PROVE  InflightInv'
<1>1. PICK n \in Nat :
        /\ ring' = [ring EXCEPT ![k] = @ \cup Range(Prefix(sq[k], n))]
        /\ sq' = [sq EXCEPT ![k] = Rest(@, n)]
  <2>1. pending_submit_count_[k] \in Nat
    BY DEF CountInv
  <2>2. \A n \in 1..pending_submit_count_[k] : n \in Nat
    BY <2>1
  <2>3. PICK n \in 1..pending_submit_count_[k] : uring_submit(k, n)
    BY DEF UringSubmit
  <2> QED BY <2>2, <2>3 DEF uring_submit
<1>2. UNCHANGED <<io_waiting_queue_, io_read_submit_queue_,
                  io_write_submit_queue_, cq, inflight_io_>>
  BY DEF UringSubmit, queuesE, counters
<1>3. /\ ring \in [Contexts -> SUBSET Tasks]
      /\ sq \in [Contexts -> Seq(Tasks)] /\ IsInjective(sq[k])
  BY DEF HandleInv, HandleTypes, QueuesInv, Queues
<1>4. PICK p \in Seq(Tasks) : p = Prefix(sq[k], n)
  BY <1>3, SplitLemma
<1>5. PICK l \in Nat : /\ Len(p) = l /\ Len(Rest(sq[k], n)) = Len(sq[k]) - l
                       /\ IsInjective(p) /\ Range(p) \subseteq Range(sq[k])
  <2>1. sq[k] \in Seq(Tasks) /\ Len(p) \in Nat
    BY <1>3, <1>4, LenProperties
  <2>2. /\ Len(p) = Least(n, Len(sq[k]))
        /\ Len(Rest(sq[k], n)) = Len(sq[k]) - Least(n, Len(sq[k]))
        /\ IsInjective(p) /\ Range(p) \subseteq Range(sq[k])
    BY <1>3, <1>4, <2>1, SplitLemma
  <2> QED BY <2>1, <2>2
<1>6. ring[k] \cap Range(p) = {}
  <2> SUFFICES ASSUME NEW t \in ring[k], t \in Range(p) PROVE FALSE
    OBVIOUS
  <2>1. t \in Tasks /\ k \in Spots /\ "ring" \in Kinds /\ "sq" \in Kinds
    BY <1>3, SpotsLemma DEF Kinds
  <2>2. At(t, "ring", k) /\ At(t, "sq", k)
    BY <1>5 DEF At
  <2> QED BY <2>1, <2>2, Elsewhere
<1>7. /\ IsFiniteSet(ring'[k])
      /\ Cardinality(ring'[k]) = Cardinality(ring[k]) + l
      /\ \A j \in Contexts \ {k} : ring'[j] = ring[j]
  <2>1. IsFiniteSet(ring[k]) /\ ring'[k] = ring[k] \cup Range(p)
    BY <1>1, <1>3, <1>4 DEF InflightInv
  <2>2. IsFiniteSet(Range(p)) /\ Cardinality(Range(p)) = l
    BY <1>5, RangeCount
  <2>3. Cardinality(ring[k]) \in Nat /\ Cardinality(ring[k] \cap Range(p)) = 0
    BY <1>6, <2>1, FS_EmptySet, FS_CardinalityType
  <2>4. /\ IsFiniteSet(ring[k] \cup Range(p))
        /\ Cardinality(ring[k] \cup Range(p))
             = Cardinality(ring[k]) + Cardinality(Range(p))
               - Cardinality(ring[k] \cap Range(p))
    BY <2>1, <2>2, FS_Union
  <2>5. Cardinality(ring[k] \cup Range(p)) = Cardinality(ring[k]) + l
    BY <2>2, <2>3, <2>4
  <2> QED BY <1>1, <1>3, <2>1, <2>4, <2>5
<1>8. /\ Len(io_waiting_queue_[k]) \in Nat
      /\ Len(io_read_submit_queue_[k]) \in Nat
      /\ Len(io_write_submit_queue_[k]) \in Nat
      /\ Len(sq[k]) \in Nat /\ Cardinality(ring[k]) \in Nat
      /\ Len(cq[k]) \in Nat
  BY AskedNat
<1>9. Len(sq'[k]) = Len(sq[k]) + (-l) /\ \A j \in Contexts \ {k} : sq'[j] = sq[j]
  BY <1>1, <1>3, <1>5, <1>8
<1>10. Grows(k, 0, 0, 0, -l, l, 0)
  BY <1>2, <1>7, <1>8, <1>9 DEF Grows
<1>11. Asked(k)' = Asked(k) + 0
  <2>1. Asked(k)' = Asked(k) + (0 + 0 + 0 + (-l) + l + 0)
    BY <1>10, AskedGrows
  <2>2. 0 + 0 + 0 + (-l) + l + 0 = 0
    BY ONLY l \in Nat
  <2> QED BY ONLY <2>1, <2>2
<1>13. inflight_io_' = [inflight_io_ EXCEPT ![k] = @ + 0]
  BY <1>2 DEF InflightInv
<1>14. inflight_io_'[k] = Asked(k)'
  BY <1>11, <1>13 DEF InflightInv
<1>15. AsksFor(k)
  BY <1>2, <1>7, <1>9, <1>13, <1>14 DEF AsksFor, InflightInv
<1> QED BY <1>15, AskStep

(* pop_batch on one of the queues: what is taken and what is left. *)
LEMMA TakeLen ==
  ASSUME NEW q \in Seq(Tasks), NEW n \in Nat
  PROVE  \E l \in Nat : /\ Len(Prefix(q, n)) = l
                        /\ l <= n
                        /\ Len(Rest(q, n)) = Len(q) + (-l)
                        /\ Len(Rest(q, l)) = Len(q) + (-l)
<1>1. PICK m \in Nat : m = Len(q)
  BY LenProperties
<1>2. PICK l \in Nat : l = Least(n, m) /\ l <= m /\ l <= n /\ Least(l, m) = l
  <2>1. Least(n, m) \in Nat /\ Least(n, m) <= m /\ Least(n, m) <= n
        /\ Least(Least(n, m), m) = Least(n, m)
    BY DEF Least
  <2> QED BY <2>1
<1>3. /\ Len(Prefix(q, n)) = l /\ Len(Rest(q, n)) = m - l
      /\ Len(Rest(q, l)) = m - l
  BY <1>1, <1>2, SplitLemma
<1>4. m - l = m + (-l)
  OBVIOUS
<1> QED BY <1>1, <1>2, <1>3, <1>4

(* poll_io hands back the suspend-once waiters and takes them off the      *)
(* count; the reads and writes it prepares stay counted.                   *)
LEMMA PollAsks ==
  ASSUME HandleInv, InflightInv, NEW k \in Contexts, PollPrepare(k)
  PROVE  InflightInv'
<1> DEFINE w == Prefix(io_waiting_queue_[k], BatchSize)
           r == Prefix(io_read_submit_queue_[k], BatchSize)
           wr == Prefix(io_write_submit_queue_[k], BatchSize - Len(r))
<1>1. /\ io_waiting_queue_' = [io_waiting_queue_ EXCEPT ![k] = Rest(@, BatchSize)]
      /\ io_read_submit_queue_' =
           [io_read_submit_queue_ EXCEPT ![k] = Rest(@, BatchSize)]
      /\ io_write_submit_queue_' =
           [io_write_submit_queue_ EXCEPT ![k] = Rest(@, Len(wr))]
      /\ sq' = [sq EXCEPT ![k] = @ \o (r \o wr)]
      /\ inflight_io_' = [inflight_io_ EXCEPT ![k] = @ - Len(w)]
      /\ UNCHANGED <<ring, cq>>
  BY DEF PollPrepare, uring_prepare, on_io_inflight_end
<1>2. /\ io_waiting_queue_ \in [Contexts -> Seq(Tasks)]
      /\ io_read_submit_queue_ \in [Contexts -> Seq(Tasks)]
      /\ io_write_submit_queue_ \in [Contexts -> Seq(Tasks)]
      /\ sq \in [Contexts -> Seq(Tasks)]
  BY DEF HandleInv, QueuesInv, Queues
<1>3. /\ io_waiting_queue_[k] \in Seq(Tasks)
      /\ io_read_submit_queue_[k] \in Seq(Tasks)
      /\ io_write_submit_queue_[k] \in Seq(Tasks) /\ sq[k] \in Seq(Tasks)
      /\ BatchSize \in Nat
  BY <1>2, EngineBounds
<1>4. PICK a \in Nat : /\ Len(w) = a
                       /\ Len(Rest(io_waiting_queue_[k], BatchSize))
                            = Len(io_waiting_queue_[k]) + (-a)
  BY <1>3, TakeLen
<1>5. PICK b \in Nat : /\ Len(r) = b /\ b <= BatchSize
                       /\ Len(Rest(io_read_submit_queue_[k], BatchSize))
                            = Len(io_read_submit_queue_[k]) + (-b)
  BY <1>3, TakeLen
<1>6. BatchSize - Len(r) \in Nat
  BY <1>3, <1>5
<1>7. PICK c \in Nat : /\ Len(wr) = c
                       /\ Len(Rest(io_write_submit_queue_[k], Len(wr)))
                            = Len(io_write_submit_queue_[k]) + (-c)
  <2>1. PICK n \in Nat : n = BatchSize - Len(r)
    BY <1>6
  <2>2. wr = Prefix(io_write_submit_queue_[k], n)
    BY <2>1
  <2> HIDE DEF wr, r, w
  <2>3. PICK q \in Seq(Tasks) : q = io_write_submit_queue_[k]
    BY <1>3
  <2>4. PICK l \in Nat : Len(Prefix(q, n)) = l /\ Len(Rest(q, l)) = Len(q) + (-l)
    BY TakeLen
  <2> QED BY <2>2, <2>3, <2>4
<1>8. r \in Seq(Tasks) /\ wr \in Seq(Tasks)
  BY <1>3, <1>6, SplitLemma
<1> HIDE DEF w, r, wr
<1>9. r \o wr \in Seq(Tasks) /\ Len(r \o wr) = b + c
  BY <1>5, <1>7, <1>8, ConcatProperties
<1>10. Len(sq[k] \o (r \o wr)) = Len(sq[k]) + (b + c)
  <2>1. PICK v \in Seq(Tasks) : v = r \o wr /\ Len(v) = b + c
    BY <1>9
  <2>2. Len(sq[k] \o v) = Len(sq[k]) + Len(v)
    BY <1>3, ConcatProperties
  <2> QED BY <2>1, <2>2
<1>11. /\ Len(io_waiting_queue_[k]) \in Nat
       /\ Len(io_read_submit_queue_[k]) \in Nat
       /\ Len(io_write_submit_queue_[k]) \in Nat
       /\ Len(sq[k]) \in Nat /\ Cardinality(ring[k]) \in Nat
       /\ Len(cq[k]) \in Nat
  BY AskedNat
<1>12. /\ Len(io_waiting_queue_'[k]) = Len(io_waiting_queue_[k]) + (-a)
       /\ Len(io_read_submit_queue_'[k]) = Len(io_read_submit_queue_[k]) + (-b)
       /\ Len(io_write_submit_queue_'[k]) = Len(io_write_submit_queue_[k]) + (-c)
       /\ Len(sq'[k]) = Len(sq[k]) + (b + c)
  BY <1>1, <1>2, <1>4, <1>5, <1>7, <1>10
<1>13. Grows(k, -a, -b, -c, b + c, 0, 0)
  <2>1. Cardinality(ring'[k]) = Cardinality(ring[k]) + 0
        /\ Len(cq'[k]) = Len(cq[k]) + 0
    BY <1>1, <1>11
  <2>2. -a \in Int /\ -b \in Int /\ -c \in Int /\ b + c \in Int /\ 0 \in Int
    OBVIOUS
  <2> QED BY <1>12, <2>1, <2>2 DEF Grows
<1>14. Asked(k)' = Asked(k) + (-a)
  <2>1. Asked(k)' = Asked(k) + ((-a) + (-b) + (-c) + (b + c) + 0 + 0)
    BY <1>13, AskedGrows
  <2>2. (-a) + (-b) + (-c) + (b + c) + 0 + 0 = -a
    BY ONLY a \in Nat, b \in Nat, c \in Nat
  <2> QED BY ONLY <2>1, <2>2
<1>16. inflight_io_' = [inflight_io_ EXCEPT ![k] = @ + (-a)]
  BY <1>1, <1>4 DEF InflightInv
<1>17. inflight_io_'[k] = Asked(k)'
  BY <1>14, <1>16 DEF InflightInv
<1>18. AsksFor(k)
  BY <1>1, <1>2, <1>16, <1>17 DEF AsksFor, InflightInv
<1> QED BY <1>18, AskStep

(* The count of a context is changed by these steps of its worker alone. *)
LEMMA InflightStep ==
  ASSUME HandleInv, CountInv, InflightInv, [CoreNext]_coreVars PROVE InflightInv'
<1>1. CASE UNCHANGED <<io_waiting_queue_, io_read_submit_queue_,
                       io_write_submit_queue_, sq, ring, cq, inflight_io_>>
  BY <1>1 DEF InflightInv, Asked
<1>2. CASE \E k \in Contexts : Worker(k)
  <2>1. PICK k \in Contexts : Worker(k)
    BY <1>2
  <2>2. CASE IoSuspendOnce(k) \/ IoRead(k) \/ IoWrite(k)
    BY <2>2, SuspendAsks
  <2>3. CASE PollPrepare(k) \/ UringSubmit(k) \/ Reap(k)
    BY <2>3, PollAsks, UringAsks, ReapAsks
  <2> QED BY <1>1, <2>1, <2>2, <2>3 DEF Worker, WorkerLoop, PopBatch,
          ResumeNext, AfterResume, PollReturn, CanStop, WaitCheck, WaitBlock,
          Complete, Body, Finish, Release, WakeOne, Wake, Await, Yield, Park,
          Suspending, Nested, Spawn, SubmitNew, SubmitPush, kernel, queuesE,
          counters
<1>3. CASE \E u \in Threads : Starts(u) \/ Continue(u)
  BY <1>1, <1>3 DEF Starts, Continue, InitScheduler, Submit, SubmitNew,
     InlineEnd, RunsInlined, inlineOnly, Loop, Stop, SubmitPush, LoopCheck,
     LoopBlock, StopNotify, Shutdown, RequestStop, NotifyStop, Join, Return,
     threadOnly, engineVars, kernel, queuesE, counters
<1>4. CASE Surroundings \/ UNCHANGED coreVars
  BY <1>1, <1>4, KernelAsks DEF Surroundings, SpuriousWake, LoopSpurious,
     coreVars, coreSched, threadOnly, engineVars, kernel, queuesE, counters
<1> QED BY <1>2, <1>3, <1>4 DEF CoreNext

(* The count is exact in every state. *)
LEMMA InflightHolds ==
  Spec => []InflightInv
<1>1. Init => InflightInv
  <2> SUFFICES ASSUME Init PROVE InflightInv
    OBVIOUS
  <2>1. /\ io_waiting_queue_ = [k \in Contexts |-> <<>>]
        /\ io_read_submit_queue_ = [k \in Contexts |-> <<>>]
        /\ io_write_submit_queue_ = [k \in Contexts |-> <<>>]
        /\ sq = [k \in Contexts |-> <<>>] /\ cq = [k \in Contexts |-> <<>>]
        /\ ring = [k \in Contexts |-> {}]
        /\ inflight_io_ = [k \in Contexts |-> 0]
    BY DEF Init, EngineInit
  <2>2. IsFiniteSet({}) /\ Cardinality({}) = 0 /\ Len(<<>>) = 0
    BY FS_EmptySet, EmptySeq
  <2>3. \A k \in Contexts : IsFiniteSet(ring[k]) /\ Asked(k) = 0
    BY <2>1, <2>2 DEF Asked
  <2> QED BY <2>1, <2>3 DEF InflightInv
<1>2. HandleInv /\ CountInv /\ InflightInv /\ [CoreNext]_coreVars => InflightInv'
  BY InflightStep
<1> QED BY <1>1, <1>2, HandleHolds, CoreAlways, PTL DEF Spec

(* InflightExact of every such scheduler: inflight_io_ is the number of    *)
(* operations asked for and not handed back, wherever they are.            *)
THEOREM SchedulerInflight ==
  Spec => []InflightExact
<1>1. InflightInv => InflightExact
  BY DEF InflightInv, InflightExact, Asked
<1> QED BY <1>1, InflightHolds, PTL
----------------------------------------------------------------------------
(* Who looks at a frame when resume() has returned *)

(* No coroutine that has parked is resumed by another worker, and no frame *)
(* that another one awaits suspends: in these two cases process_work_once  *)
(* asks and destroys a handle that is not, or no longer, its own.          *)
OwnHandles ==
  /\ "inner" \notin TaskCalls
  /\ N = 1 \/ "park" \notin TaskCalls \/ "wake" \notin TaskCalls

(* A worker runs the frame, or a frame that runs awaits it. *)
RunsOn(t, k) == k \in Contexts /\ wpc[k] = "run" /\ active[k] = t
AwaitsIn(t, c) == c \in Tasks /\ caller_[c] = t /\ frame[c] = "live"
Entered(t) == (\E k \in Contexts : RunsOn(t, k)) \/ \E c \in Tasks : AwaitsIn(t, c)

(* The other places are queues, sets and hands. *)
Outside == Kinds \ {"caller", "run"}
Queued(t) == \E i \in Outside, x \in Spots : At(t, i, x)

(* A live frame with a caller has been entered: it is never in a queue. *)
InnerInv ==
  \A t \in Tasks : frame[t] = "live" /\ caller_[t] # NoTask => Entered(t)

(* The frames that worker k has entered and not left: at the bottom the    *)
(* one it has resumed, on top the one that runs.                           *)
Stack(k, W) ==
  /\ active[k] \in W /\ cur[k] \in W
  /\ \A t \in W : /\ frame[t] = "live"
                  /\ t = cur[k] \/ caller_[t] \in W
                  /\ t = active[k] \/ \E c \in W : caller_[c] = t

(* The frame that has suspended under worker k is where k has put it. *)
Kept(k) ==
  \/ cur[k] \in parked
  \/ \E i \in {"task", "waiting", "read", "write"} : At(cur[k], i, k)

(* The handle that worker k has resumed is a task's, and is not destroyed  *)
(* before k has seen whether it is done.                                   *)
Busy(k) == wpc[k] \in {"run", "resumed"}
CurOk(k) ==
  /\ Busy(k) => cur[k] \in Tasks /\ caller_[cur[k]] = NoTask
  /\ wpc[k] = "run" => \E W \in SUBSET Tasks : Stack(k, W)
  /\ wpc[k] = "resumed" => frame[cur[k]] = "final" \/ Kept(k)

(* No two workers have the same one, and a destroyed frame has no owner. *)
OwnInv ==
  /\ cur \in [Contexts -> Tasks \cup {NoTask}]
  /\ InnerInv
  /\ \A k \in Contexts : CurOk(k)
  /\ \A j, k \in Contexts : Busy(j) /\ Busy(k) /\ cur[j] = cur[k] => j = k
  /\ \A t \in Tasks : frame[t] = "destroyed" => caller_[t] = NoTask
  /\ "park" \notin TaskCalls => parked = {}

(* A frame that has been entered is in no queue, runs on one worker, or is *)
(* awaited by one frame.                                                   *)
LEMMA EnteredOnce ==
  ASSUME HandleInv, NEW t \in Tasks
  PROVE  /\ \A k \in Contexts : RunsOn(t, k) =>
              /\ frame[t] = "live" /\ ~Queued(t)
              /\ \A c \in Tasks : ~AwaitsIn(t, c)
              /\ \A j \in Contexts : RunsOn(t, j) => j = k
         /\ \A c \in Tasks : AwaitsIn(t, c) =>
              /\ frame[t] = "live" /\ ~Queued(t)
              /\ \A d \in Tasks : AwaitsIn(t, d) => d = c
<1>1. /\ \A k \in Contexts : RunsOn(t, k) <=> At(t, "run", k)
      /\ \A c \in Tasks : AwaitsIn(t, c) <=> At(t, "caller", c)
  BY DEF RunsOn, AwaitsIn, At
<1>2. /\ Contexts \subseteq Spots /\ Tasks \subseteq Spots
      /\ "run" \in Kinds /\ "caller" \in Kinds /\ Outside \subseteq Kinds
      /\ "run" \notin Outside /\ "caller" \notin Outside
      /\ "run" # "caller"
  BY SpotsLemma DEF Kinds, Outside
<1>3. ASSUME NEW k \in Contexts, At(t, "run", k)
      PROVE  /\ frame[t] = "live" /\ ~Queued(t)
             /\ \A c \in Tasks : ~At(t, "caller", c)
             /\ \A j \in Contexts : At(t, "run", j) => j = k
  <2>1. frame[t] = "live"
        /\ \A j \in Kinds, y \in Spots : At(t, j, y) => j = "run" /\ y = k
    BY <1>2, <1>3, Elsewhere
  <2> QED BY <1>2, <2>1 DEF Queued
<1>4. ASSUME NEW c \in Tasks, At(t, "caller", c)
      PROVE  /\ frame[t] = "live" /\ ~Queued(t)
             /\ \A d \in Tasks : At(t, "caller", d) => d = c
  <2>1. frame[t] = "live"
        /\ \A j \in Kinds, y \in Spots : At(t, j, y) => j = "caller" /\ y = c
    BY <1>2, <1>4, Elsewhere
  <2> QED BY <1>2, <2>1 DEF Queued
<1> QED BY <1>1, <1>3, <1>4

(* What is queued is live and has no caller. *)
LEMMA QueuedTop ==
  ASSUME HandleInv, InnerInv, NEW t \in Tasks, Queued(t)
  PROVE  frame[t] = "live" /\ caller_[t] = NoTask
<1>1. frame[t] = "live"
  BY Elsewhere DEF Queued, Outside
<1>2. ~Entered(t)
  BY EnteredOnce DEF Entered
<1> QED BY <1>1, <1>2 DEF InnerInv

(* What a worker has put away is queued. *)
LEMMA KeptQueued ==
  ASSUME HandleTypes, NEW k \in Contexts, cur[k] \in Tasks, Kept(k)
  PROVE  Queued(cur[k])
<1>1. k \in Spots /\ cur[k] \in Spots
  BY SpotsLemma
<1>2. {"task", "waiting", "read", "write", "parked"} \subseteq Outside
  BY DEF Outside, Kinds
<1>3. CASE cur[k] \in parked
  <2>1. At(cur[k], "parked", cur[k])
    BY <1>3 DEF At
  <2> QED BY <1>1, <1>2, <2>1 DEF Queued
<1>4. CASE \E i \in {"task", "waiting", "read", "write"} : At(cur[k], i, k)
  BY <1>1, <1>2, <1>4 DEF Queued
<1> QED BY <1>3, <1>4 DEF Kept

(* A step that leaves the frames of every worker but a to themselves: a    *)
(* frame that ends was queued or ran on a, and one that is destroyed was   *)
(* owned by its caller or had been resumed by a.                           *)
Untouched(a) ==
  \A j \in Contexts \ {a} :
    /\ wpc'[j] = "run" <=> wpc[j] = "run"
    /\ wpc'[j] = "resumed" <=> wpc[j] = "resumed"
    /\ Busy(j) => active'[j] = active[j] /\ cur'[j] = cur[j]
FramesMove(a) ==
  \A t \in Tasks :
    /\ frame[t] = "live" => caller_'[t] = caller_[t]
    /\ frame[t] # "none" => caller_'[t] \in {caller_[t], NoTask}
    /\ frame[t] = "live" /\ frame'[t] # "live" => Queued(t) \/ RunsOn(t, a)
    /\ frame[t] = "final" /\ frame'[t] # "final" =>
         caller_[t] # NoTask \/ (a \in Contexts /\ Busy(a) /\ t = cur[a])
    /\ frame'[t] = "destroyed" => caller_'[t] = NoTask
    /\ frame[t] # "live" /\ frame'[t] = "live" /\ caller_'[t] # NoTask =>
         Entered(t)'
KeepsOthers(a) ==
  \A k \in Contexts \ {a} :
    wpc[k] = "resumed" /\ Kept(k) => Kept(k)' \/ frame'[cur[k]] = "final"
(* The frames that ran on a or were awaited by one that ran there. *)
ActorInner(a) ==
  \A t \in Tasks :
    /\ frame[t] = "live" /\ frame'[t] = "live"
    /\ \/ RunsOn(t, a) /\ caller_[t] # NoTask
       \/ \E c \in Tasks : AwaitsIn(t, c) /\ RunsOn(c, a)
    => Entered(t)'
(* Worker a itself. *)
ActorOk(a) ==
  a \in Contexts =>
    /\ CurOk(a)'
    /\ Busy(a)' => \A j \in Contexts \ {a} : Busy(j) => cur[j] # cur'[a]

(* The stack of another worker stays as it is. *)
LEMMA StackStays ==
  ASSUME HandleInv, InnerInv, NEW a, NEW k \in Contexts \ {a}, Untouched(a),
         FramesMove(a), wpc[k] = "run", NEW W \in SUBSET Tasks, Stack(k, W)
  PROVE  Stack(k, W)'
<1>1. active'[k] = active[k] /\ cur'[k] = cur[k]
  BY DEF Untouched, Busy
<1>2. ASSUME NEW t \in W PROVE frame'[t] = "live" /\ caller_'[t] = caller_[t]
  <2>1. t \in Tasks /\ frame[t] = "live"
    BY DEF Stack
  <2>2. RunsOn(t, k) \/ \E c \in Tasks : AwaitsIn(t, c)
    BY DEF Stack, RunsOn, AwaitsIn
  <2>3. ~Queued(t) /\ ~RunsOn(t, a)
    <3>1. CASE RunsOn(t, k)
      BY <2>1, <3>1, EnteredOnce DEF RunsOn
    <3>2. CASE \E c \in Tasks : AwaitsIn(t, c)
      BY <2>1, <3>2, EnteredOnce DEF RunsOn
    <3> QED BY <2>2, <3>1, <3>2
  <2> QED BY <2>1, <2>3 DEF FramesMove
<1> QED BY <1>1, <1>2 DEF Stack

(* Such a step keeps the invariant if worker a does. *)
LEMMA OwnStep ==
  ASSUME HandleInv, OwnInv, NEW a, Untouched(a), FramesMove(a),
         KeepsOthers(a), ActorInner(a), ActorOk(a),
         cur' \in [Contexts -> Tasks \cup {NoTask}],
         "park" \notin TaskCalls => parked' = {}
  PROVE  OwnInv'
<1>1. InnerInv
  BY DEF OwnInv
<1>2. InnerInv'
  <2> SUFFICES ASSUME NEW t \in Tasks, frame'[t] = "live", caller_'[t] # NoTask
               PROVE  Entered(t)'
    BY DEF InnerInv
  <2>1. CASE frame[t] # "live"
    BY <2>1 DEF FramesMove
  <2>2. CASE frame[t] = "live"
    <3>1. caller_'[t] = caller_[t] /\ caller_[t] # NoTask /\ Entered(t)
      BY <1>1, <2>2 DEF FramesMove, InnerInv
    <3>2. ASSUME NEW k \in Contexts, RunsOn(t, k) PROVE Entered(t)'
      <4>1. CASE k = a
        BY <2>2, <3>1, <3>2, <4>1 DEF ActorInner
      <4>2. CASE k # a
        BY <3>2, <4>2 DEF Untouched, RunsOn, Busy, Entered
      <4> QED BY <4>1, <4>2
    <3>3. ASSUME NEW c \in Tasks, AwaitsIn(t, c) PROVE Entered(t)'
      <4>1. CASE frame'[c] = "live"
        BY <3>3, <4>1 DEF FramesMove, AwaitsIn, Entered
      <4>2. CASE frame'[c] # "live"
        <5>1. frame[c] = "live" /\ caller_[c] = t /\ t # NoTask
          BY <3>3, NoTaskAssumption DEF AwaitsIn
        <5>2. ~Queued(c)
          BY <1>1, <5>1, QueuedTop
        <5>3. RunsOn(c, a)
          BY <4>2, <5>1, <5>2 DEF FramesMove
        <5> QED BY <2>2, <3>1, <3>3, <5>3 DEF ActorInner
      <4> QED BY <4>1, <4>2
    <3> QED BY <3>1, <3>2, <3>3 DEF Entered
  <2> QED BY <2>1, <2>2
<1>3. ASSUME NEW k \in Contexts \ {a}
      PROVE  CurOk(k)' /\ (Busy(k)' <=> Busy(k)) /\ (Busy(k) => cur'[k] = cur[k])
  <2>1. /\ wpc'[k] = "run" <=> wpc[k] = "run"
        /\ wpc'[k] = "resumed" <=> wpc[k] = "resumed"
        /\ Busy(k)' <=> Busy(k)
        /\ Busy(k) => active'[k] = active[k] /\ cur'[k] = cur[k]
    BY DEF Untouched, Busy
  <2>2. CurOk(k)
    BY DEF OwnInv
  <2>3. ASSUME wpc[k] = "run"
        PROVE  \E W \in SUBSET Tasks : Stack(k, W) /\ Stack(k, W)'
    BY <1>1, <2>2, <2>3, StackStays DEF CurOk
  <2>4. ASSUME wpc[k] = "resumed"
        PROVE  frame'[cur[k]] = "final" \/ Kept(k)'
    <3>1. CASE Kept(k)
      BY <2>4, <3>1 DEF KeepsOthers
    <3>2. CASE frame[cur[k]] = "final"
      <4>1. cur[k] \in Tasks /\ caller_[cur[k]] = NoTask /\ Busy(k)
        BY <2>2, <2>4 DEF CurOk, Busy
      <4>2. ~(a \in Contexts /\ Busy(a) /\ cur[k] = cur[a])
        BY <4>1 DEF OwnInv
      <4> QED BY <3>2, <4>1, <4>2 DEF FramesMove
    <3> QED BY <2>2, <2>4, <3>1, <3>2 DEF CurOk
  <2>5. ASSUME Busy(k) PROVE cur[k] \in Tasks /\ caller_'[cur[k]] = NoTask
    <3>1. cur[k] \in Tasks /\ caller_[cur[k]] = NoTask
      BY <2>2, <2>5 DEF CurOk
    <3>2. frame[cur[k]] # "none"
      <4>1. CASE wpc[k] = "run"
        BY <2>3, <4>1 DEF Stack
      <4>2. CASE wpc[k] = "resumed"
        <5>1. CASE Kept(k)
          <6>1. Queued(cur[k])
            BY <3>1, <5>1, KeptQueued DEF HandleInv
          <6>2. frame[cur[k]] = "live"
            BY <1>1, <3>1, <6>1, QueuedTop
          <6> QED BY <6>2
        <5> QED BY <2>2, <4>2, <5>1 DEF CurOk
      <4> QED BY <2>5, <4>1, <4>2 DEF Busy
    <3> QED BY <3>1, <3>2 DEF FramesMove
  <2>6. wpc[k] = "resumed" => cur'[k] = cur[k]
    BY <2>1 DEF Busy
  <2>7. CurOk(k)'
    BY <2>1, <2>3, <2>4, <2>5, <2>6 DEF CurOk
  <2> QED BY <2>1, <2>7
<1>4. \A k \in Contexts : CurOk(k)'
  BY <1>3 DEF ActorOk
<1>5. ASSUME NEW j \in Contexts, NEW k \in Contexts, Busy(j)', Busy(k)',
             cur'[j] = cur'[k]
      PROVE  j = k
  <2>1. CASE j # a /\ k # a
    BY <1>3, <1>5, <2>1 DEF OwnInv
  <2>2. CASE j = a /\ k # a
    BY <1>3, <1>5, <2>2 DEF ActorOk
  <2>3. CASE j # a /\ k = a
    BY <1>3, <1>5, <2>3 DEF ActorOk
  <2> QED BY <2>1, <2>2, <2>3
<1>6. \A t \in Tasks : frame'[t] = "destroyed" => caller_'[t] = NoTask
  BY DEF FramesMove
<1> QED BY <1>2, <1>4, <1>5, <1>6 DEF OwnInv

(* The steps of a worker concern its own queues only. *)
LEMMA WorkerAlone ==
  ASSUME HandleInv, cur \in [Contexts -> Tasks \cup {NoTask}],
         NEW j \in Contexts, NEW k \in Contexts \ {j},
         WorkerLoop(j) \/ Body(j) \/ Complete(j)
         \/ \E t \in Tasks : Spawn(j, t)
  PROVE  /\ wpc'[k] = wpc[k] /\ active'[k] = active[k] /\ cur'[k] = cur[k]
         /\ task_queue_'[k] = task_queue_[k]
         /\ io_waiting_queue_'[k] = io_waiting_queue_[k]
         /\ io_read_submit_queue_'[k] = io_read_submit_queue_[k]
         /\ io_write_submit_queue_'[k] = io_write_submit_queue_[k]
<1>1. /\ wpc \in [Contexts -> WorkerPCs]
      /\ active \in [Contexts -> Tasks \cup {NoTask}]
      /\ task_queue_ \in [Contexts -> Seq(Tasks)]
      /\ io_waiting_queue_ \in [Contexts -> Seq(Tasks)]
      /\ io_read_submit_queue_ \in [Contexts -> Seq(Tasks)]
      /\ io_write_submit_queue_ \in [Contexts -> Seq(Tasks)]
  BY DEF HandleInv, HandleTypes, QueuesInv, Queues
<1>2. CASE WorkerLoop(j)
  <2>1. CASE PopBatch(j) \/ ResumeNext(j)
    BY <1>1, <2>1 DEF PopBatch, ResumeNext, queuesE, batch, GotoW
  <2>2. CASE AfterResume(j) \/ Reap(j)
    BY <1>1, <2>2 DEF AfterResume, Reap, queuesE, batch, GotoW, submit_task
  <2>3. CASE PollPrepare(j)
    BY <1>1, <2>3 DEF PollPrepare, queuesE, batch, GotoW
  <2>4. CASE UringSubmit(j) \/ PollReturn(j) \/ CanStop(j) \/ WaitCheck(j)
             \/ WaitBlock(j)
    BY <1>1, <2>4 DEF UringSubmit, PollReturn, CanStop, WaitCheck, WaitBlock,
       queuesE, worker, batch, GotoW
  <2> QED BY <1>2, <2>1, <2>2, <2>3, <2>4 DEF WorkerLoop
<1>3. CASE Complete(j)
  BY <1>1, <1>3 DEF Complete, queuesE, GotoW
<1>4. CASE \E t \in Tasks : Spawn(j, t)
  BY <1>1, <1>4 DEF Spawn, worker, batch, submit_task
<1>5. CASE Body(j)
  BY <1>1, <1>5 DEF Body, Finish, Release, WakeOne, Wake, Await, Yield,
     IoSuspendOnce, IoRead, IoWrite, Park, Suspending, queuesE, worker, batch,
     GotoW, submit_task
<1> QED BY <1>2, <1>3, <1>4, <1>5

(* While worker k has not asked done(), nobody takes the handle from where *)
(* k has put it, except a thread that runs the coroutine to its end.       *)
Holds(k) ==
  /\ cur'[k] = cur[k]
  /\ Range(task_queue_[k]) \subseteq Range(task_queue_'[k])
  /\ io_waiting_queue_'[k] = io_waiting_queue_[k]
  /\ io_read_submit_queue_'[k] = io_read_submit_queue_[k]
  /\ io_write_submit_queue_'[k] = io_write_submit_queue_[k]
  /\ cur[k] \in parked => cur[k] \in parked' \/ frame'[cur[k]] = "final"

(* Then the handle is kept. *)
LEMMA HoldsKept ==
  ASSUME NEW k \in Contexts, Holds(k), Kept(k)
  PROVE  Kept(k)' \/ frame'[cur[k]] = "final"
<1>1. CASE cur[k] \in parked
  BY <1>1 DEF Holds, Kept
<1>2. CASE \E i \in {"task", "waiting", "read", "write"} : At(cur[k], i, k)
  <2>1. \A i \in {"task", "waiting", "read", "write"} :
          At(cur[k], i, k) => At(cur[k], i, k)'
    BY DEF Holds, At
  <2> QED BY <1>2, <2>1 DEF Kept
<1> QED BY <1>1, <1>2 DEF Kept

(* Appending keeps what was there. *)
LEMMA PushKeeps ==
  ASSUME NEW q \in Seq(Tasks), NEW h \in Tasks
  PROVE  Range(q) \subseteq Range(Append(q, h))
BY PushLemma

(* Every step keeps it there. *)
LEMMA KeptStep ==
  ASSUME ShutInv, HandleInv, OwnHandles, OwnInv, [CoreNext]_coreVars,
         NEW k \in Contexts, wpc[k] = "resumed", wpc'[k] = "resumed"
  PROVE  Holds(k)
<1>1. task_queue_ \in [Contexts -> Seq(Tasks)] /\ task_queue_[k] \in Seq(Tasks)
      /\ hand \in [Executors -> Tasks \cup {NoTask}]
  BY DEF HandleInv, HandleTypes, QueuesInv, Queues
<1>2. CASE UNCHANGED <<queuesE, cur, parked>>
  BY <1>2 DEF Holds, queuesE
<1>3. ASSUME NEW x \in Executors, SubmitPush(x) PROVE Holds(k)
  <2>1. /\ UNCHANGED <<cur, parked, io_waiting_queue_, io_read_submit_queue_,
                       io_write_submit_queue_>>
        /\ hand[x] # NoTask
        /\ \/ task_queue_' = task_queue_
           \/ task_queue_' = [task_queue_ EXCEPT ![target[x]] = Append(@, hand[x])]
    BY <1>3 DEF SubmitPush, submit_task, worker, batch
  <2>2. hand[x] \in Tasks
    BY <1>1, <2>1
  <2>3. Range(task_queue_[k]) \subseteq Range(Append(task_queue_[k], hand[x]))
    BY <1>1, <2>2, PushKeeps
  <2>4. task_queue_'[k] = task_queue_[k]
        \/ task_queue_'[k] = Append(task_queue_[k], hand[x])
    BY <1>1, <2>1
  <2> QED BY <2>1, <2>3, <2>4 DEF Holds
<1>4. ASSUME NEW j \in Contexts, Worker(j) PROVE Holds(k)
  <2>1. CASE \E t \in Tasks : SubmitNew(j, t)
    BY <1>2, <2>1 DEF SubmitNew, worker, batch
  <2>2. CASE SubmitPush(j)
    BY <1>3, <2>2 DEF Executors
  <2>3. CASE WorkerLoop(j) \/ Body(j) \/ Complete(j)
             \/ \E t \in Tasks : Spawn(j, t)
    <3>1. j # k
      <4>1. CASE WorkerLoop(j)
        <5>1. CASE AfterResume(j)
          BY <5>1 DEF AfterResume, GotoW, HandleInv, HandleTypes
        <5> QED BY <4>1, <5>1 DEF WorkerLoop, PopBatch, ResumeNext,
                PollPrepare, UringSubmit, Reap, PollReturn, CanStop, WaitCheck,
                WaitBlock
      <4>2. CASE Body(j) \/ Complete(j) \/ \E t \in Tasks : Spawn(j, t)
        BY <4>2 DEF Body, Complete, Spawn, Running
      <4> QED BY <2>3, <4>1, <4>2
    <3>2. /\ cur'[k] = cur[k] /\ task_queue_'[k] = task_queue_[k]
          /\ io_waiting_queue_'[k] = io_waiting_queue_[k]
          /\ io_read_submit_queue_'[k] = io_read_submit_queue_[k]
          /\ io_write_submit_queue_'[k] = io_write_submit_queue_[k]
      BY <2>3, <3>1, WorkerAlone DEF OwnInv
    <3>3. cur[k] \in parked => cur[k] \in parked'
      <4>1. CASE "wake" \in TaskCalls /\ WakeOne(j)
        <5>1. N = 1 => j = k
          BY ContextsAssumption DEF Contexts
        <5>2. parked = {}
          BY <3>1, <4>1, <5>1 DEF OwnHandles, OwnInv
        <5> QED BY <5>2
      <4>2. CASE ~("wake" \in TaskCalls /\ WakeOne(j))
        BY <2>3, <4>2 DEF WorkerLoop, PopBatch, ResumeNext, AfterResume,
           PollPrepare, UringSubmit, Reap, PollReturn, CanStop, WaitCheck,
           WaitBlock, Complete, Spawn, Body, Finish, Release, Await, Yield,
           IoSuspendOnce, IoRead, IoWrite, Park, coro
      <4> QED BY <4>1, <4>2
    <3> QED BY <3>2, <3>3 DEF Holds
  <2> QED BY <1>4, <2>1, <2>2, <2>3 DEF Worker, Nested
<1>5. ASSUME NEW u \in Threads, Starts(u) \/ Continue(u) PROVE Holds(k)
  <2>1. CASE SubmitPush(u)
    BY <1>3, <2>1 DEF Executors
  <2>2. CASE InlineEnd(u)
    <3>1. PICK p \in parked :
            /\ parked' = parked \ {p}
            /\ frame' = [Drop(Owned(p), frame) EXCEPT ![p] = "final"]
      BY <2>2 DEF InlineEnd, RunsInlined, inlineOnly
    <3>2. p \in Tasks
      BY DEF HandleInv, HandleTypes
    <3>3. frame'[p] = "final"
      BY <3>1, <3>2 DEF Drop
    <3> QED BY <2>2, <3>1, <3>3 DEF InlineEnd, RunsInlined, inlineOnly, queuesE,
               worker, batch, Holds
  <2>3. CASE Join(u)
    <3>1. wpc[k] # "exited" /\ tpc[u] = "join" /\ wpc[First(todo[u])] = "exited"
      BY <2>3 DEF Join
    <3>2. todo[u] # {First(todo[u])}
      BY <3>1 DEF ShutInv
    <3> QED BY <1>2, <2>3, <3>2 DEF Join, worker, batch, queuesE
  <2> QED BY <1>2, <1>5, <2>1, <2>2, <2>3 DEF Starts, Continue, InitScheduler,
          Submit, SubmitNew, Loop, Stop, LoopCheck, LoopBlock, StopNotify,
          Shutdown, RequestStop, NotifyStop, Return, threadOnly, engineVars,
          worker, batch, coro
<1>6. CASE Surroundings \/ UNCHANGED coreVars
  BY <1>2, <1>6 DEF Surroundings, SpuriousWake, KernelComplete, LoopSpurious,
     coreVars, coreSched, threadOnly, engineVars, worker, batch, coro
<1> QED BY <1>4, <1>5, <1>6 DEF CoreNext

(* N is no context: steps of no worker's own. *)
LEMMA NotContext == N \notin Contexts
BY ContextsAssumption DEF Contexts

OwnAct(a) ==
  /\ Untouched(a) /\ FramesMove(a) /\ ActorInner(a) /\ ActorOk(a)
  /\ cur' \in [Contexts -> Tasks \cup {NoTask}]
  /\ "park" \notin TaskCalls => parked' = {}

(* What has to be shown of a step. *)
LEMMA OwnActStep ==
  ASSUME ShutInv, HandleInv, OwnHandles, OwnInv, [CoreNext]_coreVars,
         NEW a, OwnAct(a)
  PROVE  OwnInv'
<1>1. KeepsOthers(a)
  <2> SUFFICES ASSUME NEW k \in Contexts \ {a}, wpc[k] = "resumed", Kept(k)
               PROVE  Kept(k)' \/ frame'[cur[k]] = "final"
    BY DEF KeepsOthers
  <2>1. wpc'[k] = "resumed"
    BY DEF OwnAct, Untouched
  <2> QED BY <2>1, KeptStep, HoldsKept
<1> QED BY <1>1, OwnStep DEF OwnAct

(* Steps that touch no frame and no worker that runs one. *)
Bystands ==
  /\ UNCHANGED <<frame, caller_>> /\ Untouched(N)
  /\ cur' \in [Contexts -> Tasks \cup {NoTask}] /\ parked' \subseteq parked

(* They leave every worker the frames it has entered.                      *)
LEMMA BystandOwn ==
  ASSUME OwnInv, Bystands PROVE OwnAct(N)
<1>1. FramesMove(N)
  BY DEF OwnInv, Bystands, FramesMove
<1>2. ActorInner(N) /\ ActorOk(N)
  BY NotContext DEF ActorInner, ActorOk, RunsOn
<1> QED BY <1>1, <1>2 DEF Bystands, OwnAct, OwnInv

(* Most steps of a worker's loop are such. *)
LEMMA LoopOwn ==
  ASSUME HandleInv, OwnInv, NEW k \in Contexts,
         \/ Idles(k) \/ PopBatch(k) \/ PollPrepare(k) \/ UringSubmit(k)
         \/ Reap(k) \/ Complete(k) \/ KernelComplete(k) \/ WakeOne(k)
  PROVE  OwnAct(N)
<1>1. /\ wpc \in [Contexts -> WorkerPCs]
      /\ cur \in [Contexts -> Tasks \cup {NoTask}]
      /\ active \in [Contexts -> Tasks \cup {NoTask}]
  BY DEF HandleInv, HandleTypes, OwnInv
<1>2. UNCHANGED <<frame, caller_, active>> /\ parked' \subseteq parked
  BY DEF Idles, PopBatch, ResumeNext, PollReturn, CanStop, WaitCheck,
     WaitBlock, SpuriousWake, PollPrepare, UringSubmit, Reap, Complete,
     KernelComplete, WakeOne, Wake, worker, batch, coro
<1>3. /\ cur' = cur \/ (cur' = [cur EXCEPT ![k] = NoTask] /\ ~Busy(k))
      /\ \/ wpc' = wpc
         \/ \E p \in WorkerPCs \ {"run", "resumed"} :
              wpc' = [wpc EXCEPT ![k] = p] /\ wpc[k] \notin {"run", "resumed"}
  BY DEF Idles, PopBatch, ResumeNext, PollReturn, CanStop, WaitCheck,
     WaitBlock, SpuriousWake, PollPrepare, UringSubmit, Reap, Complete,
     KernelComplete, WakeOne, Wake, worker, batch, GotoW, Busy, WorkerPCs
<1>4. Untouched(N)
  BY <1>1, <1>2, <1>3 DEF Untouched, Busy
<1>5. cur' \in [Contexts -> Tasks \cup {NoTask}]
  BY <1>1, <1>3
<1> QED BY <1>2, <1>4, <1>5, BystandOwn DEF Bystands

(* So are those of init(), loop() and stop() that touch no handle. *)
LEMMA ControlOwn ==
  ASSUME ShutInv, HandleInv, OwnInv, NEW u \in Threads, Controls(u)
  PROVE  OwnAct(N)
<1>1. wpc \in [Contexts -> WorkerPCs]
      /\ cur \in [Contexts -> Tasks \cup {NoTask}]
  BY DEF HandleInv, HandleTypes, OwnInv
<1>2. UNCHANGED <<frame, caller_, active, cur, parked>>
  BY DEF Controls, InitScheduler, Loop, Stop, LoopCheck, LoopBlock,
     LoopSpurious, StopNotify, Shutdown, RequestStop, NotifyStop, Return, Join,
     threadOnly, engineVars, worker, batch, coro
<1>3. \/ wpc' = wpc
      \/ \E k \in Contexts : wpc' = [wpc EXCEPT ![k] = Notified(k)]
      \/ /\ wpc' = [k \in Contexts |-> "pop"]
         /\ \A k \in Contexts : Ended(k)
  <2>1. CASE InitScheduler(u)
    BY <2>1 DEF InitScheduler, ShutInv
  <2>2. CASE NotifyStop(u)
    <3>1. todo[u] # {} /\ todo[u] \in SUBSET Contexts
      BY <2>2 DEF NotifyStop, ShutInv, ShutTypes, Ending
    <3>2. First(todo[u]) \in Contexts
      BY <3>1, FirstLemma
    <3> QED BY <2>2, <3>2 DEF NotifyStop, GotoW
  <2>3. CASE Controls(u) /\ ~InitScheduler(u) /\ ~NotifyStop(u)
    BY <2>3 DEF Controls, Loop, Stop, LoopCheck, LoopBlock, LoopSpurious,
       StopNotify, Shutdown, RequestStop, Return, Join, threadOnly, engineVars
  <2> QED BY <2>1, <2>2, <2>3
<1>4. Untouched(N)
  BY <1>1, <1>2, <1>3 DEF Untouched, Busy, Notified, Ended
<1> QED BY <1>1, <1>2, <1>4, BystandOwn DEF Bystands

(* A new frame is nobody's; one that is refused is destroyed at once. *)
LEMMA NewOwn ==
  ASSUME HandleInv, OwnInv, NEW h \in Tasks,
         \/ \E x \in Executors : SubmitNew(x, h)
         \/ \E k \in Contexts : Spawn(k, h)
  PROVE  OwnAct(N)
<1>1. /\ UNCHANGED <<caller_, active, cur, parked, wpc>> /\ frame[h] = "none"
      /\ \/ frame' = [frame EXCEPT ![h] = "live"]
         \/ frame' = [frame EXCEPT ![h] = "destroyed"]
  BY DEF SubmitNew, Spawn, worker, batch
<1>2. frame \in [Tasks -> Frames] /\ caller_[h] = NoTask
  BY <1>1 DEF HandleInv, HandleTypes, CallerInv
<1>3. FramesMove(N)
  BY <1>1, <1>2 DEF FramesMove, OwnInv
<1>4. ActorInner(N) /\ ActorOk(N)
  BY NotContext DEF ActorInner, ActorOk, RunsOn
<1>5. Untouched(N)
  BY <1>1 DEF Untouched
<1> QED BY <1>1, <1>3, <1>4, <1>5 DEF OwnAct, OwnInv

(* What gets lost was queued: in a hand, or in a task queue. *)
DropsQueued(h) ==
  /\ UNCHANGED <<caller_, active, cur, parked>>
  /\ frame' \in [Tasks -> Frames]
  /\ \A t \in Tasks : frame'[t] = frame[t]
                      \/ (t \in h /\ Queued(t) /\ frame'[t] = "leaked")
  /\ \A k \in Contexts : /\ wpc'[k] = "run" <=> wpc[k] = "run"
                         /\ wpc'[k] = "resumed" <=> wpc[k] = "resumed"

(* Losing it leaves every worker the frames it has entered.                *)
LEMMA LostOwn ==
  ASSUME HandleInv, OwnInv, NEW h, DropsQueued(h) PROVE OwnAct(N)
<1>1. \A t \in Tasks : Queued(t) => frame[t] = "live" /\ caller_[t] = NoTask
  BY QueuedTop DEF OwnInv
<1>2. FramesMove(N)
  BY <1>1 DEF FramesMove, OwnInv, DropsQueued
<1>3. ActorInner(N) /\ ActorOk(N)
  BY NotContext DEF ActorInner, ActorOk, RunsOn
<1>4. Untouched(N)
  BY DEF Untouched, DropsQueued
<1> QED BY <1>2, <1>3, <1>4 DEF OwnAct, OwnInv, DropsQueued

(* A submit finds its context gone. *)
LEMMA PushOwn ==
  ASSUME HandleInv, OwnInv, NEW x \in Executors, SubmitPush(x),
         contexts \subseteq Contexts
  PROVE  OwnAct(N)
<1>1. /\ UNCHANGED <<caller_, active, cur, parked>>
      /\ hand[x] # NoTask /\ UNCHANGED wpc
      /\ UNCHANGED frame \/ frame' = [frame EXCEPT ![hand[x]] = "leaked"]
  BY DEF SubmitPush, worker, batch
<1>2. HandleTypes /\ hand[x] \in Tasks
  BY <1>1 DEF HandleInv, HandleTypes
<1>3. Queued(hand[x])
  <2>1. At(hand[x], "hand", x) /\ "hand" \in Outside /\ x \in Spots
    BY SpotsLemma DEF At, Outside, Kinds
  <2> QED BY <2>1 DEF Queued
<1>4. DropsQueued({hand[x]})
  BY <1>1, <1>2, <1>3 DEF DropsQueued, HandleTypes, Frames
<1> QED BY <1>4, LostOwn

(* The contexts are gone, with what was in their queues. *)
LEMMA DestroyOwn ==
  ASSUME HandleInv, OwnInv, DestroyContexts,
         UNCHANGED <<caller_, active, cur, parked, wpc>>
  PROVE  OwnAct(N)
<1> DEFINE lost == UNION {Range(task_queue_[k]) : k \in Contexts}
<1>1. \A t \in lost : \E k \in Contexts : t \in Range(task_queue_[k])
  OBVIOUS
<1>2. frame' = [t \in Tasks |-> IF t \in lost THEN "leaked" ELSE frame[t]]
  BY DEF DestroyContexts
<1> HIDE DEF lost
<1>3. ASSUME NEW t \in lost PROVE Queued(t)
  <2>1. PICK k \in Contexts : t \in Range(task_queue_[k])
    BY <1>1
  <2>2. At(t, "task", k) /\ "task" \in Outside /\ k \in Spots
    BY <2>1, SpotsLemma DEF At, Outside, Kinds
  <2> QED BY <2>2 DEF Queued
<1>4. DropsQueued(lost)
  BY <1>2, <1>3 DEF DropsQueued, HandleInv, HandleTypes, Frames
<1> QED BY <1>4, LostOwn

(* The frames of S are destroyed by the frame that awaited them. *)
Drops(S, a) ==
  /\ S \subseteq Tasks
  /\ \A t \in S : frame[t] \in {"final", "destroyed"} /\ caller_[t] # NoTask
  /\ \A t \in Tasks : caller_'[t] = IF t \in S THEN NoTask ELSE caller_[t]
  /\ \A t \in Tasks :
       \/ t \in S /\ frame'[t] = "destroyed"
       \/ t \notin S /\ frame'[t] = frame[t]
       \/ /\ frame[t] = "live" /\ frame'[t] = "final"
          /\ Queued(t) \/ RunsOn(t, a)

(* Nothing else happens to the frames. *)
LEMMA DropsMove ==
  ASSUME OwnInv, NEW S, NEW a, Drops(S, a) PROVE FramesMove(a)
<1>1. \A t \in Tasks : frame[t] = "destroyed" => caller_[t] = NoTask
  BY DEF OwnInv
<1> QED BY <1>1 DEF Drops, FramesMove

(* Those that a frame owns have ended, and none has been destroyed. *)
LEMMA OwnedLemma ==
  ASSUME HandleInv, OwnInv, NEW h \in Tasks, NEW S, S \subseteq Owned(h)
  PROVE  /\ S \subseteq Tasks /\ ~Twice(S)
         /\ \A t \in S : frame[t] = "final" /\ caller_[t] # NoTask
         /\ \A t \in Tasks :
              /\ Drop(S, frame)[t] = IF t \in S THEN "destroyed" ELSE frame[t]
              /\ Disowned(S)[t] = IF t \in S THEN NoTask ELSE caller_[t]
<1>1. \A t \in S : t \in Tasks /\ caller_[t] = h
                   /\ frame[t] \in {"final", "destroyed"}
  BY DEF Owned
<1>2. \A t \in Tasks : frame[t] = "destroyed" => caller_[t] = NoTask
  BY DEF OwnInv
<1>3. h # NoTask
  BY NoTaskAssumption
<1>4. \A t \in S : frame[t] = "final" /\ caller_[t] # NoTask
  BY <1>1, <1>2, <1>3
<1> QED BY <1>1, <1>4 DEF Twice, Drop, Disowned

(* A thread outside the runtime runs a parked frame to its end. *)
LEMMA InlineOwn ==
  ASSUME HandleInv, OwnInv, NEW u \in Threads, InlineEnd(u)
  PROVE  OwnAct(N) /\ dangling' = (dangling \/ FALSE)
<1>1. PICK p \in parked :
        /\ parked' = parked \ {p}
        /\ frame' = [Drop(Owned(p), frame) EXCEPT ![p] = "final"]
        /\ caller_' = Disowned(Owned(p))
        /\ dangling' = (dangling \/ Twice(Owned(p)))
  BY DEF InlineEnd, RunsInlined, inlineOnly
<1>2. UNCHANGED <<active, cur, wpc>>
  BY DEF InlineEnd, RunsInlined, inlineOnly, worker, batch
<1>3. p \in Tasks /\ Queued(p)
  <2>1. p \in Tasks
    BY DEF HandleInv, HandleTypes
  <2>2. At(p, "parked", p) /\ "parked" \in Outside /\ p \in Spots
    BY <2>1, SpotsLemma DEF At, Outside, Kinds
  <2> QED BY <2>1, <2>2 DEF Queued
<1>4. frame[p] = "live"
  BY <1>3, QueuedTop DEF OwnInv
<1> DEFINE S == Owned(p)
<1>5. /\ S \subseteq Tasks /\ ~Twice(S)
      /\ \A t \in S : frame[t] = "final" /\ caller_[t] # NoTask
      /\ \A t \in Tasks :
           /\ Drop(S, frame)[t] = IF t \in S THEN "destroyed" ELSE frame[t]
           /\ Disowned(S)[t] = IF t \in S THEN NoTask ELSE caller_[t]
  BY <1>3, OwnedLemma
<1>6. \A t \in Tasks :
        frame'[t] = IF t = p THEN "final" ELSE Drop(S, frame)[t]
  BY <1>1 DEF Drop
<1>7. caller_' = Disowned(S) /\ dangling' = (dangling \/ Twice(S))
  BY <1>1
<1> HIDE DEF S
<1>8. Drops(S, N)
  BY <1>3, <1>4, <1>5, <1>6, <1>7 DEF Drops
<1>9. ActorInner(N) /\ ActorOk(N) /\ FramesMove(N)
  BY <1>8, DropsMove, NotContext DEF ActorInner, ActorOk, RunsOn
<1>10. Untouched(N)
  BY <1>2 DEF Untouched
<1>11. dangling' = (dangling \/ FALSE)
  BY <1>5, <1>7
<1> QED BY <1>1, <1>2, <1>9, <1>10, <1>11 DEF OwnAct, OwnInv

(* ~Task of an awaited temporary. *)
LEMMA ReleaseOwn ==
  ASSUME HandleInv, OwnInv, NEW k \in Contexts, Release(k)
  PROVE  OwnAct(N) /\ dangling' = (dangling \/ FALSE)
<1>1. PICK r \in Owned(active[k]) :
        /\ frame' = Drop({r}, frame) /\ caller_' = Disowned({r})
        /\ dangling' = (dangling \/ Twice({r}))
  BY DEF Release
<1>2. UNCHANGED <<active, cur, wpc, parked>> /\ wpc[k] = "run"
  BY DEF Release, Running, worker, batch
<1>3. active[k] \in Tasks
  BY <1>2 DEF HandleInv, WorkInv
<1> DEFINE S == {r}
<1>4. S \subseteq Owned(active[k])
  BY <1>1
<1>5. /\ frame' = Drop(S, frame) /\ caller_' = Disowned(S)
      /\ dangling' = (dangling \/ Twice(S))
  BY <1>1
<1> HIDE DEF S
<1>6. /\ S \subseteq Tasks /\ ~Twice(S)
      /\ \A t \in S : frame[t] = "final" /\ caller_[t] # NoTask
      /\ \A t \in Tasks :
           /\ Drop(S, frame)[t] = IF t \in S THEN "destroyed" ELSE frame[t]
           /\ Disowned(S)[t] = IF t \in S THEN NoTask ELSE caller_[t]
  BY <1>3, <1>4, OwnedLemma
<1>7. Drops(S, N)
  BY <1>5, <1>6 DEF Drops
<1>8. ActorInner(N) /\ ActorOk(N) /\ FramesMove(N)
  BY <1>7, DropsMove, NotContext DEF ActorInner, ActorOk, RunsOn
<1>9. Untouched(N)
  BY <1>2 DEF Untouched
<1>10. dangling' = (dangling \/ FALSE)
  BY <1>5, <1>6
<1> QED BY <1>2, <1>8, <1>9, <1>10 DEF OwnAct, OwnInv

(* Nobody is still busy with a handle that waits in a batch. *)
LEMMA BatchFresh ==
  ASSUME HandleInv, OwnInv, NEW k \in Contexts, NEW h \in Tasks,
         At(h, "batch", k), NEW j \in Contexts, Busy(j)
  PROVE  cur[j] # h
<1> SUFFICES ASSUME cur[j] = h PROVE FALSE
  OBVIOUS
<1>1. k \in Spots /\ j \in Spots /\ h \in Spots /\ "batch" \in Kinds
      /\ "batch" \in Outside /\ InnerInv /\ CurOk(j)
  BY SpotsLemma DEF Kinds, Outside, OwnInv
<1>2. frame[h] = "live" /\ Queued(h)
      /\ \A i \in Kinds, y \in Spots : At(h, i, y) => i = "batch"
  BY <1>1, Elsewhere DEF Queued
<1>3. CASE wpc[j] = "run"
  <2>1. PICK W \in SUBSET Tasks : Stack(j, W)
    BY <1>1, <1>3 DEF CurOk
  <2>2. RunsOn(h, j) \/ \E c \in Tasks : AwaitsIn(h, c)
    BY <1>3, <2>1 DEF Stack, RunsOn, AwaitsIn
  <2> QED BY <1>2, <2>2, EnteredOnce
<1>4. CASE wpc[j] = "resumed"
  <2>1. Kept(j)
    BY <1>1, <1>2, <1>4 DEF CurOk
  <2>2. CASE h \in parked
    <3>1. At(h, "parked", h) /\ "parked" \in Kinds
      BY <2>2 DEF At, Kinds
    <3> QED BY <1>1, <1>2, <3>1
  <2>3. CASE \E i \in {"task", "waiting", "read", "write"} : At(h, i, j)
    <3>1. {"task", "waiting", "read", "write"} \subseteq Kinds
      BY DEF Kinds
    <3> QED BY <1>1, <1>2, <2>3, <3>1
  <2> QED BY <2>1, <2>2, <2>3 DEF Kept
<1> QED BY <1>3, <1>4 DEF Busy

(* handle.resume(): the next handle of the batch. *)
LEMMA ResumeOwn ==
  ASSUME HandleInv, OwnInv, NEW k \in Contexts, ResumeNext(k),
         work_batch_[k] # <<>>
  PROVE  OwnAct(k) /\ dangling' = (dangling \/ FALSE)
<1>1. PICK h : h = Head(work_batch_[k])
  OBVIOUS
<1>2. /\ Pops(work_batch_, work_batch_', k, h)
      /\ active' = [active EXCEPT ![k] = h] /\ cur' = [cur EXCEPT ![k] = h]
      /\ wpc[k] = "resume" /\ wpc' = [wpc EXCEPT ![k] = "run"]
      /\ UNCHANGED <<frame, caller_, parked>>
      /\ dangling' = (dangling \/ frame[h] # "live")
  BY <1>1 DEF ResumeNext, Pops, GotoW, coro
<1>3. /\ wpc \in [Contexts -> WorkerPCs]
      /\ cur \in [Contexts -> Tasks \cup {NoTask}]
      /\ active \in [Contexts -> Tasks \cup {NoTask}]
      /\ Queues(work_batch_) /\ InnerInv
  BY DEF HandleInv, HandleTypes, QueuesInv, OwnInv
<1>4. h \in Tasks /\ h \in Range(work_batch_[k])
  BY <1>2, <1>3, QueuePop
<1>5. At(h, "batch", k) /\ Queued(h)
  <2>1. At(h, "batch", k) /\ "batch" \in Outside /\ k \in Spots
    BY <1>4, SpotsLemma DEF At, Outside, Kinds
  <2> QED BY <2>1 DEF Queued
<1>6. frame[h] = "live" /\ caller_[h] = NoTask
  BY <1>3, <1>4, <1>5, QueuedTop
<1>7. wpc'[k] = "run" /\ cur'[k] = h /\ active'[k] = h
      /\ cur' \in [Contexts -> Tasks \cup {NoTask}]
  BY <1>2, <1>3, <1>4
<1>8. Untouched(k)
  BY <1>2, <1>3 DEF Untouched
<1>9. FramesMove(k)
  BY <1>2 DEF FramesMove, OwnInv
<1>10. ActorInner(k)
  BY <1>2 DEF ActorInner, RunsOn
<1>11. Stack(k, {h})'
  BY <1>2, <1>6, <1>7 DEF Stack
<1>12. ActorOk(k)
  <2>1. CurOk(k)'
    BY <1>2, <1>4, <1>6, <1>7, <1>11 DEF CurOk
  <2>2. \A j \in Contexts \ {k} : Busy(j) => cur[j] # h
    BY <1>4, <1>5, BatchFresh
  <2> QED BY <1>7, <2>1, <2>2 DEF ActorOk
<1>13. dangling' = (dangling \/ FALSE)
  BY <1>2, <1>6
<1> QED BY <1>2, <1>7, <1>8, <1>9, <1>10, <1>12, <1>13 DEF OwnAct, OwnInv

(* done() and destroy(): the frame is still there. *)
LEMMA AfterOwn ==
  ASSUME HandleInv, OwnInv, NEW k \in Contexts, AfterResume(k)
  PROVE  OwnAct(k) /\ dangling' = (dangling \/ FALSE)
<1>1. /\ wpc[k] = "resumed"
      /\ \E p \in {"complete", "resume"} : wpc' = [wpc EXCEPT ![k] = p]
      /\ cur' = cur \/ cur' = [cur EXCEPT ![k] = NoTask]
      /\ \/ frame' = frame
         \/ frame' = [frame EXCEPT ![cur[k]] = "destroyed"]
      /\ UNCHANGED <<active, caller_, parked>>
      /\ dangling' = (dangling \/ frame[cur[k]] = "destroyed")
      /\ frame' = frame \/ frame[cur[k]] \in {"final", "destroyed"}
  BY DEF AfterResume, GotoW
<1>2. /\ wpc \in [Contexts -> WorkerPCs] /\ frame \in [Tasks -> Frames]
      /\ cur \in [Contexts -> Tasks \cup {NoTask}]
      /\ CurOk(k) /\ InnerInv
  BY DEF HandleInv, HandleTypes, OwnInv
<1>3. cur[k] \in Tasks /\ caller_[cur[k]] = NoTask /\ Busy(k)
  BY <1>1, <1>2 DEF CurOk, Busy
<1>4. frame[cur[k]] \in {"final", "live"}
  <2>1. CASE Kept(k)
    <3>1. Queued(cur[k])
      BY <1>3, <2>1, KeptQueued DEF HandleInv
    <3> QED BY <1>2, <1>3, <3>1, QueuedTop
  <2> QED BY <1>1, <1>2, <2>1 DEF CurOk
<1>5. ~Busy(k)' /\ wpc'[k] # "run" /\ cur' \in [Contexts -> Tasks \cup {NoTask}]
      /\ wpc'[k] # "resumed"
  BY <1>1, <1>2 DEF Busy
<1>6. Untouched(k)
  BY <1>1, <1>2 DEF Untouched
<1>7. FramesMove(k)
  BY <1>1, <1>2, <1>3, <1>4 DEF FramesMove, OwnInv
<1>8. ActorInner(k)
  BY <1>1 DEF ActorInner, RunsOn
<1>9. ActorOk(k)
  BY <1>5 DEF ActorOk, CurOk
<1>10. dangling' = (dangling \/ FALSE)
  BY <1>1, <1>4
<1> QED BY <1>1, <1>5, <1>6, <1>7, <1>8, <1>9, <1>10 DEF OwnAct, OwnInv

(* A frame without a caller is at the bottom of its stack. *)
LEMMA BottomCur ==
  ASSUME HandleInv, OwnInv, NEW k \in Contexts, wpc[k] = "run",
         caller_[active[k]] = NoTask
  PROVE  cur[k] = active[k]
<1>1. PICK W \in SUBSET Tasks : Stack(k, W)
  BY DEF OwnInv, CurOk
<1> QED BY <1>1, NoTaskAssumption DEF Stack

(* A frame that suspends is a task's, and is put where its worker finds it *)
(* again.                                                                  *)
LEMMA SuspendOwn ==
  ASSUME HandleInv, OwnHandles, OwnInv, NEW k \in Contexts, MaySuspend(k),
         \/ Yield(k) \/ IoSuspendOnce(k) \/ IoRead(k) \/ IoWrite(k)
         \/ "park" \in TaskCalls /\ Park(k)
  PROVE  OwnAct(k) /\ UNCHANGED dangling
<1>1. /\ wpc[k] = "run" /\ wpc' = [wpc EXCEPT ![k] = "resumed"]
      /\ active' = [active EXCEPT ![k] = NoTask]
      /\ UNCHANGED <<cur, frame, caller_, dangling>>
  BY DEF Yield, IoSuspendOnce, IoRead, IoWrite, Park, Suspending, Running,
     GotoW
<1>2. /\ wpc \in [Contexts -> WorkerPCs]
      /\ cur \in [Contexts -> Tasks \cup {NoTask}]
      /\ active \in [Contexts -> Tasks \cup {NoTask}]
      /\ QueuesInv /\ CurOk(k)
  BY DEF HandleInv, HandleTypes, OwnInv
<1>3. caller_[active[k]] = NoTask /\ cur[k] = active[k]
  BY <1>1, BottomCur DEF MaySuspend, OwnHandles
<1>4. PICK h \in Tasks : h = cur[k] /\ h = active[k] /\ h = cur'[k]
  BY <1>1, <1>2, <1>3 DEF CurOk, Busy
<1>5. Kept(k)'
  <2>1. \A q \in [Contexts -> Seq(Tasks)] :
          h \in Range([q EXCEPT ![k] = Append(@, h)][k])
    BY PushLemma
  <2>2. CASE Yield(k)
    <3>1. task_queue_' = [task_queue_ EXCEPT ![k] = Append(@, h)]
      BY <1>4, <2>2 DEF Yield, submit_task
    <3>2. At(cur[k], "task", k)'
      BY <1>2, <1>4, <2>1, <3>1 DEF At, QueuesInv, Queues
    <3> QED BY <3>2 DEF Kept
  <2>3. CASE IoSuspendOnce(k)
    <3>1. io_waiting_queue_' = [io_waiting_queue_ EXCEPT ![k] = Append(@, h)]
      BY <1>4, <2>3 DEF IoSuspendOnce
    <3>2. At(cur[k], "waiting", k)'
      BY <1>2, <1>4, <2>1, <3>1 DEF At, QueuesInv, Queues
    <3> QED BY <3>2 DEF Kept
  <2>4. CASE IoRead(k)
    <3>1. io_read_submit_queue_' =
            [io_read_submit_queue_ EXCEPT ![k] = Append(@, h)]
      BY <1>4, <2>4 DEF IoRead
    <3>2. At(cur[k], "read", k)'
      BY <1>2, <1>4, <2>1, <3>1 DEF At, QueuesInv, Queues
    <3> QED BY <3>2 DEF Kept
  <2>5. CASE IoWrite(k)
    <3>1. io_write_submit_queue_' =
            [io_write_submit_queue_ EXCEPT ![k] = Append(@, h)]
      BY <1>4, <2>5 DEF IoWrite
    <3>2. At(cur[k], "write", k)'
      BY <1>2, <1>4, <2>1, <3>1 DEF At, QueuesInv, Queues
    <3> QED BY <3>2 DEF Kept
  <2>6. CASE Park(k)
    BY <1>4, <2>6 DEF Park, Kept
  <2> QED BY <2>2, <2>3, <2>4, <2>5, <2>6
<1>6. Untouched(k)
  BY <1>1, <1>2 DEF Untouched
<1>7. FramesMove(k)
  BY <1>1 DEF FramesMove, OwnInv
<1>8. ActorInner(k)
  BY <1>3, NoTaskAssumption DEF ActorInner, RunsOn, AwaitsIn
<1>9. ActorOk(k)
  <2>1. CurOk(k)'
    BY <1>1, <1>2, <1>3, <1>4, <1>5 DEF CurOk
  <2>2. \A j \in Contexts \ {k} : Busy(j) => cur[j] # cur'[k]
    BY <1>1 DEF OwnInv, Busy
  <2> QED BY <2>1, <2>2 DEF ActorOk
<1>10. "park" \notin TaskCalls => parked' = {}
  BY DEF Yield, IoSuspendOnce, IoRead, IoWrite, OwnInv
<1> QED BY <1>1, <1>2, <1>6, <1>7, <1>8, <1>9, <1>10 DEF OwnAct

(* co_await of a Task: one more frame on the stack. *)
LEMMA AwaitOwn ==
  ASSUME HandleInv, OwnInv, NEW k \in Contexts, NEW h \in Tasks, Await(k, h)
  PROVE  OwnAct(k) /\ UNCHANGED dangling
<1>1. /\ wpc[k] = "run" /\ frame[h] = "none"
      /\ frame' = [frame EXCEPT ![h] = "live"]
      /\ caller_' = [caller_ EXCEPT ![h] = active[k]]
      /\ active' = [active EXCEPT ![k] = h]
      /\ UNCHANGED <<wpc, cur, parked, dangling>>
  BY DEF Await, Running
<1>2. /\ cur \in [Contexts -> Tasks \cup {NoTask}]
      /\ active \in [Contexts -> Tasks \cup {NoTask}]
      /\ frame \in [Tasks -> Frames]
      /\ caller_ \in [Tasks -> Tasks \cup {NoTask}]
      /\ CurOk(k) /\ InnerInv
  BY DEF HandleInv, HandleTypes, OwnInv
<1>3. PICK W \in SUBSET Tasks : Stack(k, W)
  BY <1>1, <1>2 DEF CurOk
<1>4. PICK a \in Tasks : a = active[k] /\ a \in W /\ frame[a] = "live"
  BY <1>3 DEF Stack
<1>5. /\ h \notin W /\ h # a /\ frame'[h] = "live" /\ caller_'[h] = a
      /\ active'[k] = h
      /\ \A t \in Tasks \ {h} : frame'[t] = frame[t] /\ caller_'[t] = caller_[t]
  BY <1>1, <1>2, <1>3, <1>4 DEF Stack
<1>6. RunsOn(h, k)' /\ AwaitsIn(a, h)'
  BY <1>1, <1>5 DEF RunsOn, AwaitsIn
<1>7. Untouched(k)
  BY <1>1, <1>2 DEF Untouched
<1>8. FramesMove(k)
  <2>1. \A t \in Tasks : frame[t] = "destroyed" => caller_[t] = NoTask
    BY DEF OwnInv
  <2> QED BY <1>1, <1>5, <1>6, <2>1 DEF FramesMove, Entered
<1>9. ActorInner(k)
  <2> SUFFICES ASSUME NEW t \in Tasks,
                      RunsOn(t, k) \/ \E c \in Tasks : AwaitsIn(t, c) /\ RunsOn(c, k)
               PROVE  Entered(t)'
    BY DEF ActorInner
  <2>1. CASE RunsOn(t, k)
    BY <1>4, <1>6, <2>1 DEF RunsOn, Entered
  <2>2. CASE \E c \in Tasks : AwaitsIn(t, c) /\ RunsOn(c, k)
    <3>1. AwaitsIn(t, a)
      BY <1>4, <2>2 DEF RunsOn
    <3>2. AwaitsIn(t, a)'
      BY <1>4, <1>5, <3>1 DEF AwaitsIn
    <3> QED BY <3>2 DEF Entered
  <2> QED BY <2>1, <2>2
<1>10. Stack(k, W \cup {h})'
  BY <1>1, <1>3, <1>4, <1>5 DEF Stack
<1>11. ActorOk(k)
  <2>1. cur[k] \in Tasks /\ caller_[cur[k]] = NoTask /\ cur[k] # h
    BY <1>1, <1>2, <1>3, <1>5 DEF CurOk, Busy, Stack
  <2>2. CurOk(k)'
    BY <1>1, <1>5, <1>10, <2>1 DEF CurOk
  <2>3. \A j \in Contexts \ {k} : Busy(j) => cur[j] # cur'[k]
    BY <1>1 DEF OwnInv, Busy
  <2> QED BY <2>2, <2>3 DEF ActorOk
<1> QED BY <1>1, <1>2, <1>7, <1>8, <1>9, <1>11 DEF OwnAct, OwnInv

(* The body ends: back to the frame that awaits it, or to the worker. *)
LEMMA FinishOwn ==
  ASSUME HandleInv, OwnInv, NEW k \in Contexts, Finish(k)
  PROVE  OwnAct(k) /\ dangling' = (dangling \/ FALSE)
<1>0. PICK h, c : h = active[k] /\ c = caller_[active[k]]
  OBVIOUS
<1> DEFINE S == Owned(h)
<1>1. /\ wpc[k] = "run"
      /\ frame' = [Drop(S, frame) EXCEPT ![h] =
                     IF @ = "destroyed" THEN "destroyed" ELSE "final"]
      /\ caller_' = Disowned(S)
      /\ active' = [active EXCEPT ![k] = c]
      /\ \/ /\ c = NoTask /\ wpc' = [wpc EXCEPT ![k] = "resumed"]
            /\ dangling' = (dangling \/ Twice(S))
         \/ /\ c # NoTask /\ UNCHANGED wpc
            /\ dangling' = (dangling \/ Twice(S) \/ frame[c] # "live")
      /\ UNCHANGED <<cur, parked>>
  BY <1>0 DEF Finish, Running, GotoW
<1>2. /\ wpc \in [Contexts -> WorkerPCs]
      /\ cur \in [Contexts -> Tasks \cup {NoTask}]
      /\ active \in [Contexts -> Tasks \cup {NoTask}]
      /\ caller_ \in [Tasks -> Tasks \cup {NoTask}]
      /\ CurOk(k)
  BY DEF HandleInv, HandleTypes, OwnInv
<1>3. PICK W \in SUBSET Tasks : Stack(k, W)
  BY <1>1, <1>2 DEF CurOk
<1>4. /\ h \in Tasks /\ h \in W /\ frame[h] = "live" /\ RunsOn(h, k)
      /\ c = caller_[h] /\ c \in Tasks \cup {NoTask}
      /\ cur[k] \in Tasks /\ cur[k] \in W /\ caller_[cur[k]] = NoTask
  BY <1>0, <1>1, <1>2, <1>3 DEF Stack, RunsOn, CurOk, Busy
<1>5. /\ S \subseteq Tasks /\ ~Twice(S)
      /\ \A t \in S : frame[t] = "final" /\ caller_[t] # NoTask
      /\ \A t \in Tasks :
           /\ Drop(S, frame)[t] = IF t \in S THEN "destroyed" ELSE frame[t]
           /\ Disowned(S)[t] = IF t \in S THEN NoTask ELSE caller_[t]
  BY <1>4, OwnedLemma
<1>6. Drop(S, frame) = [t \in Tasks |-> Drop(S, frame)[t]]
  BY DEF Drop
<1> HIDE DEF S
<1>7. /\ h \notin S /\ frame'[h] = "final"
      /\ \A t \in Tasks \ {h} :
           frame'[t] = IF t \in S THEN "destroyed" ELSE frame[t]
      /\ \A t \in Tasks : caller_'[t] = IF t \in S THEN NoTask ELSE caller_[t]
      /\ active'[k] = c
  BY <1>1, <1>2, <1>4, <1>5, <1>6
<1>8. Drops(S, k)
  BY <1>4, <1>5, <1>7 DEF Drops
<1>9. FramesMove(k)
  BY <1>8, DropsMove
<1>10. Untouched(k)
  BY <1>1, <1>2 DEF Untouched
<1>11. /\ \A t \in Tasks : RunsOn(t, k) => t = h
       /\ \A t \in Tasks : ~AwaitsIn(h, t)
  BY <1>4, EnteredOnce DEF RunsOn
<1>12. \A j \in Contexts \ {k} : Busy(j) => cur[j] # cur'[k]
  BY <1>1 DEF OwnInv, Busy
<1>13. CASE c = NoTask
  <2>1. cur[k] = h
    BY <1>0, <1>1, <1>13, BottomCur
  <2>2. wpc'[k] = "resumed" /\ dangling' = (dangling \/ FALSE)
    BY <1>1, <1>2, <1>5, <1>13
  <2>3. ActorInner(k)
    BY <1>4, <1>7, <1>11, <1>13, NoTaskAssumption DEF ActorInner, AwaitsIn
  <2>4. CurOk(k)'
    BY <1>1, <1>4, <1>5, <1>7, <2>1, <2>2 DEF CurOk
  <2> QED BY <1>1, <1>2, <1>9, <1>10, <1>12, <2>2, <2>3, <2>4
          DEF OwnAct, ActorOk, OwnInv
<1>14. CASE c # NoTask
  <2>1. c \in Tasks /\ AwaitsIn(c, h) /\ c # h /\ h # cur[k] /\ c \in W
    BY <1>3, <1>4, <1>11, <1>14 DEF AwaitsIn, Stack
  <2>2. frame[c] = "live"
    BY <1>4, <2>1, EnteredOnce
  <2>3. dangling' = (dangling \/ FALSE) /\ wpc'[k] = "run"
    BY <1>1, <1>5, <1>14, <2>2
  <2>4. RunsOn(c, k)'
    BY <1>7, <2>3 DEF RunsOn
  <2>5. ActorInner(k)
    BY <1>4, <1>7, <1>11, <2>4 DEF ActorInner, AwaitsIn, Entered
  <2>6. ASSUME NEW t \in W \ {h}
        PROVE  /\ frame'[t] = "live" /\ caller_'[t] = caller_[t] /\ t \in Tasks
               /\ caller_[t] # h
    BY <1>3, <1>5, <1>7, <1>11 DEF Stack, AwaitsIn
  <2>7. ASSUME NEW t \in W \ {h}
        PROVE  t = c \/ \E d \in W \ {h} : caller_[d] = t
    BY <1>0, <1>3, <1>4 DEF Stack
  <2>8. ASSUME NEW t \in W \ {h}
        PROVE  t = cur[k] \/ caller_[t] \in W \ {h}
    BY <1>3, <2>6 DEF Stack
  <2>9. Stack(k, W \ {h})'
    BY <1>1, <1>4, <1>7, <2>1, <2>6, <2>7, <2>8 DEF Stack
  <2>10. CurOk(k)'
    <3>1. caller_'[cur[k]] = NoTask
      BY <1>4, <1>7
    <3> QED BY <1>1, <1>4, <2>3, <2>9, <3>1 DEF CurOk
  <2> QED BY <1>1, <1>2, <1>9, <1>10, <1>12, <2>3, <2>5, <2>10
          DEF OwnAct, ActorOk, OwnInv
<1> QED BY <1>13, <1>14

(* The steps in which a worker enters or leaves a frame. *)
Acts(k) ==
  \/ ResumeNext(k) /\ work_batch_[k] # <<>>
  \/ AfterResume(k) \/ Finish(k) \/ \E t \in Tasks : Await(k, t)
  \/ MaySuspend(k) /\ Suspending(k)

(* Nothing that is gone is touched, and every frame keeps its owner. *)
OwnActs == OwnAct(N) \/ \E k \in Contexts : Acts(k) /\ OwnAct(k)
Sound == OwnActs /\ (~dangling => ~dangling')

(* Every step of a worker is sound. *)
LEMMA WorkerOwn ==
  ASSUME ShutInv, HandleInv, OwnHandles, OwnInv, NEW k \in Contexts, Worker(k)
  PROVE  Sound
<1>1. k \in Executors /\ contexts \subseteq Contexts
  BY DEF Executors, ShutInv
<1>2. ASSUME dangling' = (dangling \/ FALSE) \/ UNCHANGED dangling
      PROVE  ~dangling => ~dangling'
  BY <1>2
<1>3. CASE WorkerLoop(k) \/ Complete(k)
  <2>1. CASE ResumeNext(k) /\ work_batch_[k] # <<>>
    BY <1>2, <2>1, ResumeOwn DEF Sound, OwnActs, Acts
  <2>2. CASE AfterResume(k)
    BY <1>2, <2>2, AfterOwn DEF Sound, OwnActs, Acts
  <2>3. CASE \/ Idles(k) \/ PopBatch(k) \/ PollPrepare(k) \/ UringSubmit(k)
             \/ Reap(k) \/ Complete(k)
    <3>1. UNCHANGED dangling
      BY <2>3 DEF Idles, PopBatch, ResumeNext, PollReturn, CanStop, WaitCheck,
         WaitBlock, SpuriousWake, PollPrepare, UringSubmit, Reap, Complete
    <3> QED BY <1>2, <2>3, <3>1, LoopOwn DEF Sound, OwnActs
  <2> QED BY <1>3, <2>1, <2>2, <2>3 DEF WorkerLoop, Idles
<1>4. CASE Body(k)
  <2>1. CASE Finish(k) \/ Release(k)
    BY <1>2, <2>1, FinishOwn, ReleaseOwn DEF Sound, OwnActs, Acts
  <2>2. CASE WakeOne(k)
    <3>1. UNCHANGED dangling
      BY <2>2 DEF WakeOne, Wake
    <3> QED BY <1>2, <2>2, <3>1, LoopOwn DEF Sound, OwnActs
  <2>3. CASE \E t \in Tasks : Await(k, t)
    BY <1>2, <2>3, AwaitOwn DEF Sound, OwnActs, Acts
  <2>4. CASE /\ MaySuspend(k)
             /\ \/ Yield(k) \/ IoSuspendOnce(k) \/ IoRead(k) \/ IoWrite(k)
                \/ "park" \in TaskCalls /\ Park(k)
    <3>1. Suspending(k)
      BY <2>4 DEF Yield, IoSuspendOnce, IoRead, IoWrite, Park
    <3> QED BY <1>2, <2>4, <3>1, SuspendOwn DEF Sound, OwnActs, Acts
  <2> QED BY <1>4, <2>1, <2>2, <2>3, <2>4 DEF Body
<1>5. CASE \E t \in Tasks : Spawn(k, t) \/ SubmitNew(k, t)
  <2>1. UNCHANGED dangling
    BY <1>5 DEF Spawn, SubmitNew
  <2> QED BY <1>1, <1>2, <1>5, <2>1, NewOwn DEF Sound, OwnActs
<1>6. CASE SubmitPush(k)
  <2>1. UNCHANGED dangling
    BY <1>6 DEF SubmitPush
  <2> QED BY <1>1, <1>2, <1>6, <2>1, PushOwn DEF Sound, OwnActs
<1> QED BY <1>3, <1>4, <1>5, <1>6 DEF Worker, Nested

(* So is every step of a thread outside the runtime. *)
LEMMA ThreadOwn ==
  ASSUME ShutInv, HandleInv, OwnInv, NEW u \in Threads,
         Starts(u) \/ Continue(u) \/ LoopSpurious(u)
  PROVE  Sound
<1>1. u \in Executors /\ contexts \subseteq Contexts
  BY DEF Executors, ShutInv
<1>2. CASE Submit(u)
  <2>1. UNCHANGED dangling /\ \E t \in Tasks : SubmitNew(u, t)
    BY <1>2 DEF Submit, SubmitNew
  <2> QED BY <1>1, <2>1, NewOwn DEF Sound, OwnActs
<1>3. CASE SubmitPush(u)
  <2>1. UNCHANGED dangling
    BY <1>3 DEF SubmitPush
  <2> QED BY <1>1, <1>3, <2>1, PushOwn DEF Sound, OwnActs
<1>4. CASE InlineEnd(u)
  BY <1>4, InlineOwn DEF Sound, OwnActs
<1>5. CASE Controls(u)
  <2>1. UNCHANGED dangling
    BY <1>5 DEF Controls, InitScheduler, Loop, Stop, LoopCheck, LoopBlock,
       LoopSpurious, StopNotify, Shutdown, RequestStop, NotifyStop, Return,
       Join, threadOnly, engineVars
  <2> QED BY <1>5, <2>1, ControlOwn DEF Sound, OwnActs
<1>6. CASE Join(u) /\ todo[u] = {First(todo[u])}
  <2>1. DestroyContexts
        /\ UNCHANGED <<caller_, active, cur, parked, wpc, dangling>>
    BY <1>6 DEF Join, worker, batch
  <2> QED BY <2>1, DestroyOwn DEF Sound, OwnActs
<1> QED BY <1>2, <1>3, <1>4, <1>5, <1>6 DEF Starts, Continue, Controls

(* So is every step. *)
LEMMA NextOwn ==
  ASSUME ShutInv, HandleInv, OwnHandles, OwnInv, [CoreNext]_coreVars
  PROVE  OwnActs /\ (CoreNext => Sound)
<1> USE DEF Sound
<1>1. CASE \E k \in Contexts : Worker(k)
  BY <1>1, WorkerOwn
<1>2. CASE \/ \E u \in Threads : Starts(u) \/ Continue(u)
           \/ \E u \in Threads : LoopSpurious(u)
  BY <1>2, ThreadOwn
<1>3. CASE \E k \in Contexts : SpuriousWake(k) \/ KernelComplete(k)
  <2>1. UNCHANGED dangling
    BY <1>3 DEF SpuriousWake, KernelComplete
  <2> QED BY <1>3, <2>1, LoopOwn DEF Idles, OwnActs
<1>4. CASE UNCHANGED coreVars
  <2>1. UNCHANGED <<frame, caller_, wpc, active, cur, parked>>
    BY <1>4 DEF coreVars, worker, batch, coro
  <2>2. Bystands
    BY <2>1 DEF Bystands, Untouched, OwnInv
  <2>3. OwnActs
    BY <2>2, BystandOwn DEF OwnActs
  <2> QED BY <1>1, <1>2, <1>3, <2>3 DEF CoreNext, Surroundings
<1> QED BY <1>1, <1>2, <1>3, <1>4 DEF CoreNext, Surroundings

(* At the start nobody owns anything. *)
LEMMA InitOwn ==
  ASSUME Init PROVE OwnInv /\ ~dangling
<1>1. /\ wpc = [k \in Contexts |-> "none"]
      /\ cur = [k \in Contexts |-> NoTask]
      /\ frame = [t \in Tasks |-> "none"]
      /\ parked = {} /\ dangling = FALSE
  BY DEF Init, EngineInit
<1> QED BY <1>1 DEF OwnInv, InnerInv, CurOk, Busy

(* Every handle has an owner in every state. *)
LEMMA OwnHolds ==
  ASSUME OwnHandles PROVE Spec => []OwnInv
<1>1. Init => OwnInv
  BY InitOwn
<1>2. ShutInv /\ HandleInv /\ OwnInv /\ [CoreNext]_coreVars => OwnInv'
  BY OwnHandles, NextOwn, OwnActStep DEF OwnActs
<1> QED BY <1>1, <1>2, ShutHolds, HandleHolds, CoreAlways, PTL DEF Spec

(* No thread outside the runtime takes a coroutine from a wait queue. *)
NoOutsideWake == \A u \in Threads : "resume" \notin Calls[u]
NothingInlined == inlined = [u \in Threads |-> <<>>]

(* NoDangling of every scheduler whose coroutines suspend only in frames   *)
(* that nobody awaits, are not woken by threads outside the runtime and,   *)
(* where several workers run, not by a worker either: process_work_once    *)
(* asks and destroys frames that are there, no batch holds the handle of a *)
(* frame that is gone, and no frame ends into a caller that is.            *)
THEOREM SchedulerNoDangling ==
  ASSUME OwnHandles, NoOutsideWake PROVE Spec => []NoDangling
<1> DEFINE Inv == NothingInlined /\ ~dangling
<1>1. Init => Inv
  BY DEF Init, EngineInit, NothingInlined
<1>2. ShutInv /\ HandleInv /\ OwnInv /\ Inv /\ [Next]_vars => Inv'
  <2> SUFFICES ASSUME ShutInv, HandleInv, OwnInv, Inv, [Next]_vars PROVE Inv'
    OBVIOUS
  <2>1. ~\E u \in Threads : Inline(u)
    BY NoOutsideWake DEF NoOutsideWake, Inline, InlineResume, InlinePark,
       InlineEnd, InlineReturn, RunsInlined, Enter, NothingInlined
  <2>2. inlined' = inlined
    BY <2>1 DEF Next, vars, schedVars, Worker, WorkerLoop, Complete, Body,
       Nested, Spawn, SubmitNew, SubmitPush, Begin, Submit, InitScheduler, Loop,
       Stop, Continue, LoopCheck, LoopBlock, StopNotify, Shutdown, RequestStop,
       NotifyStop, Join, Return, SubmitNotify, notifyOnly, Environment,
       LoopSpurious, threadOnly
  <2>3. [CoreNext]_coreVars /\ (CoreNext \/ UNCHANGED dangling)
    BY <2>1, NextCore DEF ShutInv, ShutTypes, Inline
  <2>4. ~dangling'
    BY <2>3, OwnHandles, NextOwn DEF Sound
  <2> QED BY <2>2, <2>4 DEF NothingInlined
<1>3. Inv => NoDangling
  BY DEF NoDangling
<1> HIDE DEF Inv
<1> QED BY <1>1, <1>2, <1>3, OwnHandles, ShutHolds, HandleHolds, OwnHolds, PTL
        DEF Spec
----------------------------------------------------------------------------
(* What pending_tasks_ counts *)

(* A coroutine that has parked in one life of the scheduler is not woken   *)
(* by a worker of the next one, whose init() has forgotten it.             *)
NoLateWake ==
  MaxInits \in {0, 1} \/ "park" \notin TaskCalls \/ "wake" \notin TaskCalls

(* A handle that init() has forgotten: parked where no worker wakes it, or *)
(* in the hand of a submit whose context is gone.                          *)
Forgotten(t) ==
  \/ t \in parked /\ "wake" \notin TaskCalls
  \/ \E x \in Executors : hand[x] = t /\ target[x] = N

(* The accepted tasks are the frames without a caller, except for those    *)
(* that init() has forgotten.                                              *)
AcceptedInv ==
  /\ accepted \subseteq Tasks /\ IsFiniteSet(accepted)
  /\ \A t \in accepted : frame[t] # "none" /\ caller_[t] = NoTask
  /\ \A t \in Tasks : frame[t] = "live" /\ caller_[t] = NoTask /\ ~Entered(t)
                        => t \in accepted \/ Forgotten(t)
  /\ \A k \in Contexts : Busy(k) => cur[k] \in accepted

(* Without contexts nothing is on its way to a worker. *)
GoneInv ==
  /\ target \in [Executors -> 0..N] /\ next_ \in Contexts
  /\ contexts = {} =>
       /\ \A x \in Executors : hand[x] # NoTask => target[x] = N
       /\ \A k \in Contexts : task_queue_[k] = <<>>
  /\ \A k \in Contexts : Ended(k) => inflight_io_[k] = 0
  /\ inits \in Nat /\ (inits = 0 => contexts = {} /\ parked = {})

(* The next context is one of them. *)
LEMMA NextContext ==
  ASSUME NEW n \in Contexts PROVE (n + 1) % N \in Contexts /\ n \in 0..N
<1>1. N \in Nat \ {0} /\ n + 1 \in Nat /\ n \in 0..N
  BY ContextsAssumption DEF Contexts
<1>2. \A m \in Nat : m % N \in 0..N - 1
  BY <1>1
<1> QED BY <1>1, <1>2 DEF Contexts

(* A worker takes a step of its own only while its loop runs. *)
LEMMA EndedRests ==
  ASSUME NEW k \in Contexts, Worker(k), ~SubmitPush(k)
  PROVE  ~Ended(k)
BY DEF Worker, WorkerLoop, PopBatch, ResumeNext, AfterResume, PollPrepare,
   UringSubmit, Reap, PollReturn, CanStop, WaitCheck, WaitBlock, Complete,
   Body, Nested, Spawn, Running, Ended

(* Targets are contexts, or N. *)
LEMMA TargetStep ==
  ASSUME GoneInv, [CoreNext]_coreVars
  PROVE  target' \in [Executors -> 0..N] /\ next_' \in Contexts
<1>1. target \in [Executors -> 0..N] /\ next_ \in Contexts /\ N \in 0..N
      /\ 0 \in 0..N /\ 0 \in Contexts
  BY ContextsAssumption DEF GoneInv, Contexts
<1>2. next_ \in 0..N /\ (next_ + 1) % N \in Contexts
  BY <1>1, NextContext
<1>3. CASE UNCHANGED <<target, next_>>
  BY <1>1, <1>3
<1>4. ASSUME NEW x \in Executors, NEW t \in Tasks, SubmitNew(x, t)
      PROVE  target' \in [Executors -> 0..N] /\ next_' \in Contexts
  BY <1>1, <1>2, <1>4 DEF SubmitNew, submitVars
<1>5. ASSUME NEW x \in Executors, SubmitPush(x)
      PROVE  target' \in [Executors -> 0..N] /\ next_' \in Contexts
  BY <1>1, <1>5 DEF SubmitPush
<1>6. CASE \E k \in Contexts : Worker(k)
  BY <1>3, <1>4, <1>5, <1>6 DEF Worker, WorkerLoop, Complete, Body, Nested,
     Spawn, schedVars, submitVars, Executors
<1>7. CASE \E u \in Threads : Starts(u) \/ Continue(u)
  <2>1. PICK u \in Threads : Starts(u) \/ Continue(u)
    BY <1>7
  <2>2. CASE Submit(u) \/ SubmitPush(u)
    BY <1>4, <1>5, <2>2 DEF Submit, Executors
  <2>3. CASE InitScheduler(u)
    BY <1>1, <2>3 DEF InitScheduler, submitVars
  <2>4. CASE Join(u)
    BY <1>1, <2>4 DEF Join, DestroyContexts
  <2> QED BY <1>3, <2>1, <2>2, <2>3, <2>4 DEF Starts, Continue, InlineEnd,
          RunsInlined, inlineOnly, Loop, Stop, LoopCheck, LoopBlock, StopNotify,
          Shutdown, RequestStop, NotifyStop, Return, threadOnly, submitVars
<1>8. CASE Surroundings \/ UNCHANGED coreVars
  BY <1>3, <1>8 DEF Surroundings, coreSched, LoopSpurious, coreVars, schedVars,
     threadOnly, submitVars
<1> QED BY <1>6, <1>7, <1>8 DEF CoreNext

(* Nothing is sent to contexts that are gone. *)
LEMMA GoneQueues ==
  ASSUME ShutInv, HandleInv, GoneInv, [CoreNext]_coreVars, contexts' = {}
  PROVE  /\ \A x \in Executors : hand'[x] # NoTask => target'[x] = N
         /\ \A k \in Contexts : task_queue_'[k] = <<>>
<1> DEFINE Gone == /\ \A x \in Executors : hand'[x] # NoTask => target'[x] = N
                   /\ \A k \in Contexts : task_queue_'[k] = <<>>
<1>1. /\ target \in [Executors -> 0..N]
      /\ hand \in [Executors -> Tasks \cup {NoTask}]
  BY DEF GoneInv, HandleInv, HandleTypes
<1>2. CASE contexts = {} /\ UNCHANGED <<hand, target, task_queue_>>
  BY <1>2 DEF GoneInv
<1>3. ASSUME NEW x \in Executors, NEW t \in Tasks, SubmitNew(x, t),
             contexts = {}
      PROVE  Gone
  <2>1. ~initialized_
    BY <1>3, SomeContext DEF ShutInv
  <2> QED BY <1>2, <1>3, <2>1 DEF SubmitNew, submitVars, queuesE
<1>4. ASSUME NEW x \in Executors, SubmitPush(x), contexts = {}
      PROVE  Gone
  <2>1. /\ hand' = [hand EXCEPT ![x] = NoTask]
        /\ target' = [target EXCEPT ![x] = 0] /\ UNCHANGED task_queue_
    BY <1>4 DEF SubmitPush
  <2> QED BY <1>1, <1>4, <2>1 DEF GoneInv
<1>5. ASSUME NEW k \in Contexts, Worker(k) PROVE Gone
  <2>1. CASE SubmitPush(k)
    <3>1. contexts = {}
      BY <2>1 DEF SubmitPush
    <3> QED BY <1>4, <2>1, <3>1 DEF Executors
  <2>2. CASE ~SubmitPush(k)
    <3>1. UNCHANGED contexts
      BY <1>5, <2>2 DEF Worker, WorkerLoop, Complete, Body, Nested, Spawn,
         SubmitNew, schedVars
    <3>2. ~Ended(k)
      BY <1>5, <2>2, EndedRests
    <3> QED BY <3>1, <3>2 DEF ShutInv
  <2> QED BY <2>1, <2>2
<1>6. ASSUME NEW u \in Threads, Starts(u) \/ Continue(u) PROVE Gone
  <2>1. CASE SubmitPush(u)
    <3>1. contexts = {}
      BY <2>1 DEF SubmitPush
    <3> QED BY <1>4, <2>1, <3>1 DEF Executors
  <2>2. CASE Submit(u)
    <3>1. contexts = {}
      BY <2>2 DEF Submit, SubmitNew
    <3> QED BY <1>3, <2>2, <3>1 DEF Submit, Executors
  <2>3. CASE InitScheduler(u)
    BY <2>3, SomeContext DEF InitScheduler
  <2>4. CASE Join(u) /\ todo[u] = {First(todo[u])}
    <3>1. DestroyContexts /\ UNCHANGED hand
      BY <2>4 DEF Join
    <3> QED BY <3>1 DEF DestroyContexts
  <2>5. CASE Join(u) /\ todo[u] # {First(todo[u])}
    BY <1>2, <2>5 DEF Join
  <2> QED BY <1>2, <1>6, <2>1, <2>2, <2>3, <2>4, <2>5 DEF Starts, Continue,
          InlineEnd, RunsInlined, inlineOnly, Loop, Stop, LoopCheck, LoopBlock,
          StopNotify, Shutdown, RequestStop, NotifyStop, Return, threadOnly,
          submitVars, engineVars, queuesE
<1>7. CASE Surroundings \/ UNCHANGED coreVars
  BY <1>2, <1>7 DEF Surroundings, SpuriousWake, KernelComplete, LoopSpurious,
     coreVars, coreSched, schedVars, threadOnly, engineVars, submitVars, queuesE
<1> QED BY <1>5, <1>6, <1>7 DEF CoreNext

(* A worker that has ended has asked for nothing more. *)
LEMMA EndedStep ==
  ASSUME ShutInv, InflightInv, GoneInv, [CoreNext]_coreVars, NEW k \in Contexts,
         Ended(k)'
  PROVE  inflight_io_'[k] = 0
<1>1. /\ wpc \in [Contexts -> WorkerPCs]
      /\ inflight_io_ \in [Contexts -> Int]
      /\ Ended(k) => inflight_io_[k] = 0
  BY DEF ShutInv, ShutTypes, InflightInv, GoneInv
<1>2. CASE inflight_io_' = inflight_io_ /\ Ended(k)
  BY <1>1, <1>2
<1>3. ASSUME NEW j \in Contexts, Worker(j), ~SubmitPush(j)
      PROVE  inflight_io_'[k] = 0
  <2>1. CASE j = k
    <3>1. ~Ended(k)
      BY <1>3, <2>1, EndedRests
    <3>2. CanStop(k)
      BY <1>1, <1>3, <2>1, <3>1 DEF Worker, WorkerLoop, PopBatch, ResumeNext,
         AfterResume, PollPrepare, UringSubmit, Reap, PollReturn, WaitCheck,
         WaitBlock, Complete, Body, Finish, Release, WakeOne, Wake, Await,
         Yield, IoSuspendOnce, IoRead, IoWrite, Park, Suspending, Nested, Spawn,
         SubmitNew, Running, GotoW, Ended
    <3> QED BY <1>1, <3>1, <3>2 DEF CanStop, GotoW, Ended, counters
  <2>2. CASE j # k
    <3>1. inflight_io_'[k] = inflight_io_[k]
      BY <1>1, <1>3, <2>2 DEF Worker, WorkerLoop, PopBatch, ResumeNext,
         AfterResume, PollPrepare, UringSubmit, Reap, PollReturn, CanStop,
         WaitCheck, WaitBlock, Complete, Body, Finish, Release, WakeOne, Wake,
         Await, Yield, IoSuspendOnce, IoRead, IoWrite, Park, Suspending, Nested,
         Spawn, SubmitNew, on_io_inflight_begin, on_io_inflight_end, counters
    <3>2. Ended(k)
      BY <1>1, <1>3, <2>2 DEF Worker, WorkerLoop, PopBatch, ResumeNext,
         AfterResume, PollPrepare, UringSubmit, Reap, PollReturn, CanStop,
         WaitCheck, WaitBlock, Complete, Body, Finish, Release, WakeOne, Wake,
         Await, Yield, IoSuspendOnce, IoRead, IoWrite, Park, Suspending, Nested,
         Spawn, SubmitNew, GotoW, Ended, worker
    <3> QED BY <1>1, <3>1, <3>2
  <2> QED BY <2>1, <2>2
<1>4. ASSUME NEW x \in Executors, SubmitPush(x) PROVE inflight_io_'[k] = 0
  <2>1. inflight_io_' = inflight_io_ /\ Ended(k)
    BY <1>1, <1>4 DEF SubmitPush, GotoW, Notified, Ended, counters
  <2> QED BY <1>2, <2>1
<1>5. ASSUME NEW u \in Threads, Starts(u) \/ Continue(u)
      PROVE  inflight_io_'[k] = 0
  <2>1. CASE SubmitPush(u)
    BY <1>4, <2>1 DEF Executors
  <2>2. CASE ~SubmitPush(u)
    <3>1. inflight_io_' = inflight_io_
      BY <1>5, <2>2 DEF Starts, Continue, InitScheduler, Submit, SubmitNew,
         InlineEnd, RunsInlined, inlineOnly, Loop, Stop, LoopCheck, LoopBlock,
         StopNotify, Shutdown, RequestStop, NotifyStop, Join, Return,
         threadOnly, engineVars, counters
    <3>2. Ended(k)
      BY <1>1, <1>5, <2>2 DEF Starts, Continue, InitScheduler, Submit,
         SubmitNew, InlineEnd, RunsInlined, inlineOnly, Loop, Stop, LoopCheck,
         LoopBlock, StopNotify, Shutdown, RequestStop, NotifyStop, Join, Return,
         threadOnly, engineVars, GotoW, Notified, Ended
    <3> QED BY <1>2, <3>1, <3>2
  <2> QED BY <2>1, <2>2
<1>6. CASE Surroundings \/ UNCHANGED coreVars
  BY <1>1, <1>2, <1>6 DEF Surroundings, SpuriousWake, KernelComplete,
     LoopSpurious, coreVars, coreSched, threadOnly, engineVars, counters, GotoW,
     Ended
<1> QED BY <1>3, <1>4, <1>5, <1>6 DEF CoreNext, Executors

(* Before the first init() there are no contexts, and no parked frame. *)
LEMMA FirstInit ==
  ASSUME ShutInv, GoneInv, [CoreNext]_coreVars
  PROVE  inits' \in Nat /\ (inits' = 0 => contexts' = {} /\ parked' = {})
<1>1. inits \in Nat /\ (inits = 0 => contexts = {} /\ parked = {})
  BY DEF GoneInv
<1>2. CASE UNCHANGED <<inits, contexts, parked>>
  BY <1>1, <1>2
<1>3. ASSUME NEW k \in Contexts, Worker(k), ~SubmitPush(k)
      PROVE  inits' \in Nat /\ (inits' = 0 => contexts' = {} /\ parked' = {})
  <2>1. contexts # {}
    BY <1>3, EndedRests DEF ShutInv
  <2>2. UNCHANGED inits
    BY <1>3 DEF Worker, WorkerLoop, Complete, Body, Nested, Spawn, SubmitNew,
       schedVars
  <2> QED BY <1>1, <2>1, <2>2
<1>4. ASSUME NEW x \in Executors, SubmitPush(x)
      PROVE  UNCHANGED <<inits, contexts, parked>>
  BY <1>4 DEF SubmitPush
<1>5. ASSUME NEW u \in Threads, Starts(u) \/ Continue(u)
      PROVE  inits' \in Nat /\ (inits' = 0 => contexts' = {} /\ parked' = {})
  <2>1. CASE SubmitPush(u)
    BY <1>2, <1>4, <2>1 DEF Executors
  <2>2. CASE InitScheduler(u)
    BY <1>1, <2>2 DEF InitScheduler
  <2>3. CASE Join(u)
    BY <1>1, <2>3 DEF Join, DestroyContexts
  <2>4. CASE InlineEnd(u)
    BY <1>1, <2>4 DEF InlineEnd, RunsInlined, inlineOnly
  <2> QED BY <1>2, <1>5, <2>1, <2>2, <2>3, <2>4 DEF Starts, Continue, Submit,
          SubmitNew, Loop, Stop, LoopCheck, LoopBlock, StopNotify, Shutdown,
          RequestStop, NotifyStop, Return, threadOnly, engineVars, coro
<1>6. CASE Surroundings \/ UNCHANGED coreVars
  BY <1>2, <1>6 DEF Surroundings, SpuriousWake, KernelComplete, LoopSpurious,
     coreVars, coreSched, schedVars, threadOnly, engineVars, coro
<1> QED BY <1>2, <1>3, <1>4, <1>5, <1>6 DEF CoreNext, Executors

(* Every step keeps it so. *)
LEMMA GoneStep ==
  ASSUME ShutInv, HandleInv, InflightInv, GoneInv, [CoreNext]_coreVars
  PROVE  GoneInv'
BY TargetStep, GoneQueues, EndedStep, FirstInit DEF GoneInv

(* A task is accepted when its frame begins; frames that others await are  *)
(* none.                                                                   *)
Admits ==
  /\ accepted \subseteq accepted' /\ accepted' \subseteq Tasks
  /\ IsFiniteSet(accepted')
  /\ \A t \in accepted' \ accepted :
       frame[t] = "none" /\ frame'[t] = "live" /\ caller_'[t] = NoTask
  /\ \A t \in Tasks :
       frame[t] # "live" /\ frame'[t] = "live" /\ caller_'[t] = NoTask
       => t \in accepted'
  /\ \A t \in Tasks : frame[t] # "none" => frame'[t] # "none"

(* A step that begins no task. *)
LEMMA NoneAdmits ==
  ASSUME AcceptedInv, UNCHANGED accepted,
         \A t \in Tasks :
           /\ frame[t] # "live" /\ frame'[t] = "live" => caller_'[t] # NoTask
           /\ frame[t] # "none" => frame'[t] # "none"
  PROVE  Admits
BY DEF AcceptedInv, Admits

(* A step that begins one. *)
LEMMA OneAdmits ==
  ASSUME HandleInv, AcceptedInv, NEW h \in Tasks, frame[h] = "none",
         frame' = [frame EXCEPT ![h] = "live"], UNCHANGED caller_,
         accepted' = accepted \cup {h}
  PROVE  Admits
<1>1. frame \in [Tasks -> Frames] /\ caller_[h] = NoTask
  BY DEF HandleInv, HandleTypes, CallerInv
<1>2. IsFiniteSet(accepted \cup {h})
  BY FS_AddElement DEF AcceptedInv
<1> QED BY <1>1, <1>2 DEF AcceptedInv, Admits

(* Every step but init() admits the tasks it begins. *)
LEMMA AdmitStep ==
  ASSUME HandleInv, OwnInv, AcceptedInv, [CoreNext]_coreVars,
         \A u \in Threads : ~InitScheduler(u)
  PROVE  Admits
<1>1. /\ frame \in [Tasks -> Frames]
      /\ hand \in [Executors -> Tasks \cup {NoTask}]
      /\ caller_ \in [Tasks -> Tasks \cup {NoTask}]
      /\ parked \subseteq Tasks
  BY DEF HandleInv, HandleTypes
<1>2. CASE UNCHANGED <<frame, accepted>>
  BY <1>2, NoneAdmits
<1>3. ASSUME NEW x \in Executors, NEW t \in Tasks, SubmitNew(x, t)
      PROVE  Admits
  <2>1. frame[t] = "none" /\ UNCHANGED caller_
    BY <1>3 DEF SubmitNew
  <2>2. CASE initialized_ /\ accepting_
    BY <1>3, <2>1, <2>2, OneAdmits DEF SubmitNew
  <2>3. CASE ~(initialized_ /\ accepting_)
    <3>1. frame' = [frame EXCEPT ![t] = "destroyed"] /\ UNCHANGED accepted
      BY <1>3, <2>3 DEF SubmitNew
    <3> QED BY <1>1, <3>1, NoneAdmits
  <2> QED BY <2>2, <2>3
<1>4. ASSUME NEW x \in Executors, SubmitPush(x) PROVE Admits
  <2>1. UNCHANGED accepted
        /\ (frame' = frame \/ frame' = [frame EXCEPT ![hand[x]] = "leaked"])
    BY <1>4 DEF SubmitPush
  <2> QED BY <1>1, <2>1, NoneAdmits
<1>5. ASSUME NEW k \in Contexts, Worker(k) PROVE Admits
  <2>1. CASE \E t \in Tasks : Spawn(k, t)
    BY <2>1, OneAdmits DEF Spawn
  <2>2. CASE AfterResume(k) /\ UNCHANGED accepted
    <3>1. frame' = frame \/ frame' = [frame EXCEPT ![cur[k]] = "destroyed"]
      BY <2>2 DEF AfterResume
    <3> QED BY <1>1, <2>2, <3>1, NoneAdmits
  <2>3. CASE UNCHANGED accepted /\ \E t \in Tasks : Await(k, t)
    <3>1. PICK t \in Tasks :
            /\ frame' = [frame EXCEPT ![t] = "live"] /\ wpc[k] = "run"
            /\ caller_' = [caller_ EXCEPT ![t] = active[k]]
      BY <2>3 DEF Await, Running
    <3>2. active[k] # NoTask
      BY <3>1, NoTaskAssumption DEF HandleInv, WorkInv
    <3> QED BY <1>1, <2>3, <3>1, <3>2, NoneAdmits
  <2>4. CASE UNCHANGED accepted /\ (Finish(k) \/ Release(k))
    <3>1. \A t \in Tasks : frame'[t] \in {frame[t], "destroyed", "final"}
      BY <1>1, <2>4 DEF Finish, Release, Drop
    <3> QED BY <2>4, <3>1, NoneAdmits
  <2>5. CASE \E t \in Tasks : SubmitNew(k, t)
    BY <1>3, <2>5 DEF Executors
  <2>6. CASE SubmitPush(k)
    BY <1>4, <2>6 DEF Executors
  <2>7. CASE WorkerLoop(k) \/ Complete(k) \/ Body(k)
    <3>1. UNCHANGED accepted
      BY <2>7 DEF WorkerLoop, Complete, Body, schedVars
    <3>2. CASE WorkerLoop(k) \/ Complete(k)
      BY <1>2, <2>2, <3>1, <3>2 DEF WorkerLoop, PopBatch, ResumeNext,
         PollPrepare, UringSubmit, Reap, PollReturn, CanStop, WaitCheck,
         WaitBlock, Complete, coro
    <3>3. CASE Body(k)
      BY <1>2, <2>3, <2>4, <3>1, <3>3 DEF Body, WakeOne, Wake, Yield,
         IoSuspendOnce, IoRead, IoWrite, Park, Suspending
    <3> QED BY <2>7, <3>2, <3>3
  <2> QED BY <1>5, <2>1, <2>5, <2>6, <2>7 DEF Worker, Nested
<1>6. ASSUME NEW u \in Threads, Starts(u) \/ Continue(u) PROVE Admits
  <2>1. CASE Submit(u)
    BY <1>3, <2>1 DEF Submit, Executors
  <2>2. CASE SubmitPush(u)
    BY <1>4, <2>2 DEF Executors
  <2>3. CASE InlineEnd(u)
    <3>1. UNCHANGED accepted
      BY <2>3 DEF InlineEnd, RunsInlined, inlineOnly
    <3>2. \A t \in Tasks : frame'[t] \in {frame[t], "destroyed", "final"}
      BY <1>1, <2>3 DEF InlineEnd, RunsInlined, inlineOnly, Drop
    <3> QED BY <3>1, <3>2, NoneAdmits
  <2>4. CASE Join(u)
    <3>1. UNCHANGED accepted
      BY <2>4 DEF Join
    <3>2. \A t \in Tasks : frame'[t] \in {frame[t], "leaked"}
      BY <2>4 DEF Join, DestroyContexts
    <3> QED BY <3>1, <3>2, NoneAdmits
  <2> QED BY <1>2, <1>6, <2>1, <2>2, <2>3, <2>4 DEF Starts, Continue, Loop,
          Stop, LoopCheck, LoopBlock, StopNotify, Shutdown, RequestStop,
          NotifyStop, Return, threadOnly, engineVars, coro
<1>7. CASE Surroundings \/ UNCHANGED coreVars
  BY <1>2, <1>7 DEF Surroundings, SpuriousWake, KernelComplete, LoopSpurious,
     coreVars, coreSched, schedVars, threadOnly, engineVars, coro
<1> QED BY <1>5, <1>6, <1>7 DEF CoreNext

(* What init() has forgotten is not found again. *)
LEMMA ForgottenStep ==
  ASSUME ShutInv, HandleInv, GoneInv, [CoreNext]_coreVars, NEW t \in Tasks,
         Forgotten(t), frame'[t] = "live"
  PROVE  Forgotten(t)'
<1>1. /\ hand \in [Executors -> Tasks \cup {NoTask}]
      /\ target \in [Executors -> 0..N] /\ parked \subseteq Tasks
      /\ frame \in [Tasks -> Frames] /\ contexts \subseteq Contexts
  BY DEF HandleInv, HandleTypes, GoneInv, ShutInv
<1>2. CASE UNCHANGED <<hand, target>> /\ parked \subseteq parked'
  BY <1>2 DEF Forgotten
<1>3. ASSUME NEW x \in Executors, NEW h \in Tasks, SubmitNew(x, h)
      PROVE  Forgotten(t)'
  <2>1. /\ hand[x] = NoTask /\ UNCHANGED parked
        /\ \/ UNCHANGED <<hand, target>>
           \/ hand' = [hand EXCEPT ![x] = h]
              /\ target' = [target EXCEPT ![x] = next_]
    BY <1>3 DEF SubmitNew, submitVars
  <2> QED BY <1>1, <2>1, NoTaskAssumption DEF Forgotten
<1>4. ASSUME NEW x \in Executors, SubmitPush(x) PROVE Forgotten(t)'
  <2>1. /\ hand' = [hand EXCEPT ![x] = NoTask]
        /\ target' = [target EXCEPT ![x] = 0] /\ UNCHANGED parked
        /\ \/ target[x] \in contexts
           \/ frame' = [frame EXCEPT ![hand[x]] = "leaked"]
    BY <1>4 DEF SubmitPush
  <2>2. ~(hand[x] = t /\ target[x] = N)
    BY <1>1, <2>1, NotContext
  <2> QED BY <1>1, <2>1, <2>2 DEF Forgotten
<1>5. ASSUME NEW k \in Contexts, Worker(k) PROVE Forgotten(t)'
  <2>1. CASE \E h \in Tasks : SubmitNew(k, h)
    BY <1>3, <2>1 DEF Executors
  <2>2. CASE SubmitPush(k)
    BY <1>4, <2>2 DEF Executors
  <2>3. CASE WorkerLoop(k) \/ Complete(k) \/ \E h \in Tasks : Spawn(k, h)
    BY <1>2, <2>3 DEF WorkerLoop, PopBatch, ResumeNext, AfterResume,
       PollPrepare, UringSubmit, Reap, PollReturn, CanStop, WaitCheck,
       WaitBlock, Complete, Spawn, schedVars, submitVars, coro
  <2>4. CASE Body(k)
    <3>1. UNCHANGED <<hand, target>>
      BY <2>4 DEF Body, schedVars, submitVars
    <3>2. CASE "wake" \in TaskCalls /\ WakeOne(k)
      BY <3>1, <3>2 DEF Forgotten
    <3>3. CASE ~("wake" \in TaskCalls /\ WakeOne(k))
      BY <1>2, <2>4, <3>1, <3>3 DEF Body, Finish, Release, Await, Yield,
         IoSuspendOnce, IoRead, IoWrite, Park
    <3> QED BY <3>2, <3>3
  <2> QED BY <1>5, <2>1, <2>2, <2>3, <2>4 DEF Worker, Nested
<1>6. ASSUME NEW u \in Threads, Starts(u) \/ Continue(u) PROVE Forgotten(t)'
  <2>1. CASE Submit(u)
    BY <1>3, <2>1 DEF Submit, Executors
  <2>2. CASE SubmitPush(u)
    BY <1>4, <2>2 DEF Executors
  <2>3. CASE InlineEnd(u)
    <3>1. PICK p \in parked :
            /\ parked' = parked \ {p}
            /\ frame' = [Drop(Owned(p), frame) EXCEPT ![p] = "final"]
      BY <2>3 DEF InlineEnd, RunsInlined, inlineOnly
    <3>2. frame'[p] = "final"
      BY <1>1, <3>1 DEF Drop
    <3>3. UNCHANGED <<hand, target>> /\ t # p
      BY <2>3, <3>2 DEF InlineEnd, RunsInlined, inlineOnly, submitVars
    <3> QED BY <3>1, <3>3 DEF Forgotten
  <2>4. CASE Join(u)
    <3>1. /\ UNCHANGED <<hand, parked>>
          /\ \/ UNCHANGED target
             \/ target' = [x \in Executors |-> IF hand[x] = NoTask THEN 0 ELSE N]
      BY <2>4 DEF Join, DestroyContexts
    <3> QED BY <3>1, NoTaskAssumption DEF Forgotten
  <2> QED BY <1>2, <1>6, <2>1, <2>2, <2>3, <2>4 DEF Starts, Continue,
          InitScheduler, Loop, Stop, LoopCheck, LoopBlock, StopNotify,
          Shutdown, RequestStop, NotifyStop, Return, threadOnly, engineVars,
          coro, submitVars
<1>7. CASE Surroundings \/ UNCHANGED coreVars
  BY <1>2, <1>7 DEF Surroundings, SpuriousWake, KernelComplete, LoopSpurious,
     coreVars, coreSched, schedVars, threadOnly, engineVars, coro, submitVars
<1> QED BY <1>5, <1>6, <1>7 DEF CoreNext

(* A handle in a batch is an accepted task's. *)
LEMMA BatchAccepted ==
  ASSUME HandleInv, OwnInv, AcceptedInv, NEW k \in Contexts, NEW h \in Tasks,
         At(h, "batch", k)
  PROVE  h \in accepted
<1>1. /\ k \in Spots /\ h \in Spots /\ Executors \subseteq Spots
      /\ {"batch", "parked", "hand"} \subseteq Kinds /\ "batch" \in Outside
      /\ InnerInv
  BY SpotsLemma DEF Kinds, Outside, OwnInv
<1>2. Queued(h)
  BY <1>1 DEF Queued
<1>3. frame[h] = "live" /\ caller_[h] = NoTask
  BY <1>1, <1>2, QueuedTop
<1>4. ~Entered(h)
  BY <1>2, EnteredOnce DEF Entered
<1>5. ~Forgotten(h)
  <2>1. \A i \in Kinds, y \in Spots : At(h, i, y) => i = "batch"
    BY <1>1, Elsewhere
  <2>2. h \notin parked
    <3>1. h \in parked => At(h, "parked", h)
      BY DEF At
    <3> QED BY <1>1, <2>1, <3>1
  <2>3. \A x \in Executors : hand[x] # h
    <3>1. \A x \in Executors : hand[x] = h => At(h, "hand", x)
      BY DEF At
    <3> QED BY <1>1, <2>1, <3>1
  <2> QED BY <2>2, <2>3 DEF Forgotten
<1> QED BY <1>3, <1>4, <1>5 DEF AcceptedInv

(* What a worker has resumed is what it goes on with. *)
LEMMA CurStep ==
  ASSUME ShutInv, HandleInv, OwnInv, AcceptedInv, [CoreNext]_coreVars,
         NEW k \in Contexts, Busy(k)'
  PROVE  (Busy(k) /\ cur'[k] = cur[k]) \/ cur'[k] \in accepted
<1>1. /\ wpc \in [Contexts -> WorkerPCs]
      /\ cur \in [Contexts -> Tasks \cup {NoTask}]
      /\ Queues(work_batch_)
  BY DEF HandleInv, HandleTypes, QueuesInv, OwnInv
<1>2. CASE UNCHANGED <<wpc, cur>>
  BY <1>2 DEF Busy
<1>3. CASE /\ UNCHANGED cur
           /\ \/ \E j \in Contexts : wpc' = [wpc EXCEPT ![j] = Notified(j)]
              \/ wpc' = [j \in Contexts |-> "pop"]
  BY <1>1, <1>3 DEF Busy, Notified
<1>4. ASSUME NEW x \in Executors, SubmitPush(x)
      PROVE  Busy(k) /\ cur'[k] = cur[k]
  <2>1. contexts \subseteq Contexts
    BY DEF ShutInv
  <2> QED BY <1>1, <1>4, <2>1 DEF SubmitPush, GotoW, Notified, Busy, worker,
          batch
<1>5. ASSUME NEW j \in Contexts, Worker(j)
      PROVE  (Busy(k) /\ cur'[k] = cur[k]) \/ cur'[k] \in accepted
  <2>1. CASE \E t \in Tasks : SubmitNew(j, t)
    BY <1>2, <2>1 DEF SubmitNew, worker, batch
  <2>2. CASE SubmitPush(j)
    BY <1>4, <2>2 DEF Executors
  <2>3. CASE WorkerLoop(j) \/ Body(j) \/ Complete(j)
             \/ \E t \in Tasks : Spawn(j, t)
    <3>1. CASE j # k
      BY <1>1, <2>3, <3>1, WorkerAlone DEF Busy
    <3>2. CASE j = k /\ ResumeNext(k) /\ work_batch_[k] # <<>>
      <4>1. PICK h : h = Head(work_batch_[k])
        OBVIOUS
      <4>2. Pops(work_batch_, work_batch_', k, h) /\ cur'[k] = h
        BY <1>1, <3>2, <4>1 DEF ResumeNext, Pops
      <4>3. h \in Tasks /\ At(h, "batch", k)
        BY <1>1, <4>2, QueuePop DEF At
      <4> QED BY <4>2, <4>3, BatchAccepted
    <3>3. CASE j = k /\ ~(ResumeNext(k) /\ work_batch_[k] # <<>>)
      <4>1. CASE WorkerLoop(k) \/ Complete(k)
        BY <1>1, <3>3, <4>1 DEF WorkerLoop, PopBatch, ResumeNext, AfterResume,
           PollPrepare, UringSubmit, Reap, PollReturn, CanStop, WaitCheck,
           WaitBlock, Complete, GotoW, Busy
      <4>2. CASE Body(k) \/ \E t \in Tasks : Spawn(k, t)
        BY <4>2 DEF Body, Finish, Release, WakeOne, Wake, Await, Yield,
           IoSuspendOnce, IoRead, IoWrite, Park, Suspending, Spawn, Running,
           worker, batch, Busy
      <4> QED BY <2>3, <3>3, <4>1, <4>2
    <3> QED BY <3>1, <3>2, <3>3
  <2> QED BY <1>5, <2>1, <2>2, <2>3 DEF Worker, Nested
<1>6. ASSUME NEW u \in Threads, Starts(u) \/ Continue(u)
      PROVE  Busy(k) /\ cur'[k] = cur[k]
  <2>1. CASE SubmitPush(u)
    BY <1>4, <2>1 DEF Executors
  <2>2. CASE InitScheduler(u)
    BY <2>2 DEF InitScheduler, Busy
  <2>3. CASE NotifyStop(u)
    BY <1>1, <2>3 DEF NotifyStop, GotoW, Notified, Busy, worker, batch
  <2>4. CASE ~SubmitPush(u) /\ ~InitScheduler(u) /\ ~NotifyStop(u)
    <3>1. UNCHANGED <<wpc, cur>>
      BY <1>6, <2>4 DEF Starts, Continue, Submit, SubmitNew, InlineEnd,
         RunsInlined, inlineOnly, Loop, Stop, LoopCheck, LoopBlock, StopNotify,
         Shutdown, RequestStop, Join, Return, threadOnly, engineVars, worker,
         batch
    <3> QED BY <3>1 DEF Busy
  <2> QED BY <2>1, <2>2, <2>3, <2>4
<1>7. CASE Surroundings
  BY <1>1, <1>2, <1>7 DEF Surroundings, SpuriousWake, KernelComplete,
     LoopSpurious, threadOnly, engineVars, worker, batch, GotoW, Busy
<1>8. CASE UNCHANGED coreVars
  BY <1>2, <1>8 DEF coreVars, coreSched, engineVars, worker, batch
<1> QED BY <1>5, <1>6, <1>7, <1>8 DEF CoreNext

(* A frame without a caller that is left by its worker was resumed there. *)
LEMMA AcceptedStep ==
  ASSUME ShutInv, HandleInv, OwnInv, AcceptedInv, GoneInv, [CoreNext]_coreVars,
         NEW a, OwnAct(a), Admits
  PROVE  AcceptedInv'
<1>1. InnerInv /\ FramesMove(a) /\ Untouched(a) /\ ActorInner(a)
  BY DEF OwnInv, OwnAct
<1>2. ASSUME NEW t \in accepted' PROVE frame'[t] # "none" /\ caller_'[t] = NoTask
  <2>1. CASE t \in accepted
    <3>1. t \in Tasks /\ frame[t] # "none" /\ caller_[t] = NoTask
      BY <2>1 DEF AcceptedInv
    <3> QED BY <1>1, <3>1 DEF Admits, FramesMove
  <2>2. CASE t \notin accepted
    BY <1>2, <2>2 DEF Admits
  <2> QED BY <2>1, <2>2
<1>3. ASSUME NEW t \in Tasks, frame'[t] = "live", caller_'[t] = NoTask,
             ~Entered(t)'
      PROVE  t \in accepted' \/ Forgotten(t)'
  <2>1. CASE frame[t] # "live"
    BY <1>3, <2>1 DEF Admits
  <2>2. CASE frame[t] = "live"
    <3>1. caller_[t] = NoTask
      BY <1>1, <1>3, <2>2 DEF FramesMove
    <3>2. CASE ~Entered(t)
      <4>1. t \in accepted \/ Forgotten(t)
        BY <2>2, <3>1, <3>2 DEF AcceptedInv
      <4> QED BY <1>3, <4>1, ForgottenStep DEF Admits
    <3>3. ASSUME NEW k \in Contexts, RunsOn(t, k) PROVE t \in accepted'
      <4>1. k = a
        BY <1>1, <1>3, <3>3 DEF Untouched, RunsOn, Busy, Entered
      <4>2. t = cur[k] /\ Busy(k)
        BY <3>1, <3>3, BottomCur DEF RunsOn, Busy
      <4> QED BY <4>2 DEF AcceptedInv, Admits
    <3>4. ASSUME NEW c \in Tasks, AwaitsIn(t, c) PROVE FALSE
      <4>1. frame[c] = "live" /\ caller_[c] = t /\ t # NoTask
        BY <3>4, NoTaskAssumption DEF AwaitsIn
      <4>2. frame'[c] # "live"
        BY <1>1, <1>3, <4>1 DEF FramesMove, AwaitsIn, Entered
      <4>3. ~Queued(c)
        BY <1>1, <4>1, QueuedTop
      <4>4. RunsOn(c, a)
        BY <1>1, <4>1, <4>2, <4>3 DEF FramesMove
      <4> QED BY <1>1, <1>3, <2>2, <3>4, <4>4 DEF ActorInner
    <3> QED BY <3>2, <3>3, <3>4 DEF Entered
  <2> QED BY <2>1, <2>2
<1>4. ASSUME NEW k \in Contexts, Busy(k)' PROVE cur'[k] \in accepted'
  BY <1>4, CurStep DEF AcceptedInv, Admits
<1> QED BY <1>2, <1>3, <1>4 DEF AcceptedInv, Admits

(* Nothing is left in the engine of a worker that has ended. *)
LEMMA EndedEmpty ==
  ASSUME HandleInv, InflightInv, GoneInv, NEW k \in Contexts, Ended(k)
  PROVE  /\ io_waiting_queue_[k] = <<>> /\ io_read_submit_queue_[k] = <<>>
         /\ io_write_submit_queue_[k] = <<>> /\ sq[k] = <<>> /\ cq[k] = <<>>
         /\ ring[k] = {} /\ work_batch_[k] = <<>>
<1>1. QueuesInv /\ WorkInv /\ IsFiniteSet(ring[k]) /\ Asked(k) = 0
  BY DEF HandleInv, InflightInv, GoneInv
<1>2. /\ io_waiting_queue_[k] \in Seq(Tasks)
      /\ io_read_submit_queue_[k] \in Seq(Tasks)
      /\ io_write_submit_queue_[k] \in Seq(Tasks)
      /\ sq[k] \in Seq(Tasks) /\ cq[k] \in Seq(Tasks)
  BY <1>1 DEF QueuesInv, Queues
<1>3. PICK m \in Nat : m = Cardinality(ring[k])
  BY <1>1, FS_CardinalityType
<1>4. PICK a, b, c, d, e \in Nat :
        /\ a = Len(io_waiting_queue_[k]) /\ b = Len(io_read_submit_queue_[k])
        /\ c = Len(io_write_submit_queue_[k]) /\ d = Len(sq[k])
        /\ e = Len(cq[k])
  BY <1>2, LenProperties
<1>5. a + b + c + d + m + e = 0
  BY <1>1, <1>3, <1>4 DEF Asked
<1>6. a = 0 /\ b = 0 /\ c = 0 /\ d = 0 /\ m = 0 /\ e = 0
  BY ONLY <1>5
<1>7. ring[k] = {}
  BY <1>1, <1>3, <1>6, FS_EmptySet
<1>8. \A q \in Seq(Tasks) : Len(q) = 0 => q = <<>>
  BY EmptySeq
<1>9. work_batch_[k] = <<>>
  BY <1>1 DEF WorkInv, Processing, Ended
<1> QED BY <1>2, <1>4, <1>6, <1>7, <1>8, <1>9

(* init() forgets what is parked, and what is in a hand, and nothing else  *)
(* is there.                                                               *)
LEMMA ReinitAccepted ==
  ASSUME NoLateWake, ShutInv, HandleInv, OwnInv, InflightInv, GoneInv,
         NEW u \in Threads, InitScheduler(u)
  PROVE  AcceptedInv'
<1>1. /\ contexts = {} /\ inits < MaxInits /\ accepted' = {}
      /\ wpc' = [k \in Contexts |-> "pop"]
      /\ UNCHANGED <<frame, caller_, parked, hand, target>>
  BY DEF InitScheduler, coro, submitVars
<1>2. \A k \in Contexts : Ended(k)
  BY <1>1 DEF ShutInv
<1>3. "wake" \in TaskCalls => parked = {}
  <2>1. CASE MaxInits \in {0, 1}
    BY <1>1, <2>1 DEF GoneInv
  <2>2. CASE "park" \notin TaskCalls
    BY <2>2 DEF OwnInv
  <2> QED BY <2>1, <2>2 DEF NoLateWake
<1>4. ASSUME NEW t \in Tasks, frame'[t] = "live", ~Entered(t)'
      PROVE  Forgotten(t)'
  <2>1. PICK i \in Kinds, x \in Spots : At(t, i, x)
    <3>1. HeldOnce(t) /\ frame[t] = "live"
      BY <1>1, <1>4 DEF HandleInv
    <3> QED BY <3>1 DEF HeldOnce, OnlyAt
  <2>2. i # "caller" /\ i # "run"
    BY <1>1, <1>2, <1>4, <2>1 DEF At, Entered, AwaitsIn, Ended
  <2>3. i \in {"parked", "hand"}
    <3>1. \A k \in Contexts :
            /\ task_queue_[k] = <<>>
            /\ io_waiting_queue_[k] = <<>> /\ io_read_submit_queue_[k] = <<>>
            /\ io_write_submit_queue_[k] = <<>> /\ sq[k] = <<>> /\ cq[k] = <<>>
            /\ ring[k] = {} /\ work_batch_[k] = <<>>
      BY <1>1, <1>2, EndedEmpty DEF GoneInv
    <3>2. Range(<<>>) = {}
      BY EmptyQueueLemma
    <3> QED BY <2>1, <2>2, <3>1, <3>2 DEF At
  <2>4. CASE i = "parked"
    <3>1. t \in parked
      BY <2>1, <2>4 DEF At
    <3> QED BY <1>1, <1>3, <3>1 DEF Forgotten
  <2>5. CASE i = "hand"
    <3>1. x \in Executors /\ hand[x] = t
      BY <2>1, <2>5 DEF At
    <3>2. target[x] = N
      BY <1>1, <3>1, NoTaskAssumption DEF GoneInv
    <3> QED BY <1>1, <3>1, <3>2 DEF Forgotten
  <2> QED BY <2>3, <2>4, <2>5
<1>5. \A k \in Contexts : ~Busy(k)'
  BY <1>1 DEF Busy
<1>6. IsFiniteSet(accepted')
  BY <1>1, FS_EmptySet
<1> QED BY <1>1, <1>4, <1>5, <1>6 DEF AcceptedInv
----------------------------------------------------------------------------
(* The count *)

Open == {t \in accepted : frame[t] # "destroyed"}
Reporting == {k \in Contexts : wpc[k] = "complete"}

(* Both sets are finite. *)
LEMMA OpenFinite ==
  ASSUME AcceptedInv
  PROVE  /\ IsFiniteSet(Open) /\ IsFiniteSet(Reporting)
         /\ Cardinality(Open) \in Nat /\ Cardinality(Reporting) \in Nat
<1>1. IsFiniteSet(Open)
  <2>1. Open \in SUBSET accepted /\ IsFiniteSet(accepted)
    BY DEF Open, AcceptedInv
  <2> QED BY <2>1, FS_Subset
<1>2. IsFiniteSet(Reporting)
  <2>1. IsFiniteSet(Contexts)
    <3>1. 0 \in Int /\ N - 1 \in Int
      BY ContextsAssumption
    <3> QED BY <3>1, FS_Interval DEF Contexts
  <2>2. Reporting \in SUBSET Contexts
    BY DEF Reporting
  <2> QED BY <2>1, <2>2, FS_Subset
<1> QED BY <1>1, <1>2, FS_CardinalityType

(* How a step moves tasks from one set to the other. *)
Keeps == Open' = Open /\ Reporting' = Reporting /\ pending_tasks_' = pending_tasks_
Opens(h) ==
  /\ h \notin Open /\ Open' = Open \cup {h} /\ Reporting' = Reporting
  /\ pending_tasks_' = pending_tasks_ + 1
Destroys(h, k) ==
  /\ h \in Open /\ Open' = Open \ {h}
  /\ k \notin Reporting /\ Reporting' = Reporting \cup {k}
  /\ pending_tasks_' = pending_tasks_
Reports(k) ==
  /\ k \in Reporting /\ Reporting' = Reporting \ {k} /\ Open' = Open
  /\ pending_tasks_' = pending_tasks_ - 1
Resets == Open' = {} /\ Reporting' = {} /\ pending_tasks_' = 0

(* Each of these keeps the count exact. *)
LEMMA CountKept ==
  ASSUME AcceptedInv, PendingExact,
         \/ Keeps \/ Resets
         \/ \E h : Opens(h)
         \/ \E h, k : Destroys(h, k)
         \/ \E k : Reports(k)
  PROVE  PendingExact'
<1>1. pending_tasks_ = Cardinality(Open) + Cardinality(Reporting)
  BY DEF PendingExact, Open, Reporting
<1>2. PICK m, n \in Nat : m = Cardinality(Open) /\ n = Cardinality(Reporting)
  BY OpenFinite
<1>3. IsFiniteSet(Open) /\ IsFiniteSet(Reporting) /\ pending_tasks_ = m + n
  BY <1>1, <1>2, OpenFinite
<1>4. pending_tasks_' = Cardinality(Open') + Cardinality(Reporting')
  <2>1. CASE Keeps
    BY <1>1, <2>1 DEF Keeps
  <2>2. CASE Resets
    BY <2>2, FS_EmptySet DEF Resets
  <2>3. ASSUME NEW h, Opens(h)
        PROVE  pending_tasks_' = Cardinality(Open') + Cardinality(Reporting')
    <3>1. Cardinality(Open') = m + 1 /\ Cardinality(Reporting') = n
      BY <1>2, <1>3, <2>3, FS_AddElement DEF Opens
    <3> QED BY <1>3, <2>3, <3>1 DEF Opens
  <2>4. ASSUME NEW h, NEW k, Destroys(h, k)
        PROVE  pending_tasks_' = Cardinality(Open') + Cardinality(Reporting')
    <3>1. Cardinality(Open') = m - 1
      BY <1>2, <1>3, <2>4, FS_RemoveElement DEF Destroys
    <3>2. Cardinality(Reporting') = n + 1
      BY <1>2, <1>3, <2>4, FS_AddElement DEF Destroys
    <3> QED BY <1>3, <2>4, <3>1, <3>2 DEF Destroys
  <2>5. ASSUME NEW k, Reports(k)
        PROVE  pending_tasks_' = Cardinality(Open') + Cardinality(Reporting')
    <3>1. Cardinality(Open') = m /\ Cardinality(Reporting') = n - 1
      BY <1>2, <1>3, <2>5, FS_RemoveElement DEF Reports
    <3> QED BY <1>3, <2>5, <3>1 DEF Reports
  <2> QED BY <2>1, <2>2, <2>3, <2>4, <2>5
<1> QED BY <1>4 DEF PendingExact, Open, Reporting

(* Steps that neither accept nor destroy a task, nor report one. *)
Spares ==
  /\ UNCHANGED <<accepted, pending_tasks_>>
  /\ \A k \in Contexts : wpc'[k] = "complete" <=> wpc[k] = "complete"
  /\ \A t \in Tasks : caller_[t] = NoTask /\ frame[t] # "none" =>
       (frame'[t] = "destroyed" <=> frame[t] = "destroyed")

(* They leave the count as it is. *)
LEMMA SparesKeeps ==
  ASSUME AcceptedInv, Spares PROVE Keeps
<1>1. \A t \in accepted : frame'[t] = "destroyed" <=> frame[t] = "destroyed"
  BY DEF AcceptedInv, Spares
<1> QED BY <1>1 DEF Spares, Keeps, Open, Reporting

(* submit() and spawn count what they accept. *)
LEMMA NewCounts ==
  ASSUME HandleInv, AcceptedInv, NEW h \in Tasks,
         \/ \E x \in Executors : SubmitNew(x, h)
         \/ \E k \in Contexts : Spawn(k, h)
  PROVE  Opens(h) \/ Keeps
<1>1. frame \in [Tasks -> Frames] /\ frame[h] = "none" /\ UNCHANGED wpc
  BY DEF HandleInv, HandleTypes, SubmitNew, Spawn
<1>2. h \notin accepted /\ accepted \subseteq Tasks
  BY <1>1 DEF AcceptedInv
<1>3. \/ /\ frame' = [frame EXCEPT ![h] = "live"]
         /\ accepted' = accepted \cup {h}
         /\ pending_tasks_' = pending_tasks_ + 1
      \/ /\ frame' = [frame EXCEPT ![h] = "destroyed"]
         /\ UNCHANGED <<accepted, pending_tasks_>>
  BY DEF SubmitNew, Spawn
<1>4. Reporting' = Reporting
  BY <1>1 DEF Reporting
<1>5. CASE /\ frame' = [frame EXCEPT ![h] = "live"]
           /\ accepted' = accepted \cup {h}
           /\ pending_tasks_' = pending_tasks_ + 1
  <2>1. frame'[h] = "live" /\ \A t \in accepted : frame'[t] = frame[t]
    BY <1>1, <1>2, <1>5
  <2>2. Open' = Open \cup {h} /\ h \notin Open
    BY <1>2, <1>5, <2>1 DEF Open
  <2> QED BY <1>4, <1>5, <2>2 DEF Opens
<1>6. CASE /\ frame' = [frame EXCEPT ![h] = "destroyed"]
           /\ UNCHANGED <<accepted, pending_tasks_>>
  <2>1. \A t \in accepted : frame'[t] = frame[t]
    BY <1>1, <1>2, <1>6
  <2> QED BY <1>4, <1>6, <2>1 DEF Open, Keeps
<1> QED BY <1>3, <1>5, <1>6

(* A worker destroys the task that it has resumed, and reports it. *)
LEMMA AfterCounts ==
  ASSUME HandleInv, OwnInv, AcceptedInv, NEW k \in Contexts, AfterResume(k),
         UNCHANGED schedVars
  PROVE  Destroys(cur[k], k) \/ Keeps
<1>1. /\ wpc \in [Contexts -> WorkerPCs] /\ frame \in [Tasks -> Frames]
      /\ wpc[k] = "resumed" /\ Busy(k) /\ CurOk(k) /\ InnerInv
      /\ UNCHANGED <<accepted, pending_tasks_>>
  BY DEF HandleInv, HandleTypes, OwnInv, AfterResume, Busy, schedVars
<1>2. cur[k] \in Tasks /\ cur[k] \in accepted
  BY <1>1 DEF CurOk, AcceptedInv
<1>3. frame[cur[k]] \in {"final", "live"}
  <2>1. CASE Kept(k)
    <3>1. Queued(cur[k])
      BY <1>2, <2>1, KeptQueued DEF HandleInv
    <3> QED BY <1>1, <1>2, <3>1, QueuedTop
  <2> QED BY <1>1, <2>1 DEF CurOk
<1>4. \/ /\ frame' = [frame EXCEPT ![cur[k]] = "destroyed"]
         /\ wpc' = [wpc EXCEPT ![k] = "complete"]
      \/ frame' = frame /\ wpc' = [wpc EXCEPT ![k] = "resume"]
  BY DEF AfterResume, GotoW
<1>5. CASE /\ frame' = [frame EXCEPT ![cur[k]] = "destroyed"]
           /\ wpc' = [wpc EXCEPT ![k] = "complete"]
  <2>1. cur[k] \in Open /\ k \notin Reporting
    BY <1>1, <1>2, <1>3 DEF Open, Reporting
  <2>2. accepted \subseteq Tasks
    BY DEF AcceptedInv
  <2>3. Open' = Open \ {cur[k]}
    BY <1>1, <1>2, <1>5, <2>2 DEF Open
  <2>4. Reporting' = Reporting \cup {k}
    BY <1>1, <1>5 DEF Reporting
  <2> QED BY <1>1, <2>1, <2>3, <2>4 DEF Destroys
<1>6. CASE frame' = frame /\ wpc' = [wpc EXCEPT ![k] = "resume"]
  <2>1. Reporting' = Reporting
    BY <1>1, <1>6 DEF Reporting
  <2> QED BY <1>1, <1>6, <2>1 DEF Open, Keeps
<1> QED BY <1>4, <1>5, <1>6

(* The other steps of a worker. *)
LEMMA WorkerCounts ==
  ASSUME HandleInv, OwnInv, AcceptedInv, NEW k \in Contexts,
         WorkerLoop(k) \/ Body(k), ~AfterResume(k)
  PROVE  Spares
<1>1. /\ wpc \in [Contexts -> WorkerPCs] /\ frame \in [Tasks -> Frames]
  BY DEF HandleInv, HandleTypes
<1>2. UNCHANGED <<accepted, pending_tasks_>>
  BY DEF WorkerLoop, Body, schedVars
<1>3. wpc[k] # "complete"
  BY DEF WorkerLoop, PopBatch, ResumeNext, PollPrepare, UringSubmit, Reap,
     PollReturn, CanStop, WaitCheck, WaitBlock, Body, Running
<1>4. \A j \in Contexts : wpc'[j] = "complete" <=> wpc[j] = "complete"
  <2>1. CASE WorkerLoop(k)
    BY <1>1, <1>3, <2>1 DEF WorkerLoop, PopBatch, ResumeNext, PollPrepare,
       UringSubmit, Reap, PollReturn, CanStop, WaitCheck, WaitBlock, GotoW
  <2>2. CASE Body(k)
    BY <1>1, <1>3, <2>2 DEF Body, Finish, Release, WakeOne, Wake, Await, Yield,
       IoSuspendOnce, IoRead, IoWrite, Park, Suspending, GotoW
  <2> QED BY <2>1, <2>2
<1>5. ASSUME NEW t \in Tasks, caller_[t] = NoTask, frame[t] # "none"
      PROVE  frame'[t] = "destroyed" <=> frame[t] = "destroyed"
  <2>1. CASE frame' = frame
    BY <2>1
  <2>2. CASE WorkerLoop(k)
    BY <2>1, <2>2 DEF WorkerLoop, PopBatch, ResumeNext, PollPrepare,
       UringSubmit, Reap, PollReturn, CanStop, WaitCheck, WaitBlock, coro
  <2>3. CASE Finish(k) \/ Release(k)
    <3>1. active[k] \in Tasks /\ wpc[k] = "run"
      BY <2>3 DEF Finish, Release, Running, HandleInv, WorkInv
    <3>2. t \notin Owned(active[k])
      BY <1>5, <3>1, NoTaskAssumption DEF Owned
    <3>3. frame[active[k]] = "live"
      BY <3>1, EnteredOnce DEF RunsOn
    <3> QED BY <1>1, <1>5, <2>3, <3>1, <3>2, <3>3 DEF Finish, Release, Drop
  <2>4. CASE \E h \in Tasks : Await(k, h)
    BY <1>1, <1>5, <2>4 DEF Await
  <2> QED BY <2>1, <2>2, <2>3, <2>4 DEF Body, WakeOne, Wake, Yield,
          IoSuspendOnce, IoRead, IoWrite, Park, Suspending
<1> QED BY <1>2, <1>4, <1>5 DEF Spares

(* submit() has counted the task before it pushes it. *)
LEMMA PushCounts ==
  ASSUME ShutInv, HandleInv, NEW x \in Executors, SubmitPush(x) PROVE Spares
<1>1. /\ wpc \in [Contexts -> WorkerPCs] /\ frame \in [Tasks -> Frames]
      /\ contexts \subseteq Contexts /\ hand[x] \in Tasks
      /\ frame[hand[x]] = "live"
  BY SubmittedLive DEF HandleInv, HandleTypes, ShutInv, SubmitPush
<1> QED BY <1>1 DEF SubmitPush, GotoW, Notified, Spares

(* So do the threads outside the runtime, but for init(). *)
LEMMA ThreadCounts ==
  ASSUME ShutInv, HandleInv, OwnInv, NEW u \in Threads,
         Continue(u) \/ InlineEnd(u) \/ Loop(u) \/ Stop(u) \/ LoopSpurious(u)
  PROVE  Spares
<1>1. /\ wpc \in [Contexts -> WorkerPCs] /\ frame \in [Tasks -> Frames]
      /\ parked \subseteq Tasks
  BY DEF HandleInv, HandleTypes
<1>2. CASE UNCHANGED <<accepted, pending_tasks_, wpc, frame>>
  BY <1>2 DEF Spares
<1>3. CASE SubmitPush(u)
  BY <1>3, PushCounts DEF Executors
<1>4. CASE InlineEnd(u)
  <2>1. PICK p \in parked :
          frame' = [Drop(Owned(p), frame) EXCEPT ![p] = "final"]
    BY <1>4 DEF InlineEnd, RunsInlined, inlineOnly
  <2>2. frame[p] = "live" /\ p \in Tasks
    <3>1. At(p, "parked", p) /\ "parked" \in Kinds /\ p \in Spots
      BY <1>1, SpotsLemma DEF At, Kinds
    <3> QED BY <1>1, <3>1, Elsewhere
  <2>3. \A t \in Tasks : caller_[t] = NoTask => t \notin Owned(p)
    BY <2>2, NoTaskAssumption DEF Owned
  <2>4. \A t \in Tasks : caller_[t] = NoTask =>
          (frame'[t] = "destroyed" <=> frame[t] = "destroyed")
    BY <1>1, <2>1, <2>2, <2>3 DEF Drop
  <2> QED BY <1>4, <2>4 DEF InlineEnd, RunsInlined, inlineOnly, Spares
<1>5. CASE NotifyStop(u)
  BY <1>1, <1>5 DEF NotifyStop, GotoW, Notified, Spares, coro
<1>6. CASE Join(u)
  <2>1. UNCHANGED <<accepted, pending_tasks_, wpc>>
    BY <1>6 DEF Join
  <2>2. \/ frame' = frame
        \/ frame' = [t \in Tasks |->
                       IF t \in UNION {Range(task_queue_[k]) : k \in Contexts}
                       THEN "leaked" ELSE frame[t]]
    BY <1>6 DEF Join, DestroyContexts
  <2>3. \A t \in UNION {Range(task_queue_[k]) : k \in Contexts} :
          frame[t] = "live"
    BY SubmittedLive
  <2>4. \A t \in Tasks : frame'[t] = "destroyed" <=> frame[t] = "destroyed"
    BY <2>2, <2>3
  <2> QED BY <2>1, <2>4 DEF Spares
<1> QED BY <1>2, <1>3, <1>4, <1>5, <1>6 DEF Continue, Loop, Stop, LoopCheck,
        LoopBlock, LoopSpurious, StopNotify, Shutdown, RequestStop, Return,
        threadOnly, engineVars, coro

(* Every step keeps the count exact. *)
LEMMA PendingStep ==
  ASSUME ShutInv, HandleInv, OwnInv, AcceptedInv, PendingExact, [CoreNext]_coreVars
  PROVE  PendingExact'
<1>1. CASE Spares
  BY <1>1, SparesKeeps, CountKept
<1>2. ASSUME NEW k \in Contexts, Worker(k) PROVE PendingExact'
  <2>1. CASE AfterResume(k) /\ UNCHANGED schedVars
    BY <2>1, AfterCounts, CountKept
  <2>2. CASE (WorkerLoop(k) \/ Body(k)) /\ ~AfterResume(k)
    BY <1>1, <2>2, WorkerCounts
  <2>3. CASE \E t \in Tasks : Spawn(k, t) \/ SubmitNew(k, t)
    BY <2>3, NewCounts, CountKept DEF Executors
  <2>4. CASE SubmitPush(k)
    BY <1>1, <2>4, PushCounts DEF Executors
  <2>5. CASE Complete(k)
    <3>1. /\ wpc[k] = "complete" /\ wpc' = [wpc EXCEPT ![k] = "resume"]
          /\ pending_tasks_' = pending_tasks_ - 1
          /\ UNCHANGED <<frame, accepted>>
      BY <2>5 DEF Complete, GotoW, coro
    <3>2. wpc \in [Contexts -> WorkerPCs]
      BY DEF HandleInv, HandleTypes
    <3>3. Reports(k)
      BY <3>1, <3>2 DEF Reports, Reporting, Open
    <3> QED BY <3>3, CountKept
  <2>6. CASE Body(k) /\ AfterResume(k)
    BY <2>6 DEF Body, AfterResume, Running
  <2> QED BY <1>2, <2>1, <2>2, <2>3, <2>4, <2>5, <2>6 DEF Worker, WorkerLoop,
          Nested
<1>3. ASSUME NEW u \in Threads, Starts(u) \/ Continue(u) PROVE PendingExact'
  <2>1. CASE Submit(u)
    BY <2>1, NewCounts, CountKept DEF Submit, Executors
  <2>2. CASE InitScheduler(u)
    <3>1. Resets
      BY <2>2 DEF InitScheduler, Resets, Open, Reporting
    <3> QED BY <3>1, CountKept
  <2>3. CASE Continue(u) \/ InlineEnd(u) \/ Loop(u) \/ Stop(u)
    BY <1>1, <2>3, ThreadCounts
  <2> QED BY <1>3, <2>1, <2>2, <2>3 DEF Starts
<1>4. CASE \E u \in Threads : LoopSpurious(u)
  BY <1>1, <1>4, ThreadCounts
<1>5. CASE \E k \in Contexts :
             (SpuriousWake(k) \/ KernelComplete(k)) /\ UNCHANGED coreSched
  <2>1. wpc \in [Contexts -> WorkerPCs]
    BY DEF HandleInv, HandleTypes
  <2>2. Spares
    BY <1>5, <2>1 DEF SpuriousWake, KernelComplete, GotoW, coro, coreSched,
       Spares
  <2> QED BY <1>1, <2>2
<1>6. CASE UNCHANGED coreVars
  BY <1>1, <1>6 DEF coreVars, coreSched, engineVars, schedVars, coro, Spares
<1> QED BY <1>2, <1>3, <1>4, <1>5, <1>6 DEF CoreNext, Surroundings, coreSched

(* At the start nothing is accepted and nobody reports. *)
LEMMA InitPending ==
  ASSUME Init PROVE AcceptedInv /\ GoneInv /\ PendingExact
<1>1. /\ wpc = [k \in Contexts |-> "none"] /\ frame = [t \in Tasks |-> "none"]
      /\ task_queue_ = [k \in Contexts |-> <<>>]
      /\ inflight_io_ = [k \in Contexts |-> 0]
      /\ accepted = {} /\ pending_tasks_ = 0 /\ parked = {} /\ contexts = {}
      /\ next_ = 0 /\ inits = 0 /\ hand = [x \in Executors |-> NoTask]
      /\ target = [x \in Executors |-> 0]
  BY DEF Init, EngineInit
<1>2. 0 \in Contexts /\ 0 \in 0..N
  BY ContextsAssumption DEF Contexts
<1>3. AcceptedInv
  BY <1>1, FS_EmptySet DEF AcceptedInv, Busy
<1>4. GoneInv
  BY <1>1, <1>2 DEF GoneInv
<1>5. Open = {} /\ Reporting = {}
  BY <1>1 DEF Open, Reporting
<1>6. PendingExact
  <2>1. pending_tasks_ = Cardinality(Open) + Cardinality(Reporting)
    BY <1>1, <1>5, FS_EmptySet
  <2> QED BY <2>1 DEF PendingExact, Open, Reporting
<1> QED BY <1>3, <1>4, <1>6

(* All of this holds in every state. *)
LEMMA PendingHolds ==
  ASSUME OwnHandles, NoLateWake
  PROVE  Spec => [](AcceptedInv /\ GoneInv /\ PendingExact)
<1> DEFINE Inv == AcceptedInv /\ GoneInv /\ PendingExact
<1>2. Init => Inv
  BY InitPending
<1>3. ShutInv /\ HandleInv /\ InflightInv /\ OwnInv /\ Inv /\ [CoreNext]_coreVars
        => Inv'
  <2> SUFFICES ASSUME ShutInv, HandleInv, InflightInv, OwnInv, Inv, [CoreNext]_coreVars
               PROVE  Inv'
    OBVIOUS
  <2>1. AcceptedInv'
    <3>1. CASE \E u \in Threads : InitScheduler(u)
      BY <3>1, NoLateWake, ReinitAccepted
    <3>2. CASE \A u \in Threads : ~InitScheduler(u)
      <4>1. PICK a : OwnAct(a)
        BY OwnHandles, NextOwn DEF OwnActs
      <4>2. Admits
        BY <3>2, AdmitStep
      <4> QED BY <4>1, <4>2, AcceptedStep
    <3> QED BY <3>1, <3>2
  <2> QED BY <2>1, GoneStep, PendingStep
<1> HIDE DEF Inv
<1>4. Spec => []Inv
  BY <1>2, <1>3, OwnHandles, ShutHolds, HandleHolds, InflightHolds,
     OwnHolds, CoreAlways, PTL DEF Spec
<1> QED BY <1>4 DEF Inv

(* PendingExact of every such scheduler: what loop() waits for is the      *)
(* number of accepted tasks that have not been destroyed and reported.     *)
THEOREM SchedulerPending ==
  ASSUME OwnHandles, NoLateWake PROVE Spec => []PendingExact
BY OwnHandles, NoLateWake, PendingHolds, PTL
----------------------------------------------------------------------------
(* The types *)

(* inflight_tasks_ counts the one coroutine the worker is resuming; that   *)
(* is why on_task_resume_end never takes it below zero.                    *)
Resuming(k) == wpc[k] \in {"run", "resumed"}
ResumingInv ==
  /\ wpc \in [Contexts -> WorkerPCs] /\ inflight_tasks_ \in [Contexts -> Int]
  /\ \A k \in Contexts : inflight_tasks_[k] = IF Resuming(k) THEN 1 ELSE 0

(* A step of worker k itself keeps the count. *)
LEMMA WorkerResuming ==
  ASSUME ResumingInv, NEW k \in Contexts, WorkerLoop(k)
  PROVE  ResumingInv'
<1>1. CASE ResumeNext(k)
  BY <1>1 DEF ResumingInv, Resuming, ResumeNext, GotoW, on_task_resume_begin,
              WorkerPCs
<1>2. CASE AfterResume(k)
  BY <1>2 DEF ResumingInv, Resuming, AfterResume, GotoW, on_task_resume_end,
              WorkerPCs
<1>3. CASE PopBatch(k) \/ PollPrepare(k) \/ UringSubmit(k) \/ Reap(k)
           \/ PollReturn(k) \/ CanStop(k) \/ WaitCheck(k) \/ WaitBlock(k)
  <2>1. UNCHANGED inflight_tasks_
    BY <1>3 DEF PopBatch, PollPrepare, UringSubmit, Reap, PollReturn, CanStop,
                WaitCheck, WaitBlock, counters
  <2>2. wpc[k] \notin {"run", "resumed"}
    BY <1>3 DEF PopBatch, PollPrepare, UringSubmit, Reap, PollReturn, CanStop,
                WaitCheck, WaitBlock
  <2>3. \/ UNCHANGED wpc
        \/ \E p \in WorkerPCs \ {"run", "resumed"} : GotoW(k, p)
    BY <1>3 DEF PopBatch, PollPrepare, UringSubmit, Reap, PollReturn, CanStop,
                WaitCheck, WaitBlock, WorkerPCs
  <2> QED BY <2>1, <2>2, <2>3 DEF ResumingInv, Resuming, GotoW
<1> QED BY <1>1, <1>2, <1>3 DEF WorkerLoop

(* So does every step of a running coroutine and every submit. *)
LEMMA CallResuming ==
  ASSUME ResumingInv, NEW x \in Executors,
         \/ x \in Contexts /\ (Complete(x) \/ Body(x) \/ Nested(x))
         \/ SubmitPush(x) \/ \E t \in Tasks : SubmitNew(x, t)
  PROVE  ResumingInv'
<1>1. CASE \/ SubmitPush(x) \/ \E t \in Tasks : SubmitNew(x, t)
           \/ x \in Contexts /\ Nested(x)
  <2>1. UNCHANGED inflight_tasks_
    BY <1>1 DEF SubmitPush, SubmitNew, Nested, Spawn, counters
  <2>2. UNCHANGED wpc \/ GotoW(target[x], Notified(target[x]))
    BY <1>1 DEF SubmitPush, SubmitNew, Nested, Spawn
  <2> QED BY <2>1, <2>2 DEF ResumingInv, Resuming, GotoW, Notified, WorkerPCs
<1>2. CASE x \in Contexts /\ Complete(x)
  BY <1>2 DEF ResumingInv, Resuming, Complete, GotoW, WorkerPCs, counters
<1>3. CASE x \in Contexts /\ Body(x)
  <2>1. UNCHANGED inflight_tasks_ /\ wpc[x] = "run"
    BY <1>3 DEF Body, Running, Finish, Release, WakeOne, Wake, Await, Yield,
                IoSuspendOnce, IoRead, IoWrite, Park, Suspending, counters
  <2>2. UNCHANGED wpc \/ GotoW(x, "resumed")
    BY <1>3 DEF Body, Finish, Release, WakeOne, Wake, Await, Yield,
                IoSuspendOnce, IoRead, IoWrite, Park, Suspending
  <2> QED BY <1>3, <2>1, <2>2 DEF ResumingInv, Resuming, GotoW, WorkerPCs
<1> QED BY <1>1, <1>2, <1>3

(* Every step keeps the count; init() finds no worker in a resume().       *)
LEMMA ResumingStep ==
  ASSUME ShutInv, ResumingInv, [CoreNext]_coreVars PROVE ResumingInv'
<1>1. CASE \E k \in Contexts : Worker(k)
  BY <1>1, WorkerResuming, CallResuming DEF Worker, Executors
<1>2. CASE \E u \in Threads : Starts(u)
  <2>1. PICK u \in Threads : Starts(u)
    BY <1>2
  <2>2. CASE InitScheduler(u)
    <3>1. \A k \in Contexts : Ended(k)
      BY <2>2 DEF ShutInv, InitScheduler
    <3> QED BY <2>2, <3>1 DEF ResumingInv, Resuming, Ended, InitScheduler,
                              WorkerPCs, counters
  <2>3. CASE Submit(u)
    BY <2>3, CallResuming DEF Submit, Executors
  <2>4. CASE InlineEnd(u) \/ Loop(u) \/ Stop(u)
    BY <2>4 DEF ResumingInv, Resuming, InlineEnd, RunsInlined, inlineOnly, Loop,
                Stop, threadOnly, engineVars, counters
  <2> QED BY <2>1, <2>2, <2>3, <2>4 DEF Starts
<1>3. CASE \E u \in Threads : Continue(u)
  <2>1. PICK u \in Threads : Continue(u)
    BY <1>3
  <2>2. CASE SubmitPush(u)
    BY <2>2, CallResuming DEF Executors
  <2>3. CASE NotifyStop(u)
    BY <2>3 DEF ResumingInv, Resuming, NotifyStop, GotoW, Notified, WorkerPCs,
                counters
  <2>4. CASE \/ LoopCheck(u) \/ LoopBlock(u) \/ StopNotify(u) \/ Shutdown(u)
             \/ RequestStop(u) \/ Join(u) \/ Return(u)
    BY <2>4 DEF ResumingInv, Resuming, LoopCheck, LoopBlock, StopNotify,
                Shutdown, RequestStop, Join, Return, threadOnly, engineVars,
                counters
  <2> QED BY <2>1, <2>2, <2>3, <2>4 DEF Continue
<1>4. CASE Surroundings
  BY <1>4 DEF ResumingInv, Resuming, Surroundings, coreSched, SpuriousWake,
              KernelComplete, LoopSpurious, threadOnly, engineVars, counters,
              GotoW, WorkerPCs
<1>5. CASE UNCHANGED coreVars
  BY <1>5 DEF ResumingInv, Resuming, coreVars, coreSched, engineVars, counters
<1> QED BY <1>1, <1>2, <1>3, <1>4, <1>5 DEF CoreNext

(* The variables no invariant above is about: a worker's progress through  *)
(* poll_io, its stop token, the suspensions of a coroutine, the flags, the *)
(* call a thread is in, how often init() has built contexts.               *)
RestTypes ==
  /\ progressed \in [Contexts -> BOOLEAN] /\ stop_token \in [Contexts -> BOOLEAN]
  /\ completed \in [Contexts -> 0..BatchSize]
  /\ suspends \in [Tasks -> 0..MaxSuspends]
  /\ accepting_ \in BOOLEAN /\ stop_requested_ \in BOOLEAN
  /\ call \in [Threads -> CallNames \cup {"none"}] /\ inits \in 0..MaxInits

(* A worker reaps while it has reaped fewer than BatchSize completions. *)
LEMMA WorkerRest ==
  ASSUME RestTypes, NEW k \in Contexts, WorkerLoop(k) PROVE RestTypes'
<1>1. UNCHANGED <<stop_token, suspends, accepting_, stop_requested_, call, inits>>
  <2>1. UNCHANGED <<accepting_, stop_requested_, call, inits>>
    BY DEF WorkerLoop, schedVars, flags, threadVars
  <2>2. UNCHANGED <<stop_token, suspends>>
    BY DEF WorkerLoop, PopBatch, ResumeNext, AfterResume, PollPrepare,
       UringSubmit, Reap, PollReturn, CanStop, WaitCheck, WaitBlock, coro
  <2> QED BY <2>1, <2>2
<1>2. progressed' \in [Contexts -> BOOLEAN]
  <2>1. \/ UNCHANGED progressed
        \/ \E b \in BOOLEAN : progressed' = [progressed EXCEPT ![k] = b]
    <3>1. CASE PollPrepare(k)
      BY <3>1, Zenon DEF PollPrepare
    <3>2. CASE ~PollPrepare(k)
      BY <3>2 DEF WorkerLoop, PopBatch, ResumeNext, AfterResume, UringSubmit,
         Reap, PollReturn, CanStop, WaitCheck, WaitBlock, worker
    <3> QED BY <3>1, <3>2
  <2> QED BY <2>1 DEF RestTypes
<1>3. completed' \in [Contexts -> 0..BatchSize]
  <2>1. CASE Reap(k) \/ PollReturn(k)
    <3>1. PICK n \in 0..BatchSize : completed' = [completed EXCEPT ![k] = n]
      <4>1. CASE Reap(k)
        <5>1. completed[k] + 1 \in 0..BatchSize
          BY <4>1, EngineBounds DEF RestTypes, Reap
        <5> QED BY <4>1, <5>1 DEF Reap
      <4>2. CASE PollReturn(k)
        <5>1. 0 \in 0..BatchSize
          BY EngineBounds
        <5> QED BY <4>2, <5>1, Zenon DEF PollReturn
      <4> QED BY <2>1, <4>1, <4>2
    <3> QED BY <3>1 DEF RestTypes
  <2>2. CASE ~(Reap(k) \/ PollReturn(k))
    <3>1. UNCHANGED completed
      BY <2>2 DEF WorkerLoop, PopBatch, ResumeNext, AfterResume, PollPrepare,
         UringSubmit, CanStop, WaitCheck, WaitBlock, worker
    <3> QED BY <3>1 DEF RestTypes
  <2> QED BY <2>1, <2>2
<1> QED BY <1>1, <1>2, <1>3 DEF RestTypes

(* A coroutine suspends while it is below its bound. *)
LEMMA CallRest ==
  ASSUME RestTypes, HandleInv, NEW x \in Executors,
         \/ x \in Contexts /\ (Complete(x) \/ Body(x) \/ Nested(x))
         \/ SubmitPush(x) \/ \E t \in Tasks : SubmitNew(x, t)
  PROVE  RestTypes'
<1>1. UNCHANGED <<accepting_, stop_requested_, call, inits>>
  BY DEF Complete, Body, Nested, Spawn, SubmitPush, SubmitNew, schedVars, flags,
         threadVars
<1>2. UNCHANGED <<progressed, stop_token, completed>>
  BY DEF Complete, Body, Nested, Spawn, SubmitPush, SubmitNew, Finish, Release,
     WakeOne, Wake, Await, Yield, IoSuspendOnce, IoRead, IoWrite, Park,
     Suspending, worker
<1>3. suspends' \in [Tasks -> 0..MaxSuspends]
  <2>1. CASE x \in Contexts /\ Suspending(x)
    <3>1. active[x] \in Tasks
      BY <2>1 DEF HandleInv, WorkInv, Suspending, Running
    <3>2. suspends[active[x]] + 1 \in 0..MaxSuspends
      BY <2>1, <3>1, EngineBounds DEF RestTypes, Suspending
    <3> QED BY <2>1, <3>1, <3>2 DEF RestTypes, Suspending
  <2>2. CASE ~(x \in Contexts /\ Suspending(x))
    <3>1. UNCHANGED suspends
      BY <2>2 DEF Complete, Body, Nested, Spawn, SubmitPush, SubmitNew, Finish,
         Release, WakeOne, Wake, Await, Yield, IoSuspendOnce, IoRead, IoWrite,
         Park, coro
    <3> QED BY <3>1 DEF RestTypes
  <2> QED BY <2>1, <2>2
<1> QED BY <1>1, <1>2, <1>3 DEF RestTypes

(* The steps of a thread in init(), loop(), stop() or shutdown_contexts. *)
LEMMA ThreadRest ==
  ASSUME RestTypes, NEW u \in Threads, Starts(u) \/ Continue(u),
         ~SubmitPush(u), ~Submit(u)
  PROVE  RestTypes'
<1>1. UNCHANGED <<progressed, completed, suspends>>
  BY DEF Starts, Continue, InitScheduler, InlineEnd, RunsInlined, inlineOnly,
     Loop, Stop, LoopCheck, LoopBlock, StopNotify, Shutdown, RequestStop,
     NotifyStop, Join, Return, threadOnly, engineVars, worker, coro
<1>2. stop_token' \in [Contexts -> BOOLEAN]
  <2>1. \/ UNCHANGED stop_token
        \/ stop_token' = [k \in Contexts |-> FALSE]
        \/ stop_token' = [stop_token EXCEPT ![First(todo[u])] = TRUE]
    BY DEF Starts, Continue, InitScheduler, InlineEnd, RunsInlined, inlineOnly,
       Loop, Stop, LoopCheck, LoopBlock, StopNotify, Shutdown, RequestStop,
       NotifyStop, Join, Return, threadOnly, engineVars
  <2> QED BY <2>1 DEF RestTypes
<1>3. accepting_' \in BOOLEAN /\ stop_requested_' \in BOOLEAN
  BY DEF RestTypes, Starts, Continue, InitScheduler, InlineEnd, RunsInlined,
     inlineOnly, Loop, Stop, LoopCheck, LoopBlock, StopNotify, Shutdown,
     RequestStop, NotifyStop, Join, Return, flags
<1>4. call' \in [Threads -> CallNames \cup {"none"}]
  <2>1. \/ UNCHANGED call
        \/ \E c \in CallNames \cup {"none"} : call' = [call EXCEPT ![u] = c]
    BY DEF Starts, Continue, InitScheduler, InlineEnd, RunsInlined, inlineOnly,
       Loop, Stop, LoopCheck, LoopBlock, StopNotify, Shutdown, RequestStop,
       NotifyStop, Join, Return, threadVars, Waits, CallNames
  <2> QED BY <2>1 DEF RestTypes
<1>5. inits' \in 0..MaxInits
  <2>1. CASE InitScheduler(u)
    BY <2>1, CallsAssumption DEF RestTypes, InitScheduler
  <2>2. CASE ~InitScheduler(u)
    <3>1. UNCHANGED inits
      BY <2>2 DEF Starts, Continue, InlineEnd, RunsInlined, inlineOnly, Loop,
         Stop, LoopCheck, LoopBlock, StopNotify, Shutdown, RequestStop,
         NotifyStop, Join, Return, threadOnly
    <3> QED BY <3>1 DEF RestTypes
  <2> QED BY <2>1, <2>2
<1> QED BY <1>1, <1>2, <1>3, <1>4, <1>5 DEF RestTypes

(* Every step keeps these types. *)
LEMMA RestStep ==
  ASSUME HandleInv, RestTypes, [CoreNext]_coreVars PROVE RestTypes'
<1>1. CASE \E k \in Contexts : Worker(k)
  BY <1>1, WorkerRest, CallRest DEF Worker, Executors
<1>2. CASE \E u \in Threads : Starts(u) \/ Continue(u)
  BY <1>2, ThreadRest, CallRest DEF Submit, Executors
<1>3. CASE Surroundings \/ UNCHANGED coreVars
  <2>1. UNCHANGED <<progressed, stop_token, completed, suspends>>
    BY <1>3 DEF Surroundings, SpuriousWake, KernelComplete, LoopSpurious,
       coreVars, coreSched, threadOnly, engineVars, worker, coro
  <2>2. UNCHANGED <<accepting_, stop_requested_, call, inits>>
    BY <1>3 DEF Surroundings, SpuriousWake, KernelComplete, LoopSpurious,
       coreVars, coreSched, threadOnly, schedVars, flags, threadVars
  <2> QED BY <2>1, <2>2 DEF RestTypes
<1> QED BY <1>1, <1>2, <1>3 DEF CoreNext

(* dangling is a truth value: the steps that use a frame say whether they  *)
(* have found it gone.                                                     *)
LEMMA DanglingStep ==
  ASSUME dangling \in BOOLEAN, [Next]_vars PROVE dangling' \in BOOLEAN
<1>1. ASSUME UNCHANGED dangling \/ \E b \in BOOLEAN : dangling' = b
      PROVE  dangling' \in BOOLEAN
  BY <1>1
<1>2. CASE \E k \in Contexts : WorkerLoop(k)
  <2>1. PICK k \in Contexts : WorkerLoop(k)
    BY <1>2
  <2>2. CASE ResumeNext(k) \/ AfterResume(k)
    BY <1>1, <2>2, Zenon DEF ResumeNext, AfterResume
  <2>3. CASE ~(ResumeNext(k) \/ AfterResume(k))
    BY <1>1, <2>1, <2>3 DEF WorkerLoop, PopBatch, PollPrepare, UringSubmit,
       Reap, PollReturn, CanStop, WaitCheck, WaitBlock
  <2> QED BY <2>2, <2>3
<1>3. CASE \E k \in Contexts : Body(k)
  <2>1. PICK k \in Contexts : Body(k)
    BY <1>3
  <2>2. CASE Finish(k)
    BY <1>1, <2>2, Zenon DEF Finish
  <2>3. CASE Release(k)
    BY <1>1, <2>3, Zenon DEF Release
  <2>4. CASE ~(Finish(k) \/ Release(k))
    BY <1>1, <2>1, <2>4 DEF Body, WakeOne, Wake, Await, Yield, IoSuspendOnce,
       IoRead, IoWrite, Park, Suspending
  <2> QED BY <2>2, <2>3, <2>4
<1>4. CASE \E u \in Threads : Inline(u)
  <2>1. PICK u \in Threads : Inline(u)
    BY <1>4
  <2>2. CASE InlineEnd(u) \/ InlineReturn(u)
    BY <1>1, <2>2, Zenon DEF InlineEnd, InlineReturn
  <2>3. CASE InlineResume(u) \/ InlinePark(u)
    BY <1>1, <2>3 DEF InlineResume, InlinePark
  <2> QED BY <2>1, <2>2, <2>3 DEF Inline
<1>5. CASE \E x \in Executors :
             \/ SubmitPush(x) \/ \E t \in Tasks : SubmitNew(x, t)
             \/ x \in Contexts /\ (Complete(x) \/ Nested(x))
             \/ SubmitNotify(x)
  BY <1>1, <1>5 DEF SubmitPush, SubmitNew, Complete, Nested, Spawn,
     SubmitNotify, notifyOnly
<1>6. CASE \E u \in Threads :
             \/ InitScheduler(u) \/ Loop(u) \/ Stop(u) \/ LoopCheck(u)
             \/ LoopBlock(u) \/ StopNotify(u) \/ Shutdown(u) \/ RequestStop(u)
             \/ NotifyStop(u) \/ Join(u) \/ Return(u)
  BY <1>1, <1>6 DEF InitScheduler, Loop, Stop, LoopCheck, LoopBlock, StopNotify,
     Shutdown, RequestStop, NotifyStop, Join, Return, threadOnly, engineVars
<1>7. CASE Environment \/ UNCHANGED vars
  BY <1>1, <1>7 DEF Environment, SpuriousWake, KernelComplete, LoopSpurious,
     vars, threadOnly, engineVars
<1> QED BY <1>2, <1>3, <1>4, <1>5, <1>6, <1>7
        DEF Next, Worker, Begin, Continue, Submit, Executors

(* Whom a submit has to notify is a context, and what an outside thread    *)
(* runs is a coroutine.                                                    *)
OutsideTypes ==
  owed \in [Executors -> 0..N] /\ inlined \in [Threads -> Seq(Tasks)]

LEMMA OutsideStep ==
  ASSUME ShutInv, HandleInv, OutsideTypes, [Next]_vars PROVE OutsideTypes'
<1>1. N \in 0..N /\ Contexts \subseteq 0..N
  BY ContextsAssumption DEF Contexts
<1>2. owed' \in [Executors -> 0..N]
  <2>1. CASE \E x \in Executors : SubmitPush(x) \/ SubmitNotify(x)
    <3>1. contexts \subseteq 0..N
      BY <1>1 DEF ShutInv
    <3> QED BY <1>1, <2>1, <3>1 DEF SubmitPush, SubmitNotify, OutsideTypes
  <2>2. CASE \E u \in Threads : Join(u)
    BY <1>1, <2>2 DEF Join, DestroyContexts, OutsideTypes
  <2>3. CASE UNCHANGED owed
    BY <2>3 DEF OutsideTypes
  <2>4. CASE /\ ~\E x \in Executors : SubmitPush(x) \/ SubmitNotify(x)
             /\ ~\E u \in Threads : Join(u)
    <3>1. UNCHANGED owed
      BY <2>4 DEF Next, vars, schedVars, submitVars, Worker, WorkerLoop,
         Complete, Body, Nested, Spawn, SubmitNew, Begin, Submit, InitScheduler,
         Loop, Stop, Continue, LoopCheck, LoopBlock, StopNotify, Shutdown,
         RequestStop, NotifyStop, Return, Inline, InlineResume, InlinePark,
         InlineEnd, InlineReturn, inlineOnly, Environment, LoopSpurious,
         threadOnly, Executors
    <3> QED BY <2>3, <3>1
  <2> QED BY <2>1, <2>2, <2>4
<1>3. inlined' \in [Threads -> Seq(Tasks)]
  <2>1. CASE \E u \in Threads : InlineResume(u)
    <3>1. parked \subseteq Tasks
      BY DEF HandleInv, HandleTypes
    <3> QED BY <2>1, <3>1 DEF InlineResume, OutsideTypes
  <2>2. CASE \E u \in Threads : InlinePark(u) \/ InlineReturn(u)
    <3>1. PICK u \in Threads :
            /\ inlined[u] # <<>>
            /\ inlined' = [inlined EXCEPT ![u] = SubSeq(@, 1, Len(@) - 1)]
      BY <2>2 DEF InlinePark, InlineReturn, RunsInlined
    <3>2. inlined[u] \in Seq(Tasks)
      BY DEF OutsideTypes
    <3>3. SubSeq(inlined[u], 1, Len(inlined[u]) - 1) \in Seq(Tasks)
      <4>1. /\ Len(inlined[u]) - 1 \in Int
            /\ \A i \in 1..Len(inlined[u]) - 1 : inlined[u][i] \in Tasks
        BY <3>2
      <4> QED BY <3>2, <4>1, SubSeqProperties
    <3> QED BY <3>1, <3>3 DEF OutsideTypes
  <2>3. CASE UNCHANGED inlined
    BY <2>3 DEF OutsideTypes
  <2>4. CASE ~\E u \in Threads :
               InlineResume(u) \/ InlinePark(u) \/ InlineReturn(u)
    <3>1. UNCHANGED inlined
      BY <2>4 DEF Next, vars, schedVars, Worker, WorkerLoop, Complete, Body,
         Nested, Spawn, SubmitNew, SubmitPush, Begin, Submit, InitScheduler,
         Loop, Stop, Continue, LoopCheck, LoopBlock, StopNotify, Shutdown,
         RequestStop, NotifyStop, Join, Return, Inline, InlineEnd, SubmitNotify,
         notifyOnly, Environment, LoopSpurious, threadOnly
    <3> QED BY <2>3, <3>1
  <2> QED BY <2>1, <2>2, <2>4
<1> QED BY <1>2, <1>3 DEF OutsideTypes

(* At the start every variable has its type, and no worker resumes. *)
LEMMA InitRest ==
  ASSUME Init
  PROVE  ResumingInv /\ RestTypes /\ OutsideTypes /\ dangling \in BOOLEAN
<1>1. ResumingInv
  BY DEF Init, EngineInit, ResumingInv, Resuming, WorkerPCs
<1>2. /\ progressed \in [Contexts -> BOOLEAN]
      /\ stop_token \in [Contexts -> BOOLEAN]
  BY DEF Init, EngineInit
<1>3. accepting_ \in BOOLEAN /\ stop_requested_ \in BOOLEAN
  BY DEF Init
<1>4. /\ completed \in [Contexts -> 0..BatchSize]
      /\ suspends \in [Tasks -> 0..MaxSuspends]
      /\ call \in [Threads -> CallNames \cup {"none"}] /\ inits \in 0..MaxInits
  BY EngineBounds, CallsAssumption DEF Init, EngineInit
<1>5. dangling \in BOOLEAN
  BY DEF Init, EngineInit
<1>6. OutsideTypes
  BY ContextsAssumption DEF Init, OutsideTypes
<1> QED BY <1>1, <1>2, <1>3, <1>4, <1>5, <1>6 DEF RestTypes

(* The numbers that are lengths and cardinalities are natural. *)
LEMMA CountsNatural ==
  ASSUME ShutInv, HandleInv, InflightInv, AcceptedInv, PendingExact
  PROVE  inflight_io_ \in [Contexts -> Nat] /\ pending_tasks_ \in Nat
<1>1. \A k \in Contexts : inflight_io_[k] \in Nat
  <2> TAKE k \in Contexts
  <2>1. Cardinality(ring[k]) \in Nat
    BY FS_CardinalityType DEF InflightInv
  <2>2. /\ Len(io_waiting_queue_[k]) \in Nat
        /\ Len(io_read_submit_queue_[k]) \in Nat
        /\ Len(io_write_submit_queue_[k]) \in Nat
        /\ Len(sq[k]) \in Nat /\ Len(cq[k]) \in Nat
    BY DEF HandleInv, QueuesInv, Queues
  <2>3. ASSUME NEW a \in Nat, NEW b \in Nat, NEW c \in Nat, NEW d \in Nat,
               NEW e \in Nat, NEW f \in Nat
        PROVE  a + b + c + d + e + f \in Nat
    OBVIOUS
  <2>4. Asked(k) \in Nat
    BY <2>1, <2>2, <2>3, Zenon DEF Asked
  <2> QED BY <2>4 DEF InflightInv
<1>2. pending_tasks_ \in Nat
  <2>1. IsFiniteSet({t \in accepted : frame[t] # "destroyed"})
    <3>1. {t \in accepted : frame[t] # "destroyed"} \subseteq accepted
      OBVIOUS
    <3> QED BY <3>1, FS_Subset DEF AcceptedInv
  <2>2. IsFiniteSet({k \in Contexts : wpc[k] = "complete"})
    <3>1. IsFiniteSet(Contexts)
      BY ContextsAssumption, FS_Interval DEF Contexts
    <3>2. {k \in Contexts : wpc[k] = "complete"} \subseteq Contexts
      OBVIOUS
    <3> QED BY <3>1, <3>2, FS_Subset
  <2>3. /\ Cardinality({t \in accepted : frame[t] # "destroyed"}) \in Nat
        /\ Cardinality({k \in Contexts : wpc[k] = "complete"}) \in Nat
    BY <2>1, <2>2, FS_CardinalityType
  <2> QED BY <2>3 DEF PendingExact
<1> QED BY <1>1, <1>2 DEF InflightInv

(* TypeOK of every such scheduler.  It says more than that the steps are   *)
(* well-typed: the counters that the code keeps in unsigned integers,      *)
(* inflight_tasks_, inflight_io_, pending_submit_count_ and pending_tasks_,*)
(* are decremented and never wrap around.                                  *)
THEOREM SchedulerTyped ==
  ASSUME OwnHandles, NoLateWake PROVE Spec => []TypeOK
<1> DEFINE Inv == /\ ResumingInv /\ RestTypes /\ OutsideTypes
                  /\ dangling \in BOOLEAN
<1>2. Init => Inv
  BY InitRest
<1>3. ShutInv /\ HandleInv /\ Inv /\ [Next]_vars => Inv'
  <2> SUFFICES ASSUME ShutInv, HandleInv, Inv, [Next]_vars PROVE Inv'
    OBVIOUS
  <2>1. [CoreNext]_coreVars
    BY NextCore DEF ShutInv, ShutTypes
  <2> QED BY <2>1, ResumingStep, RestStep, OutsideStep, DanglingStep
<1>4. /\ ShutInv /\ HandleInv /\ CountInv /\ InflightInv /\ OwnInv
      /\ AcceptedInv /\ GoneInv /\ PendingExact /\ Inv
      => TypeOK
  <2> SUFFICES ASSUME ShutInv, HandleInv, CountInv, InflightInv, OwnInv,
                      AcceptedInv, GoneInv, PendingExact, Inv
               PROVE  TypeOK
    OBVIOUS
  <2>1. inflight_io_ \in [Contexts -> Nat] /\ pending_tasks_ \in Nat
    BY CountsNatural
  <2>2. inflight_tasks_ \in [Contexts -> Nat]
    BY DEF ResumingInv
  <2>3. contexts \subseteq Contexts
    BY DEF ShutInv
  <2> QED BY <2>1, <2>2, <2>3 DEF TypeOK, ShutInv, ShutTypes, HandleInv,
       HandleTypes, Frames, QueuesInv, Queues, CountInv, OwnInv, AcceptedInv,
       GoneInv, RestTypes, OutsideTypes
<1> HIDE DEF Inv
<1> QED BY <1>2, <1>3, <1>4, OwnHandles, NoLateWake, ShutHolds,
           HandleHolds, InflightHolds, OwnHolds, PendingHolds, PTL DEF Spec
----------------------------------------------------------------------------
(* Who wakes a worker that sleeps *)

(* A worker that sleeps beside a handle is about to be notified: it falls  *)
(* asleep holding mutex_, beside an empty queue, and a submit owes no      *)
(* notify_one of an earlier push when it pushes.                           *)
NotifyInv ==
  /\ owed \in [Executors -> 0..N]
  /\ \A x \in Executors : hand[x] # NoTask => owed[x] = N
  /\ \A k \in Contexts : wpc[k] = "waitBlock" => task_queue_[k] = <<>>
  /\ PushedIsNotified

(* Only worker k moves, and it goes to sleep beside nothing. *)
SleepsEmpty(k) ==
  /\ UNCHANGED <<hand, owed>>
  /\ \A j \in Contexts \ {k} :
       wpc'[j] = wpc[j] /\ task_queue_'[j] = task_queue_[j]
  /\ wpc'[k] \in {"waitBlock", "blocked"} => task_queue_'[k] = <<>>

LEMMA SleepsEmptyStep ==
  ASSUME NotifyInv, NEW k \in Contexts, SleepsEmpty(k) PROVE NotifyInv'
BY DEF NotifyInv, SleepsEmpty, PushedIsNotified

(* A worker pushes while it runs, and looks at its queue before it sleeps. *)
LEMMA WorkerSleeps ==
  ASSUME ShutInv, HandleInv, NotifyInv, NEW k \in Contexts,
         \/ WorkerLoop(k) \/ Complete(k) \/ Body(k)
         \/ \E t \in Tasks : Spawn(k, t)
  PROVE  SleepsEmpty(k)
<1> USE DEF ShutInv, ShutTypes, HandleInv, QueuesInv, Queues
<1>1. CASE WorkerLoop(k)
  <2>1. UNCHANGED <<hand, owed>>
    BY <1>1 DEF WorkerLoop, schedVars, submitVars
  <2>2. CASE WaitCheck(k) \/ WaitBlock(k)
    BY <2>1, <2>2 DEF WaitCheck, WaitBlock, GotoW, QueuesEmpty, queuesE,
       NotifyInv, SleepsEmpty
  <2>3. CASE PopBatch(k)
    BY <2>1, <2>3 DEF PopBatch, GotoW, SleepsEmpty
  <2>4. CASE ResumeNext(k) \/ AfterResume(k)
    BY <2>1, <2>4 DEF ResumeNext, AfterResume, GotoW, queuesE, SleepsEmpty
  <2>5. CASE PollPrepare(k)
    BY <2>1, <2>5 DEF PollPrepare, GotoW, SleepsEmpty
  <2>6. CASE UringSubmit(k)
    BY <2>1, <2>6 DEF UringSubmit, GotoW, queuesE, SleepsEmpty
  <2>7. CASE Reap(k)
    BY <2>1, <2>7 DEF Reap, submit_task, SleepsEmpty
  <2>8. CASE PollReturn(k) \/ CanStop(k)
    BY <2>1, <2>8 DEF PollReturn, CanStop, GotoW, queuesE, SleepsEmpty
  <2> QED BY <1>1, <2>2, <2>3, <2>4, <2>5, <2>6, <2>7, <2>8 DEF WorkerLoop
<1>2. CASE Complete(k)
  BY <1>2 DEF Complete, GotoW, queuesE, submitVars, SleepsEmpty
<1>3. CASE Body(k)
  <2>1. UNCHANGED <<hand, owed>> /\ wpc[k] = "run"
    BY <1>3 DEF Body, Running, schedVars, submitVars
  <2>2. CASE Finish(k) \/ Release(k) \/ \E t \in Tasks : Await(k, t)
    BY <2>1, <2>2 DEF Finish, Release, Await, GotoW, queuesE, SleepsEmpty
  <2>3. CASE WakeOne(k)
    BY <2>1, <2>3 DEF WakeOne, Wake, submit_task, SleepsEmpty
  <2>4. CASE Yield(k)
    BY <2>1, <2>4 DEF Yield, Suspending, submit_task, GotoW, SleepsEmpty
  <2>5. CASE IoSuspendOnce(k) \/ IoRead(k) \/ IoWrite(k) \/ Park(k)
    BY <2>1, <2>5 DEF IoSuspendOnce, IoRead, IoWrite, Park, Suspending, GotoW,
       queuesE, SleepsEmpty
  <2> QED BY <1>3, <2>2, <2>3, <2>4, <2>5 DEF Body
<1>4. CASE \E t \in Tasks : Spawn(k, t)
  BY <1>4 DEF Spawn, Running, submit_task, submitVars, SleepsEmpty
<1> QED BY <1>1, <1>2, <1>3, <1>4

(* submit_new: what is pushed is owed until the notify_one. *)
LEMMA SubmitNotifies ==
  ASSUME ShutInv, HandleInv, NotifyInv, NEW x \in Executors,
         \/ Returned(x) /\ \E t \in Tasks : SubmitNew(x, t)
         \/ SubmitPush(x) \/ SubmitNotify(x)
  PROVE  NotifyInv'
<1> USE DEF ShutInv, ShutTypes, HandleInv, HandleTypes, QueuesInv, Queues
<1>0. N \in 0..N /\ Contexts \subseteq 0..N /\ N \notin Contexts
  BY ContextsAssumption DEF Contexts
<1>1. CASE Returned(x) /\ \E t \in Tasks : SubmitNew(x, t)
  <2>1. /\ UNCHANGED <<owed, wpc, task_queue_>> /\ owed[x] = N
        /\ \A y \in Executors \ {x} : hand'[y] = hand[y]
    BY <1>1 DEF SubmitNew, Returned, queuesE
  <2> QED BY <2>1 DEF NotifyInv, PushedIsNotified
<1>2. CASE SubmitPush(x)
  <2> DEFINE k == target[x]
  <2>1. /\ hand[x] # NoTask /\ UNCHANGED wpc
        /\ hand' = [hand EXCEPT ![x] = NoTask]
    BY <1>2 DEF SubmitPush
  <2>2. owed[x] = N
    BY <2>1 DEF NotifyInv
  <2>3. CASE k \in contexts
    <3>1. /\ k \in Contexts /\ wpc[k] # "waitBlock"
          /\ owed' = [owed EXCEPT ![x] = k]
          /\ \A j \in Contexts \ {k} : task_queue_'[j] = task_queue_[j]
      BY <1>2, <2>3 DEF SubmitPush, submit_task, mutexHeld
    <3>2. owed'[x] = k /\ \A y \in Executors \ {x} : owed'[y] = owed[y]
      BY <3>1 DEF NotifyInv
    <3>3. owed' \in [Executors -> 0..N]
      BY <1>0, <3>1 DEF NotifyInv
    <3>4. \A j \in Contexts, y \in Executors : owed[y] = j => owed'[y] = j
      BY <1>0, <2>2, <3>2
    <3>5. \A y \in Executors : hand'[y] # NoTask => owed'[y] = N
      BY <2>1, <3>2 DEF NotifyInv
    <3>6. PushedIsNotified'
      BY <2>1, <3>1, <3>2, <3>4 DEF NotifyInv, PushedIsNotified
    <3>7. \A j \in Contexts : wpc'[j] = "waitBlock" => task_queue_'[j] = <<>>
      BY <2>1, <3>1 DEF NotifyInv
    <3> QED BY <3>3, <3>5, <3>6, <3>7, Zenon DEF NotifyInv
  <2>4. CASE k \notin contexts
    <3>1. UNCHANGED <<task_queue_, owed>>
      BY <1>2, <2>4 DEF SubmitPush
    <3> QED BY <2>1, <3>1 DEF NotifyInv, PushedIsNotified
  <2> QED BY <2>3, <2>4
<1>3. CASE SubmitNotify(x)
  <2>1. PICK k \in Contexts :
          /\ owed[x] = k /\ wpc' = [wpc EXCEPT ![k] = Notified(k)]
          /\ owed' = [owed EXCEPT ![x] = N]
          /\ UNCHANGED <<task_queue_, hand>>
    BY <1>3 DEF SubmitNotify, GotoW, notifyOnly, queuesE
  <2>2. /\ wpc'[k] # "blocked"
        /\ wpc'[k] = "waitBlock" => wpc[k] = "waitBlock"
        /\ \A j \in Contexts \ {k} : wpc'[j] = wpc[j]
    BY <2>1 DEF Notified
  <2>3. owed'[x] = N /\ \A y \in Executors \ {x} : owed'[y] = owed[y]
    BY <2>1 DEF NotifyInv
  <2>4. owed' \in [Executors -> 0..N]
    BY <1>0, <2>1 DEF NotifyInv
  <2>5. PushedIsNotified'
    BY <2>1, <2>2, <2>3 DEF NotifyInv, PushedIsNotified
  <2>6. \A y \in Executors : hand'[y] # NoTask => owed'[y] = N
    BY <2>1, <2>3 DEF NotifyInv
  <2>7. \A j \in Contexts : wpc'[j] = "waitBlock" => task_queue_'[j] = <<>>
    BY <2>1, <2>2 DEF NotifyInv
  <2> QED BY <2>4, <2>5, <2>6, <2>7, Zenon DEF NotifyInv
<1> QED BY <1>1, <1>2, <1>3

(* The other steps of a thread: notify_stop wakes, init() starts workers   *)
(* awake, and the last join() takes the queues away with the debts.        *)
LEMMA ThreadNotifies ==
  ASSUME ShutInv, HandleInv, NotifyInv, NEW u \in Threads,
         \/ InitScheduler(u) \/ Loop(u) \/ Stop(u) \/ LoopCheck(u)
         \/ LoopBlock(u) \/ StopNotify(u) \/ Shutdown(u) \/ RequestStop(u)
         \/ NotifyStop(u) \/ Join(u) \/ Return(u) \/ Inline(u)
         \/ LoopSpurious(u)
  PROVE  NotifyInv'
<1> USE DEF ShutInv, ShutTypes
<1>1. CASE InitScheduler(u)
  <2>1. /\ UNCHANGED <<task_queue_, hand, owed>>
        /\ wpc' = [k \in Contexts |-> "pop"]
    BY <1>1 DEF InitScheduler, queuesE, submitVars
  <2> QED BY <2>1 DEF NotifyInv, PushedIsNotified
<1>2. CASE NotifyStop(u)
  <2>1. /\ UNCHANGED <<task_queue_, hand, owed>>
        /\ \A j \in Contexts :
             wpc'[j] = wpc[j] \/ (wpc[j] = "blocked" /\ wpc'[j] = "wait")
    BY <1>2 DEF NotifyStop, GotoW, Notified, queuesE, submitVars
  <2> QED BY <2>1 DEF NotifyInv, PushedIsNotified
<1>3. CASE Join(u)
  <2>1. UNCHANGED <<wpc, hand>>
        /\ (UNCHANGED <<task_queue_, owed>> \/ DestroyContexts)
    BY <1>3 DEF Join
  <2>2. CASE UNCHANGED <<task_queue_, owed>>
    BY <2>1, <2>2 DEF NotifyInv, PushedIsNotified
  <2>3. CASE DestroyContexts
    <3>1. N \in 0..N
      BY ContextsAssumption
    <3>2. /\ task_queue_' = [k \in Contexts |-> <<>>]
          /\ owed' = [x \in Executors |-> N]
      BY <2>3 DEF DestroyContexts
    <3> QED BY <2>1, <3>1, <3>2 DEF NotifyInv, PushedIsNotified
  <2> QED BY <2>1, <2>2, <2>3
<1>4. CASE \/ Loop(u) \/ Stop(u) \/ LoopCheck(u) \/ LoopBlock(u)
           \/ StopNotify(u) \/ Shutdown(u) \/ RequestStop(u) \/ Return(u)
           \/ Inline(u) \/ LoopSpurious(u)
  <2>1. UNCHANGED <<task_queue_, wpc, hand, owed>>
    BY <1>4 DEF Loop, Stop, LoopCheck, LoopBlock, StopNotify, Shutdown,
       RequestStop, Return, Inline, InlineResume, InlinePark, InlineEnd,
       InlineReturn, LoopSpurious, threadOnly, inlineOnly, engineVars, queuesE,
       submitVars
  <2> QED BY <2>1 DEF NotifyInv, PushedIsNotified
<1> QED BY <1>1, <1>2, <1>3, <1>4

(* PushedIsNotified of every scheduler: a worker never sleeps beside a     *)
(* handle that Engine::submit_task has pushed and already notified for.    *)
THEOREM SchedulerNotified == Spec => []PushedIsNotified
<1>1. Init => NotifyInv
  <2> SUFFICES ASSUME Init PROVE NotifyInv
    OBVIOUS
  <2>1. N \in 0..N
    BY ContextsAssumption
  <2> QED BY <2>1 DEF Init, EngineInit, NotifyInv, PushedIsNotified
<1>2. ShutInv /\ HandleInv /\ NotifyInv /\ [Next]_vars => NotifyInv'
  <2> SUFFICES ASSUME ShutInv, HandleInv, NotifyInv, [Next]_vars
               PROVE  NotifyInv'
    OBVIOUS
  <2>1. CASE \E k \in Contexts : Worker(k)
    <3>1. PICK k \in Contexts : Worker(k)
      BY <2>1
    <3>2. k \in Executors
      BY DEF Executors
    <3>3. CASE WorkerLoop(k) \/ Complete(k) \/ Body(k)
               \/ (\E t \in Tasks : Spawn(k, t))
      BY <3>3, WorkerSleeps, SleepsEmptyStep
    <3>4. CASE \/ SubmitPush(k)
               \/ Returned(k) /\ \E t \in Tasks : SubmitNew(k, t)
      BY <3>2, <3>4, SubmitNotifies
    <3> QED BY <3>1, <3>3, <3>4 DEF Worker, Nested
  <2>2. CASE \E u \in Threads : Begin(u) \/ Continue(u) \/ Inline(u)
    <3>1. PICK u \in Threads : Begin(u) \/ Continue(u) \/ Inline(u)
      BY <2>2
    <3>2. u \in Executors
      BY DEF Executors
    <3>3. CASE \/ SubmitPush(u)
               \/ Returned(u) /\ \E t \in Tasks : SubmitNew(u, t)
      BY <3>2, <3>3, SubmitNotifies
    <3>4. CASE /\ ~SubmitPush(u)
               /\ ~(Returned(u) /\ \E t \in Tasks : SubmitNew(u, t))
      BY <3>1, <3>4, ThreadNotifies DEF Begin, Continue, Submit
    <3> QED BY <3>3, <3>4
  <2>3. CASE \E x \in Executors : SubmitNotify(x)
    BY <2>3, SubmitNotifies
  <2>4. CASE Environment
    <3>1. CASE \E u \in Threads : LoopSpurious(u)
      BY <3>1, ThreadNotifies
    <3>2. CASE \E k \in Contexts :
                 (SpuriousWake(k) \/ KernelComplete(k)) /\ UNCHANGED schedVars
      <4>1. /\ UNCHANGED <<task_queue_, hand, owed>>
            /\ \A j \in Contexts :
                 wpc'[j] = wpc[j] \/ (wpc[j] = "blocked" /\ wpc'[j] = "wait")
        BY <3>2 DEF SpuriousWake, KernelComplete, GotoW, queuesE, schedVars,
           submitVars, ShutInv, ShutTypes
      <4> QED BY <4>1 DEF NotifyInv, PushedIsNotified
    <3> QED BY <2>4, <3>1, <3>2 DEF Environment
  <2>5. CASE UNCHANGED vars
    BY <2>5 DEF vars, engineVars, schedVars, queuesE, submitVars, NotifyInv,
       PushedIsNotified
  <2> QED BY <2>1, <2>2, <2>3, <2>4, <2>5 DEF Next
<1>3. NotifyInv => PushedIsNotified
  BY DEF NotifyInv
<1> QED BY <1>1, <1>2, <1>3, ShutHolds, HandleHolds, PTL DEF Spec
----------------------------------------------------------------------------
(* What is left when the workers have ended *)

(* The frames that worker k has entered, in order: each awaits the next,   *)
(* and the last one runs.                                                  *)
Chain(k, s) ==
  /\ s # <<>> /\ s[Len(s)] = active[k] /\ caller_[s[1]] = NoTask
  /\ \A i \in 2..Len(s) : frame[s[i]] = "live" /\ caller_[s[i]] = s[i - 1]
InChain(c, k) ==
  /\ wpc[k] = "run"
  /\ \E s \in Seq(Tasks) : Chain(k, s) /\ \E i \in 2..Len(s) : s[i] = c

(* Every frame that another awaits belongs to a worker that runs: the      *)
(* stacks of OwnInv allow frames that await one another in a circle, which *)
(* no worker would ever come back to.                                      *)
ChainInv ==
  /\ \A k \in Contexts : wpc[k] = "run" => \E s \in Seq(Tasks) : Chain(k, s)
  /\ \A c \in Tasks : frame[c] = "live" /\ caller_[c] # NoTask =>
       \E k \in Contexts : InChain(c, k)

(* The chain of another worker stays as it is. *)
LEMMA ChainStays ==
  ASSUME HandleInv, NEW a, NEW k \in Contexts \ {a}, Untouched(a),
         FramesMove(a), wpc[k] = "run", NEW s \in Seq(Tasks), Chain(k, s)
  PROVE  Chain(k, s)'
<1>1. active'[k] = active[k]
  BY DEF Untouched, Busy
<1>2. Len(s) \in Nat /\ Len(s) >= 1 /\ \A i \in 1..Len(s) : s[i] \in Tasks
  BY EmptySeq DEF Chain
<1>3. ASSUME NEW i \in 1..Len(s)
      PROVE  /\ frame[s[i]] = "live" => frame'[s[i]] = "live"
             /\ caller_'[s[i]] = caller_[s[i]]
  <2>1. s[i] \in Tasks
    BY <1>2
  <2>2. CASE i = Len(s)
    <3>1. RunsOn(s[i], k)
      BY <2>2 DEF Chain, RunsOn
    <3>2. frame[s[i]] = "live" /\ ~Queued(s[i]) /\ ~RunsOn(s[i], a)
      BY <2>1, <3>1, EnteredOnce DEF RunsOn
    <3> QED BY <2>1, <3>2 DEF FramesMove
  <2>3. CASE i # Len(s)
    <3>1. i + 1 \in 2..Len(s) /\ i + 1 \in 1..Len(s) /\ (i + 1) - 1 = i
      BY <1>2, <2>3
    <3>2. AwaitsIn(s[i], s[i + 1]) /\ s[i + 1] \in Tasks
      BY <1>2, <3>1 DEF Chain, AwaitsIn
    <3>3. frame[s[i]] = "live" /\ ~Queued(s[i]) /\ ~RunsOn(s[i], a)
      BY <2>1, <3>2, EnteredOnce DEF RunsOn
    <3> QED BY <2>1, <3>3 DEF FramesMove
  <2> QED BY <2>2, <2>3
<1>4. \A i \in 2..Len(s) : i \in 1..Len(s)
  BY <1>2
<1>5. s # <<>> /\ s[Len(s)] = active'[k]
  BY <1>1 DEF Chain
<1>6. caller_'[s[1]] = NoTask
  <2>1. 1 \in 1..Len(s)
    BY <1>2
  <2> QED BY <1>3, <2>1 DEF Chain
<1>7. ASSUME NEW i \in 2..Len(s)
      PROVE  frame'[s[i]] = "live" /\ caller_'[s[i]] = s[i - 1]
  <2>1. frame[s[i]] = "live" /\ caller_[s[i]] = s[i - 1]
    BY DEF Chain
  <2> QED BY <1>3, <1>4, <2>1
<1> QED BY <1>5, <1>6, <1>7 DEF Chain

(* What the worker that acts has to keep. *)
ActorChain(a) ==
  /\ \A c \in Tasks :
       frame[c] # "live" /\ frame'[c] = "live" /\ caller_'[c] # NoTask
       => a \in Contexts /\ InChain(c, a)'
  /\ a \in Contexts =>
       /\ wpc'[a] = "run" => \E s \in Seq(Tasks) : Chain(a, s)'
       /\ \A c \in Tasks : InChain(c, a) /\ frame'[c] = "live" => InChain(c, a)'

(* It is enough to look at that worker. *)
LEMMA ChainStep ==
  ASSUME HandleInv, ChainInv, NEW a, OwnAct(a), ActorChain(a)
  PROVE  ChainInv'
<1>1. Untouched(a) /\ FramesMove(a)
  BY DEF OwnAct
<1>2. ASSUME NEW k \in Contexts, wpc'[k] = "run"
      PROVE  \E s \in Seq(Tasks) : Chain(k, s)'
  <2>1. CASE k = a
    BY <1>2, <2>1 DEF ActorChain
  <2>2. CASE k # a
    <3>1. wpc[k] = "run"
      BY <1>1, <1>2, <2>2 DEF Untouched
    <3>2. PICK s \in Seq(Tasks) : Chain(k, s)
      BY <3>1 DEF ChainInv
    <3>3. Chain(k, s)'
      BY <1>1, <2>2, <3>1, <3>2, ChainStays
    <3> QED BY <3>3
  <2> QED BY <2>1, <2>2
<1>3. ASSUME NEW c \in Tasks, frame'[c] = "live", caller_'[c] # NoTask
      PROVE  \E k \in Contexts : InChain(c, k)'
  <2>1. CASE frame[c] # "live"
    BY <1>3, <2>1 DEF ActorChain
  <2>2. CASE frame[c] = "live"
    <3>1. caller_[c] # NoTask
      BY <1>1, <1>3, <2>2 DEF FramesMove
    <3>2. PICK k \in Contexts : InChain(c, k)
      BY <2>2, <3>1 DEF ChainInv
    <3>3. CASE k = a
      BY <1>3, <3>2, <3>3 DEF ActorChain
    <3>4. CASE k # a
      <4>1. PICK s \in Seq(Tasks) : Chain(k, s) /\ \E i \in 2..Len(s) : s[i] = c
        BY <3>2 DEF InChain
      <4>2. wpc[k] = "run" /\ wpc'[k] = "run"
        BY <1>1, <3>2, <3>4 DEF InChain, Untouched
      <4>3. Chain(k, s)'
        BY <1>1, <3>4, <4>1, <4>2, ChainStays
      <4> QED BY <4>1, <4>2, <4>3 DEF InChain
    <3> QED BY <3>3, <3>4
  <2> QED BY <2>1, <2>2
<1> QED BY <1>2, <1>3 DEF ChainInv

(* A frame that nobody awaits and that runs is alone on its worker. *)
LEMMA AloneChain ==
  ASSUME NEW k \in Contexts, caller_[active[k]] = NoTask, NEW c, InChain(c, k)
  PROVE  FALSE
<1>1. PICK s \in Seq(Tasks) : Chain(k, s) /\ \E i \in 2..Len(s) : s[i] = c
  BY DEF InChain
<1>2. Len(s) \in 2..Len(s) /\ Len(s) - 1 \in 1..Len(s)
  BY <1>1
<1>3. caller_[s[Len(s)]] = s[Len(s) - 1] /\ s[Len(s) - 1] \in Tasks
  BY <1>1, <1>2 DEF Chain
<1> QED BY <1>1, <1>3, NoTaskAssumption DEF Chain

(* The steps that enter a resumed handle or leave a worker's last frame. *)
LEMMA EdgeChain ==
  ASSUME HandleInv, OwnHandles, OwnInv, NEW k \in Contexts,
         \/ ResumeNext(k) /\ work_batch_[k] # <<>>
         \/ AfterResume(k)
         \/ MaySuspend(k) /\ Suspending(k)
  PROVE  ActorChain(k)
<1>1. /\ wpc \in [Contexts -> WorkerPCs] /\ frame \in [Tasks -> Frames]
      /\ active \in [Contexts -> Tasks \cup {NoTask}]
      /\ Queues(work_batch_) /\ InnerInv
  BY DEF HandleInv, HandleTypes, QueuesInv, OwnInv
<1>2. CASE ResumeNext(k) /\ work_batch_[k] # <<>>
  <2>1. PICK h : h = Head(work_batch_[k])
    OBVIOUS
  <2>2. /\ Pops(work_batch_, work_batch_', k, h)
        /\ active' = [active EXCEPT ![k] = h]
        /\ wpc[k] = "resume" /\ UNCHANGED <<frame, caller_>>
    BY <1>2, <2>1 DEF ResumeNext, Pops, coro
  <2>3. h \in Tasks /\ h \in Range(work_batch_[k])
    BY <1>1, <2>2, QueuePop
  <2>4. Queued(h)
    <3>1. At(h, "batch", k) /\ "batch" \in Outside /\ k \in Spots
      BY <2>3, SpotsLemma DEF At, Outside, Kinds
    <3> QED BY <3>1 DEF Queued
  <2>5. caller_'[h] = NoTask /\ active'[k] = h
    BY <1>1, <2>2, <2>3, <2>4, QueuedTop
  <2>6. \E s \in Seq(Tasks) : Chain(k, s)'
    <3>1. /\ <<h>> \in Seq(Tasks) /\ <<h>> # <<>> /\ Len(<<h>>) = 1
          /\ <<h>>[1] = h /\ 2..1 = {}
      BY <2>3
    <3>2. Chain(k, <<h>>)'
      BY <2>5, <3>1 DEF Chain
    <3> QED BY <3>1, <3>2
  <2> QED BY <2>2, <2>6 DEF ActorChain, InChain
<1>3. CASE AfterResume(k)
  <2>1. /\ wpc[k] = "resumed" /\ wpc'[k] # "run"
        /\ \A t \in Tasks : frame'[t] \in {frame[t], "destroyed"}
    BY <1>1, <1>3 DEF AfterResume, GotoW
  <2> QED BY <2>1 DEF ActorChain, InChain
<1>4. CASE MaySuspend(k) /\ Suspending(k)
  <2>1. /\ wpc'[k] # "run" /\ UNCHANGED frame
        /\ caller_[active[k]] = NoTask
    BY <1>1, <1>4 DEF Suspending, GotoW, MaySuspend, OwnHandles
  <2> QED BY <2>1, AloneChain DEF ActorChain
<1> QED BY <1>2, <1>3, <1>4

(* co_await of a Task: the chain grows by one. *)
LEMMA AwaitChain ==
  ASSUME HandleInv, OwnInv, ChainInv, NEW k \in Contexts, NEW h \in Tasks,
         Await(k, h)
  PROVE  ActorChain(k)
<1>1. /\ wpc[k] = "run" /\ frame[h] = "none"
      /\ frame' = [frame EXCEPT ![h] = "live"]
      /\ caller_' = [caller_ EXCEPT ![h] = active[k]]
      /\ active' = [active EXCEPT ![k] = h] /\ UNCHANGED wpc
  BY DEF Await, Running
<1>2. /\ active \in [Contexts -> Tasks \cup {NoTask}]
      /\ frame \in [Tasks -> Frames]
      /\ caller_ \in [Tasks -> Tasks \cup {NoTask}]
  BY DEF HandleInv, HandleTypes
<1>3. active[k] \in Tasks /\ frame[active[k]] = "live"
  <2>1. active[k] \in Tasks
    BY <1>1 DEF HandleInv, WorkInv
  <2>2. RunsOn(active[k], k)
    BY <1>1 DEF RunsOn
  <2> QED BY <2>1, <2>2, EnteredOnce
<1>4. ASSUME NEW s \in Seq(Tasks), Chain(k, s)
      PROVE  /\ Append(s, h) \in Seq(Tasks) /\ Chain(k, Append(s, h))'
             /\ Len(s) \in Nat /\ Len(s) >= 1 /\ Len(Append(s, h)) = Len(s) + 1
             /\ \A i \in 1..Len(s) : Append(s, h)[i] = s[i]
             /\ Append(s, h)[Len(s) + 1] = h
  <2> DEFINE r == Append(s, h)
  <2>1. /\ r \in Seq(Tasks) /\ Len(s) \in Nat /\ Len(s) >= 1
        /\ Len(r) = Len(s) + 1 /\ r[Len(s) + 1] = h
        /\ \A i \in 1..Len(s) : r[i] = s[i] /\ s[i] \in Tasks
    BY <1>4, EmptySeq DEF Chain
  <2>2. \A i \in 1..Len(s) : frame[s[i]] = "live" => s[i] # h
    BY <1>1
  <2>3. ASSUME NEW i \in 1..Len(s) PROVE s[i] # h
    <3>1. CASE i = Len(s)
      BY <1>1, <1>3, <1>4, <3>1 DEF Chain
    <3>2. CASE i # Len(s)
      <4>1. i + 1 \in 2..Len(s) /\ i + 1 \in 1..Len(s) /\ (i + 1) - 1 = i
        BY <2>1, <3>2
      <4>2. AwaitsIn(s[i], s[i + 1]) /\ s[i] \in Tasks
        BY <1>4, <2>1, <4>1 DEF Chain, AwaitsIn
      <4>3. frame[s[i]] = "live"
        BY <2>1, <4>1, <4>2, EnteredOnce
      <4> QED BY <1>1, <4>3
    <3> QED BY <3>1, <3>2
  <2>4. \A i \in 1..Len(s) :
          caller_'[r[i]] = caller_[s[i]] /\ frame'[r[i]] = frame[s[i]]
    BY <1>1, <1>2, <2>1, <2>3
  <2>5. ASSUME NEW i \in 2..Len(r)
        PROVE  frame'[r[i]] = "live" /\ caller_'[r[i]] = r[i - 1]
    <3>1. CASE i = Len(r)
      <4>1. i - 1 = Len(s) /\ r[i] = h /\ r[i - 1] = s[Len(s)]
        BY <2>1, <3>1
      <4> QED BY <1>1, <1>2, <1>4, <4>1 DEF Chain
    <3>2. CASE i # Len(r)
      <4>1. i \in 2..Len(s) /\ i \in 1..Len(s) /\ i - 1 \in 1..Len(s)
        BY <2>1, <3>2
      <4>2. frame[s[i]] = "live" /\ caller_[s[i]] = s[i - 1]
        BY <1>4, <4>1 DEF Chain
      <4> QED BY <2>1, <2>4, <4>1, <4>2
    <3> QED BY <3>1, <3>2
  <2>6. caller_'[r[1]] = NoTask
    <3>1. 1 \in 1..Len(s) /\ caller_[s[1]] = NoTask
      BY <1>4, <2>1 DEF Chain
    <3> QED BY <2>4, <3>1
  <2>7. r # <<>> /\ r[Len(r)] = active'[k]
    BY <1>1, <1>2, <2>1
  <2> QED BY <2>1, <2>5, <2>6, <2>7 DEF Chain
<1>5. PICK s \in Seq(Tasks) : Chain(k, s)
  BY <1>1 DEF ChainInv
<1>6. InChain(h, k)'
  <2>1. Len(s) + 1 \in 2..Len(Append(s, h))
    BY <1>4, <1>5
  <2> QED BY <1>1, <1>4, <1>5, <2>1 DEF InChain
<1>7. ASSUME NEW c \in Tasks, InChain(c, k) PROVE InChain(c, k)'
  <2>1. PICK q \in Seq(Tasks) : Chain(k, q) /\ \E i \in 2..Len(q) : q[i] = c
    BY <1>7 DEF InChain
  <2>2. PICK i \in 2..Len(q) : q[i] = c
    BY <2>1
  <2>3. i \in 2..Len(Append(q, h)) /\ i \in 1..Len(q)
    BY <1>4, <2>1
  <2> QED BY <1>1, <1>4, <2>1, <2>2, <2>3 DEF InChain
<1>8. \A c \in Tasks \ {h} : frame'[c] = frame[c]
  BY <1>1, <1>2
<1> QED BY <1>4, <1>5, <1>6, <1>7, <1>8 DEF ActorChain

(* The body ends: the chain loses its last frame. *)
LEMMA FinishChain ==
  ASSUME HandleInv, OwnInv, ChainInv, NEW k \in Contexts, Finish(k), OwnAct(k)
  PROVE  ActorChain(k)
<1>1. /\ wpc[k] = "run" /\ active' = [active EXCEPT ![k] = caller_[active[k]]]
      /\ \/ caller_[active[k]] = NoTask /\ wpc' = [wpc EXCEPT ![k] = "resumed"]
         \/ caller_[active[k]] # NoTask /\ UNCHANGED wpc
  BY DEF Finish, Running, GotoW
<1>2. /\ wpc \in [Contexts -> WorkerPCs] /\ frame \in [Tasks -> Frames]
      /\ active \in [Contexts -> Tasks \cup {NoTask}] /\ FramesMove(k)
  BY DEF HandleInv, HandleTypes, OwnAct
<1>3. \A t \in Tasks : frame'[t] \in {frame[t], "destroyed", "final"}
  BY <1>2 DEF Finish, Drop
<1>4. CASE caller_[active[k]] = NoTask
  <2>1. wpc'[k] # "run"
    BY <1>1, <1>2, <1>4
  <2> QED BY <1>3, <1>4, <2>1, AloneChain DEF ActorChain
<1>5. CASE caller_[active[k]] # NoTask
  <2>1. active'[k] = caller_[active[k]] /\ wpc'[k] = "run"
    BY <1>1, <1>2, <1>5
  <2>2. ASSUME NEW s \in Seq(Tasks), Chain(k, s)
        PROVE  \E r \in Seq(Tasks) :
                 /\ Chain(k, r)' /\ Len(r) = Len(s) - 1 /\ Len(s) \in Nat
                 /\ \A i \in 1..Len(s) - 1 : r[i] = s[i]
    <3>1. /\ Len(s) \in Nat /\ Len(s) >= 1
          /\ \A i \in 1..Len(s) : s[i] \in Tasks
      BY <2>2, EmptySeq DEF Chain
    <3>2. Len(s) # 1
      BY <1>5, <2>2 DEF Chain
    <3>3. PICK n \in Nat : n = Len(s) - 1 /\ n >= 1
      <4>1. \A m \in Nat : m >= 1 /\ m # 1 => m - 1 \in Nat /\ m - 1 >= 1
        OBVIOUS
      <4>2. Len(s) \in Nat /\ Len(s) >= 1
        BY <3>1
      <4> QED BY <3>2, <4>1, <4>2
    <3> DEFINE r == SubSeq(s, 1, n)
    <3>4. r \in Seq(Tasks) /\ Len(r) = n /\ \A i \in 1..n : r[i] = s[i]
      BY <3>1, <3>3
    <3> HIDE DEF r
    <3>5. ASSUME NEW i \in 1..n
          PROVE  frame'[s[i]] = "live" /\ caller_'[s[i]] = caller_[s[i]]
      <4>1. i + 1 \in 2..Len(s) /\ i + 1 \in 1..Len(s) /\ i \in 1..Len(s)
            /\ (i + 1) - 1 = i
        BY <3>1, <3>3
      <4>2. AwaitsIn(s[i], s[i + 1]) /\ s[i] \in Tasks /\ s[i + 1] \in Tasks
        BY <2>2, <3>1, <4>1 DEF Chain, AwaitsIn
      <4>3. frame[s[i]] = "live" /\ ~Queued(s[i]) /\ ~RunsOn(s[i], k)
        BY <4>2, EnteredOnce DEF RunsOn
      <4> QED BY <1>2, <4>2, <4>3 DEF FramesMove
    <3>6. \A i \in 2..Len(r) : frame'[r[i]] = "live" /\ caller_'[r[i]] = r[i - 1]
      <4> TAKE i \in 2..Len(r)
      <4>1. i \in 1..n /\ i - 1 \in 1..n /\ i \in 2..Len(s)
        BY <3>1, <3>3, <3>4
      <4>2. caller_[s[i]] = s[i - 1]
        BY <2>2, <4>1 DEF Chain
      <4> QED BY <3>4, <3>5, <4>1, <4>2
    <3>7. r # <<>> /\ r[Len(r)] = active'[k] /\ caller_'[r[1]] = NoTask
      <4>1. n \in 1..n /\ 1 \in 1..n /\ Len(s) \in 2..Len(s)
        BY <3>1, <3>3
      <4>2. /\ caller_[s[Len(s)]] = s[n] /\ active[k] = s[Len(s)]
            /\ caller_[s[1]] = NoTask
        BY <2>2, <3>3, <4>1 DEF Chain
      <4> QED BY <2>1, <3>3, <3>4, <3>5, <4>1, <4>2
    <3>8. Chain(k, r)'
      BY <3>6, <3>7 DEF Chain
    <3> QED BY <3>1, <3>3, <3>4, <3>8
  <2>3. \E r \in Seq(Tasks) : Chain(k, r)'
    <3>1. PICK s \in Seq(Tasks) : Chain(k, s)
      BY <1>1 DEF ChainInv
    <3> QED BY <2>2, <3>1
  <2>4. ASSUME NEW c \in Tasks, InChain(c, k), frame'[c] = "live"
        PROVE  InChain(c, k)'
    <3>1. PICK s \in Seq(Tasks) : Chain(k, s) /\ \E i \in 2..Len(s) : s[i] = c
      BY <2>4 DEF InChain
    <3>2. PICK i \in 2..Len(s) : s[i] = c
      BY <3>1
    <3>3. PICK r \in Seq(Tasks) :
            /\ Chain(k, r)' /\ Len(r) = Len(s) - 1 /\ Len(s) \in Nat
            /\ \A j \in 1..Len(s) - 1 : r[j] = s[j]
      BY <2>2, <3>1
    <3>4. c # active[k]
      <4>1. frame'[active[k]] # "live"
        <5>1. active[k] \in Tasks
          BY <1>1 DEF HandleInv, WorkInv
        <5> QED BY <1>2, <5>1 DEF Finish, Drop
      <4> QED BY <2>4, <4>1
    <3>5. i # Len(s)
      BY <3>1, <3>2, <3>4 DEF Chain
    <3>6. i \in 2..Len(r) /\ i \in 1..Len(s) - 1
      BY <3>2, <3>3, <3>5
    <3> QED BY <2>1, <3>2, <3>3, <3>6 DEF InChain
  <2> QED BY <1>3, <2>3, <2>4 DEF ActorChain
<1> QED BY <1>4, <1>5

(* Only co_await begins a frame with a caller. *)
LEMMA BornInner ==
  ASSUME HandleInv, [CoreNext]_coreVars, NEW c \in Tasks, frame[c] # "live",
         frame'[c] = "live", caller_'[c] # NoTask
  PROVE  \E k \in Contexts : Await(k, c)
<1>1. /\ frame \in [Tasks -> Frames]
      /\ hand \in [Executors -> Tasks \cup {NoTask}]
      /\ caller_ \in [Tasks -> Tasks \cup {NoTask}]
      /\ parked \subseteq Tasks
  BY DEF HandleInv, HandleTypes
<1>2. frame' # frame
  OBVIOUS
<1>3. ASSUME NEW t \in Tasks,
             \/ \E x \in Executors : SubmitNew(x, t)
             \/ \E k \in Contexts : Spawn(k, t)
      PROVE  FALSE
  <2>1. /\ frame[t] = "none" /\ UNCHANGED caller_
        /\ \/ frame' = [frame EXCEPT ![t] = "live"]
           \/ frame' = [frame EXCEPT ![t] = "destroyed"]
    BY <1>3 DEF SubmitNew, Spawn
  <2>2. caller_[t] = NoTask
    BY <2>1 DEF HandleInv, CallerInv
  <2> QED BY <1>1, <2>1, <2>2
<1>4. ASSUME NEW x \in Executors, SubmitPush(x) PROVE FALSE
  <2>1. frame' = frame \/ frame' = [frame EXCEPT ![hand[x]] = "leaked"]
    BY <1>4 DEF SubmitPush
  <2> QED BY <1>1, <2>1
<1>5. ASSUME NEW k \in Contexts, Worker(k) PROVE Await(k, c)
  <2>1. CASE AfterResume(k) \/ Finish(k) \/ Release(k)
    <3>1. \A t \in Tasks : frame'[t] \in {frame[t], "destroyed", "final"}
      BY <1>1, <2>1 DEF AfterResume, Finish, Release, Drop
    <3> QED BY <3>1
  <2>2. CASE \E t \in Tasks : Await(k, t)
    <3>1. PICK t \in Tasks : Await(k, t)
      BY <2>2
    <3>2. t = c
      BY <1>1, <3>1 DEF Await
    <3> QED BY <3>1, <3>2
  <2>3. CASE Nested(k) \/ SubmitPush(k)
    BY <1>3, <1>4, <2>3 DEF Nested, Executors
  <2>4. CASE WorkerLoop(k) \/ Complete(k)
    BY <1>2, <2>1, <2>4 DEF WorkerLoop, PopBatch, ResumeNext, PollPrepare,
       UringSubmit, Reap, PollReturn, CanStop, WaitCheck, WaitBlock, Complete,
       coro
  <2>5. CASE Body(k)
    BY <1>2, <2>1, <2>2, <2>5 DEF Body, WakeOne, Wake, Yield, IoSuspendOnce,
       IoRead, IoWrite, Park, Suspending
  <2> QED BY <1>5, <2>3, <2>4, <2>5 DEF Worker
<1>6. ASSUME NEW u \in Threads, Starts(u) \/ Continue(u) PROVE FALSE
  <2>1. CASE Submit(u) \/ SubmitPush(u)
    BY <1>3, <1>4, <2>1 DEF Submit, Executors
  <2>2. CASE InlineEnd(u)
    <3>1. \A t \in Tasks : frame'[t] \in {frame[t], "destroyed", "final"}
      BY <1>1, <2>2 DEF InlineEnd, RunsInlined, inlineOnly, Drop
    <3> QED BY <3>1
  <2>3. CASE Join(u)
    <3>1. \A t \in Tasks : frame'[t] \in {frame[t], "leaked"}
      BY <2>3 DEF Join, DestroyContexts
    <3> QED BY <3>1
  <2> QED BY <1>2, <1>6, <2>1, <2>2, <2>3 DEF Starts, Continue, InitScheduler,
          Loop, Stop, LoopCheck, LoopBlock, StopNotify, Shutdown, RequestStop,
          NotifyStop, Return, threadOnly, engineVars, coro
<1>7. CASE Surroundings \/ UNCHANGED coreVars
  BY <1>2, <1>7 DEF Surroundings, SpuriousWake, KernelComplete, LoopSpurious,
     coreVars, coreSched, threadOnly, engineVars, coro
<1> QED BY <1>5, <1>6, <1>7 DEF CoreNext

(* Every step keeps the chains. *)
LEMMA NextChain ==
  ASSUME ShutInv, HandleInv, OwnHandles, OwnInv, ChainInv, [CoreNext]_coreVars
  PROVE  ChainInv'
<1>1. CASE \E k \in Contexts : Acts(k) /\ OwnAct(k)
  <2>1. PICK k \in Contexts : Acts(k) /\ OwnAct(k)
    BY <1>1
  <2>2. ActorChain(k)
    BY <2>1, EdgeChain, AwaitChain, FinishChain DEF Acts
  <2> QED BY <2>1, <2>2, ChainStep
<1>2. CASE \E k \in Contexts, t \in Tasks : Await(k, t)
  BY <1>2, AwaitOwn, AwaitChain, ChainStep
<1>3. CASE OwnAct(N) /\ ~\E k \in Contexts, t \in Tasks : Await(k, t)
  <2>1. ActorChain(N)
    BY <1>3, BornInner, NotContext DEF ActorChain
  <2> QED BY <1>3, <2>1, ChainStep
<1> QED BY <1>1, <1>2, <1>3, NextOwn DEF OwnActs

(* Every awaited frame belongs to a worker in every state. *)
LEMMA ChainHolds ==
  ASSUME OwnHandles PROVE Spec => []ChainInv
<1>2. Init => ChainInv
  BY DEF Init, EngineInit, ChainInv
<1>3. ShutInv /\ HandleInv /\ OwnInv /\ ChainInv /\ [CoreNext]_coreVars => ChainInv'
  BY OwnHandles, NextChain
<1> QED BY <1>2, <1>3, OwnHandles, ShutHolds, HandleHolds, OwnHolds, CoreAlways,
           PTL DEF Spec

(* A submit that has not pushed its handle yet is still running: on a      *)
(* worker, or in a thread that is in no other call.                        *)
HandInv ==
  /\ \A k \in Contexts : hand[k] # NoTask => wpc[k] = "run"
  /\ \A u \in Threads : hand[u] # NoTask => tpc[u] = "idle"

(* A step in which nobody takes a handle, and nobody who has one moves. *)
HandsRest ==
  /\ \A x \in Executors : hand'[x] \in {hand[x], NoTask}
  /\ \A k \in Contexts : hand[k] # NoTask /\ wpc[k] = "run" => wpc'[k] = "run"
  /\ \A u \in Threads : hand[u] # NoTask /\ tpc[u] = "idle" => tpc'[u] = "idle"

(* Every step keeps that. *)
LEMMA HandStep ==
  ASSUME ShutInv, HandleInv, HandInv, [CoreNext]_coreVars
  PROVE  HandInv'
<1>1. /\ wpc \in [Contexts -> WorkerPCs] /\ tpc \in [Threads -> ThreadPCs]
      /\ hand \in [Executors -> Tasks \cup {NoTask}]
      /\ Threads \subseteq Executors /\ Contexts \subseteq Executors
      /\ contexts \subseteq Contexts
  BY DEF HandleInv, HandleTypes, ShutInv, ShutTypes, Executors
<1>2. HandsRest => HandInv'
  BY <1>1 DEF HandInv, HandsRest
<1>3. ASSUME NEW x \in Executors, SubmitPush(x) PROVE HandsRest
  <2>1. /\ hand' = [hand EXCEPT ![x] = NoTask] /\ UNCHANGED tpc
        /\ UNCHANGED wpc \/ \E k \in Contexts : wpc' = [wpc EXCEPT ![k] = Notified(k)]
    BY <1>1, <1>3 DEF SubmitPush, GotoW, threadVars
  <2> QED BY <1>1, <2>1 DEF HandsRest, Notified
<1>4. ASSUME NEW x \in Executors, NEW t \in Tasks, SubmitNew(x, t),
             x \in Contexts => wpc[x] = "run", x \in Threads => tpc[x] = "idle"
      PROVE  HandInv'
  <2>1. /\ UNCHANGED <<wpc, tpc>>
        /\ UNCHANGED hand \/ hand' = [hand EXCEPT ![x] = t]
    BY <1>4 DEF SubmitNew, threadVars, submitVars
  <2> QED BY <1>1, <1>4, <2>1 DEF HandInv
<1>5. ASSUME NEW k \in Contexts, Worker(k) PROVE HandInv'
  <2>1. CASE SubmitPush(k)
    BY <1>1, <1>2, <1>3, <2>1
  <2>2. CASE \E t \in Tasks : Running(k) /\ SubmitNew(k, t)
    <3>1. k \notin Threads
      BY CallsAssumption
    <3> QED BY <1>1, <1>4, <2>2, <3>1 DEF Running
  <2>3. CASE \/ WorkerLoop(k) \/ Complete(k) \/ Body(k)
             \/ hand[k] = NoTask /\ \E t \in Tasks : Spawn(k, t)
    <3>1. UNCHANGED hand
      BY <2>3 DEF WorkerLoop, Complete, Body, Spawn, schedVars, submitVars
    <3>2. \A u \in Threads : tpc[u] = "idle" => tpc'[u] = "idle"
      BY <1>1, <2>3 DEF WorkerLoop, Complete, Body, Spawn, CompletionNotified,
         schedVars, threadVars
    <3>3. hand[k] # NoTask => wpc[k] # "run" \/ UNCHANGED wpc
      BY <2>3 DEF WorkerLoop, PopBatch, ResumeNext, AfterResume, PollPrepare,
         UringSubmit, Reap, PollReturn, CanStop, WaitCheck, WaitBlock, Complete,
         Body, Returned
    <3>4. UNCHANGED wpc \/ \E p \in WorkerPCs : GotoW(k, p)
      BY <1>1, <2>3 DEF WorkerLoop, PopBatch, ResumeNext, AfterResume,
         PollPrepare, UringSubmit, Reap, PollReturn, CanStop, WaitCheck,
         WaitBlock, Complete, Body, Finish, Release, WakeOne, Wake, Await,
         Yield, IoSuspendOnce, IoRead, IoWrite, Park, Suspending, Spawn,
         WorkerPCs
    <3> QED BY <1>1, <1>2, <3>1, <3>2, <3>3, <3>4 DEF HandsRest, GotoW
  <2> QED BY <1>5, <2>1, <2>2, <2>3 DEF Worker, Nested, Returned
<1>6. ASSUME NEW u \in Threads, Starts(u) \/ Continue(u) \/ LoopSpurious(u)
      PROVE  HandInv'
  <2>1. CASE SubmitPush(u)
    BY <1>1, <1>2, <1>3, <2>1
  <2>2. CASE Submit(u)
    <3>1. u \notin Contexts
      BY CallsAssumption
    <3> QED BY <1>1, <1>4, <2>2, <3>1 DEF Submit, Enter
  <2>3. CASE InitScheduler(u)
    <3>1. /\ UNCHANGED <<hand, tpc>> /\ \A k \in Contexts : wpc[k] # "run"
      BY <2>3 DEF InitScheduler, submitVars, threadVars, ShutInv, Ended
    <3> QED BY <3>1 DEF HandInv
  <2>4. CASE InlineEnd(u)
    BY <2>4 DEF InlineEnd, RunsInlined, inlineOnly, submitVars, threadVars,
       HandInv
  <2>5. CASE /\ Starts(u) \/ Continue(u) \/ LoopSpurious(u)
             /\ ~SubmitPush(u) /\ ~Submit(u) /\ ~InitScheduler(u)
             /\ ~InlineEnd(u)
    <3>1. UNCHANGED hand
      BY <2>5 DEF Starts, Continue, LoopSpurious, Loop, Stop, LoopCheck,
         LoopBlock, StopNotify, Shutdown, RequestStop, NotifyStop, Join, Return,
         threadOnly, submitVars
    <3>2. \A k \in Contexts : wpc[k] = "run" => wpc'[k] = "run"
      BY <1>1, <2>5 DEF Starts, Continue, LoopSpurious, Loop, Stop, LoopCheck,
         LoopBlock, StopNotify, Shutdown, RequestStop, NotifyStop, Join, Return,
         threadOnly, engineVars, GotoW, Notified
    <3>3. \A v \in Threads \ {u} : tpc[v] = "idle" => tpc'[v] = "idle"
      BY <1>1, <2>5 DEF Starts, Continue, LoopSpurious, Loop, Stop, LoopCheck,
         LoopBlock, StopNotify, Shutdown, RequestStop, NotifyStop, Join, Return,
         GotoT, CompletionNotified
    <3>4. hand[u] # NoTask => tpc[u] # "idle"
      BY <2>5 DEF Starts, Continue, LoopSpurious, LoopCheck, LoopBlock,
         StopNotify, Shutdown, RequestStop, NotifyStop, Join, Return
    <3> QED BY <1>1, <1>2, <3>1, <3>2, <3>3, <3>4 DEF HandsRest
  <2> QED BY <1>6, <2>1, <2>2, <2>3, <2>4, <2>5
<1>7. CASE \E k \in Contexts :
             (SpuriousWake(k) \/ KernelComplete(k)) /\ UNCHANGED coreSched
  <2>1. /\ UNCHANGED <<hand, tpc>>
        /\ \A k \in Contexts : wpc[k] = "run" => wpc'[k] = "run"
    BY <1>1, <1>7 DEF SpuriousWake, KernelComplete, GotoW, coreSched,
       threadVars
  <2> QED BY <1>1, <1>2, <2>1 DEF HandsRest
<1>8. CASE UNCHANGED coreVars
  <2>1. UNCHANGED <<hand, tpc, wpc>>
    BY <1>8 DEF coreVars, coreSched, engineVars, schedVars, submitVars,
       threadVars
  <2> QED BY <2>1 DEF HandInv
<1> QED BY <1>5, <1>6, <1>7, <1>8 DEF CoreNext, Surroundings, coreSched

(* The thread that ends the scheduler is also the only one outside it that *)
(* submits.                                                                *)
OneCaller ==
  \A u, v \in Threads :
    /\ Calls[u] \cap {"loop", "stop"} # {}
    /\ Calls[v] \cap {"init", "submit", "loop", "stop"} # {}
    => u = v

(* Whoever holds a handle may submit. *)
SubmitterInv ==
  \A u \in Threads : hand[u] # NoTask => "submit" \in Calls[u]

(* Every step keeps that. *)
LEMMA SubmitterStep ==
  ASSUME HandleInv, SubmitterInv, [CoreNext]_coreVars
  PROVE  SubmitterInv'
<1>1. hand \in [Executors -> Tasks \cup {NoTask}] /\ Threads \subseteq Executors
      /\ Contexts \subseteq Executors /\ Threads \cap Contexts = {}
  BY CallsAssumption DEF HandleInv, HandleTypes, Executors
<1>2. CASE \A x \in Executors : hand'[x] \in {hand[x], NoTask}
  BY <1>1, <1>2 DEF SubmitterInv
<1>3. CASE \E k \in Contexts, t \in Tasks : SubmitNew(k, t)
  <2>1. \A u \in Threads : hand'[u] = hand[u]
    BY <1>1, <1>3 DEF SubmitNew, submitVars
  <2> QED BY <2>1 DEF SubmitterInv
<1>4. CASE \E u \in Threads : Submit(u)
  <2>1. PICK u \in Threads, t \in Tasks :
          /\ "submit" \in Calls[u]
          /\ UNCHANGED hand \/ hand' = [hand EXCEPT ![u] = t]
    BY <1>4 DEF Submit, Enter, SubmitNew, submitVars
  <2> QED BY <1>1, <2>1 DEF SubmitterInv
<1>5. CASE \E x \in Executors : SubmitPush(x)
  <2>1. \A x \in Executors : hand'[x] \in {hand[x], NoTask}
    BY <1>1, <1>5 DEF SubmitPush
  <2> QED BY <1>2, <2>1
<1>6. ASSUME UNCHANGED hand PROVE SubmitterInv'
  BY <1>6 DEF SubmitterInv
<1>7. ASSUME NEW k \in Contexts, Worker(k), ~SubmitPush(k),
             ~\E t \in Tasks : SubmitNew(k, t)
      PROVE  UNCHANGED hand
  BY <1>7 DEF Worker, WorkerLoop, Complete, Body, Nested, Spawn, schedVars,
     submitVars
<1>8. ASSUME NEW u \in Threads, Starts(u) \/ Continue(u), ~SubmitPush(u),
             ~Submit(u)
      PROVE  UNCHANGED hand
  BY <1>8 DEF Starts, Continue, InitScheduler, InlineEnd, RunsInlined,
     inlineOnly, Loop, Stop, LoopCheck, LoopBlock, StopNotify, Shutdown,
     RequestStop, NotifyStop, Join, Return, threadOnly, submitVars
<1>9. Surroundings \/ UNCHANGED coreVars => UNCHANGED hand
  BY DEF Surroundings, coreSched, LoopSpurious, threadOnly, coreVars, schedVars,
     submitVars
<1> QED BY <1>1, <1>3, <1>4, <1>5, <1>6, <1>7, <1>8, <1>9 DEF CoreNext

(* Without contexts a live frame is parked or in the hand of a thread that *)
(* is in no other call.                                                    *)
LEMMA LeftOver ==
  ASSUME ShutInv, HandleInv, InflightInv, GoneInv, ChainInv, HandInv,
         contexts = {}, NEW t \in Tasks, frame[t] = "live", t \notin parked
  PROVE  \E u \in Threads : hand[u] = t /\ tpc[u] = "idle" /\ target[u] = N
<1>1. PICK i \in Kinds, x \in Spots : At(t, i, x)
  BY DEF HandleInv, HeldOnce, OnlyAt
<1>2. \A k \in Contexts : Ended(k)
  BY DEF ShutInv
<1>3. i # "caller"
  <2>1. \A c \in Tasks : ~(frame[c] = "live" /\ caller_[c] # NoTask)
    BY <1>2 DEF ChainInv, InChain, Ended
  <2> QED BY <1>1, <2>1, NoTaskAssumption DEF At
<1>4. \A k \in Contexts :
        /\ task_queue_[k] = <<>>
        /\ io_waiting_queue_[k] = <<>> /\ io_read_submit_queue_[k] = <<>>
        /\ io_write_submit_queue_[k] = <<>> /\ sq[k] = <<>> /\ cq[k] = <<>>
        /\ ring[k] = {} /\ work_batch_[k] = <<>>
  BY <1>2, EndedEmpty DEF GoneInv
<1>5. Range(<<>>) = {}
  BY EmptyQueueLemma
<1>6. x \in Executors /\ hand[x] = t
  BY <1>1, <1>2, <1>3, <1>4, <1>5 DEF At, Ended
<1>7. hand[x] # NoTask /\ x \notin Contexts
  BY <1>2, <1>6, NoTaskAssumption DEF HandInv, Ended
<1>8. x \in Threads
  BY <1>6, <1>7 DEF Executors
<1> QED BY <1>6, <1>7, <1>8 DEF HandInv, GoneInv

(* A worker submits to itself only: there is no other, or tasks submit     *)
(* with submit_to_scheduler.                                               *)
OwnSubmits == N = 1 \/ "submit" \notin TaskCalls

(* The workers run while the scheduler is initialized; nobody is asked to  *)
(* stop before that ends.                                                  *)
StartedInv ==
  /\ stop_token \in [Contexts -> BOOLEAN]
  /\ initialized_ => \A k \in Contexts : ~stop_token[k] /\ ~Ended(k)

(* Every step keeps that. *)
LEMMA StartedStep ==
  ASSUME ShutInv, StartedInv, [CoreNext]_coreVars
  PROVE  StartedInv'
<1>1. /\ wpc \in [Contexts -> WorkerPCs] /\ stop_token \in [Contexts -> BOOLEAN]
      /\ initialized_ \in BOOLEAN
  BY DEF ShutInv, ShutTypes, StartedInv
<1>2. ASSUME UNCHANGED stop_token, initialized_' => initialized_,
             \A k \in Contexts : Ended(k)' => Ended(k) \/ stop_token[k]
      PROVE  StartedInv'
  BY <1>1, <1>2 DEF StartedInv
<1>3. ASSUME NEW k \in Contexts, Worker(k) PROVE StartedInv'
  <2>1. UNCHANGED <<stop_token, initialized_>>
    BY <1>3 DEF Worker, WorkerLoop, PopBatch, ResumeNext, AfterResume,
       PollPrepare, UringSubmit, Reap, PollReturn, CanStop, WaitCheck,
       WaitBlock, Complete, Body, Finish, Release, WakeOne, Wake, Await, Yield,
       IoSuspendOnce, IoRead, IoWrite, Park, Suspending, Nested, Spawn,
       SubmitNew, SubmitPush, schedVars, flags
  <2>2. ASSUME NEW j \in Contexts, Ended(j)' PROVE Ended(j) \/ stop_token[j]
    BY <1>1, <1>3, <2>2 DEF Worker, WorkerLoop, PopBatch, ResumeNext,
       AfterResume, PollPrepare, UringSubmit, Reap, PollReturn, CanStop,
       WaitCheck, WaitBlock, Complete, Body, Finish, Release, WakeOne, Wake,
       Await, Yield, IoSuspendOnce, IoRead, IoWrite, Park, Suspending, Nested,
       Spawn, SubmitNew, SubmitPush, GotoW, Notified, Ended
  <2> QED BY <1>2, <2>1, <2>2
<1>4. ASSUME NEW u \in Threads, Starts(u) \/ Continue(u) PROVE StartedInv'
  <2>1. CASE InitScheduler(u)
    BY <2>1 DEF InitScheduler, StartedInv, Ended
  <2>2. CASE RequestStop(u)
    <3>1. ~initialized_ /\ UNCHANGED initialized_
      BY <2>2 DEF RequestStop, ShutInv, Ending, flags
    <3>2. stop_token' \in [Contexts -> BOOLEAN]
      BY <1>1, <2>2 DEF RequestStop
    <3> QED BY <3>1, <3>2 DEF StartedInv
  <2>3. CASE ~InitScheduler(u) /\ ~RequestStop(u)
    <3>1. UNCHANGED stop_token /\ (initialized_' => initialized_)
      BY <1>1, <1>4, <2>3 DEF Starts, Continue, Submit, SubmitNew, SubmitPush,
         InlineEnd, RunsInlined, inlineOnly, Loop, Stop, LoopCheck, LoopBlock,
         StopNotify, Shutdown, NotifyStop, Join, Return, threadOnly, engineVars,
         flags
    <3>2. \A k \in Contexts : Ended(k)' => Ended(k)
      BY <1>1, <1>4, <2>3 DEF Starts, Continue, Submit, SubmitNew, SubmitPush,
         InlineEnd, RunsInlined, inlineOnly, Loop, Stop, LoopCheck, LoopBlock,
         StopNotify, Shutdown, NotifyStop, Join, Return, threadOnly, engineVars,
         GotoW, Notified, Ended
    <3> QED BY <1>2, <3>1, <3>2
  <2> QED BY <2>1, <2>2, <2>3
<1>5. CASE Surroundings \/ UNCHANGED coreVars
  <2>1. UNCHANGED <<stop_token, initialized_>>
    BY <1>5 DEF Surroundings, SpuriousWake, KernelComplete, LoopSpurious,
       coreVars, coreSched, schedVars, threadOnly, engineVars, flags
  <2>2. \A k \in Contexts : Ended(k)' => Ended(k)
    BY <1>1, <1>5 DEF Surroundings, SpuriousWake, KernelComplete, LoopSpurious,
       coreVars, coreSched, threadOnly, engineVars, GotoW, Ended
  <2> QED BY <1>2, <2>1, <2>2
<1> QED BY <1>3, <1>4, <1>5 DEF CoreNext

(* Nothing is lost: the queue of a worker that has ended is empty, and     *)
(* every submit finds its context.                                         *)
DrainInv ==
  /\ \A k \in Contexts : Ended(k) => task_queue_[k] = <<>>
  /\ \A x \in Executors : hand[x] # NoTask => target[x] \in contexts
  /\ \A t \in Tasks : frame[t] # "leaked"
  /\ "submit" \notin TaskCalls => \A k \in Contexts : hand[k] = NoTask

(* While a thread ends the contexts no thread has a handle, and no worker  *)
(* has one to push to a worker that has ended.                             *)
LEMMA NoLateSubmit ==
  ASSUME OneCaller, OwnSubmits, ShutInv, ReturnInv, HandInv, SubmitterInv,
         StartedInv, DrainInv, NEW x \in Executors, hand[x] # NoTask,
         NEW k \in Contexts, Ended(k), x \in Contexts => target[x] = k
  PROVE  k \notin contexts
<1>1. SUFFICES ASSUME k \in contexts PROVE FALSE
  OBVIOUS
<1>2. CASE x \in Threads
  <2>1. PICK u \in Threads : Ending(u)
    BY <1>1 DEF ShutInv, StartedInv
  <2>2. tpc[u] # "idle" /\ Calls[u] \cap {"loop", "stop"} # {}
    BY <2>1 DEF ReturnInv, Ending
  <2>3. "submit" \in Calls[x] /\ tpc[x] = "idle"
    BY <1>2 DEF SubmitterInv, HandInv
  <2> QED BY <1>2, <2>2, <2>3 DEF OneCaller
<1>3. CASE x \in Contexts
  <2>1. wpc[x] = "run"
    BY <1>3 DEF HandInv
  <2>2. N = 1
    BY <1>3 DEF DrainInv, OwnSubmits
  <2>3. x = k
    BY <1>3, <2>2, ContextsAssumption DEF Contexts
  <2> QED BY <2>1, <2>3 DEF Ended
<1> QED BY <1>2, <1>3 DEF Executors

(* A step of worker k other than a push moves its own queue, and ends the  *)
(* worker only when that is empty.                                         *)
LEMMA WorkerDrain ==
  ASSUME ShutInv, HandleInv, DrainInv, NEW k \in Contexts,
         \/ WorkerLoop(k) \/ Complete(k) \/ Body(k)
         \/ \E t \in Tasks : Spawn(k, t)
  PROVE  DrainInv'
<1>1. /\ wpc \in [Contexts -> WorkerPCs] /\ frame \in [Tasks -> Frames]
      /\ task_queue_ \in [Contexts -> Seq(Tasks)]
  BY DEF ShutInv, ShutTypes, HandleInv, HandleTypes, QueuesInv, Queues
<1>2. UNCHANGED <<contexts, hand, target>>
  BY DEF WorkerLoop, Complete, Body, Spawn, schedVars, submitVars
<1>3. ~Ended(k)
  BY DEF WorkerLoop, PopBatch, ResumeNext, AfterResume, PollPrepare,
     UringSubmit, Reap, PollReturn, CanStop, WaitCheck, WaitBlock, Complete,
     Body, Spawn, Running, Ended
<1>4. \A j \in Contexts \ {k} :
        wpc'[j] = wpc[j] /\ task_queue_'[j] = task_queue_[j]
  BY <1>1 DEF WorkerLoop, PopBatch, ResumeNext, AfterResume, PollPrepare,
     UringSubmit, Reap, PollReturn, CanStop, WaitCheck, WaitBlock, Complete,
     Body, Finish, Release, WakeOne, Wake, Await, Yield, IoSuspendOnce, IoRead,
     IoWrite, Park, Suspending, Spawn, GotoW, submit_task, queuesE
<1>5. ASSUME Ended(k)' PROVE task_queue_'[k] = <<>>
  <2>1. CanStop(k)
    BY <1>1, <1>3, <1>5 DEF WorkerLoop, PopBatch, ResumeNext,
       AfterResume, PollPrepare, UringSubmit, Reap, PollReturn, WaitCheck,
       WaitBlock, Complete, Body, Finish, Release, WakeOne, Wake, Await, Yield,
       IoSuspendOnce, IoRead, IoWrite, Park, Suspending, Spawn,
       Running, GotoW, Ended
  <2> QED BY <1>1, <1>5, <2>1 DEF CanStop, QueuesEmpty, GotoW, Ended, queuesE
<1>6. ASSUME NEW t \in Tasks PROVE frame'[t] # "leaked"
  <2>1. frame[t] # "leaked"
    BY DEF DrainInv
  <2> QED BY <1>1, <2>1 DEF WorkerLoop, PopBatch, ResumeNext, AfterResume,
          PollPrepare, UringSubmit, Reap, PollReturn, CanStop, WaitCheck,
          WaitBlock, Complete, Body, Finish, Release, WakeOne, Wake, Await,
          Yield, IoSuspendOnce, IoRead, IoWrite, Park, Suspending, Spawn, Drop,
          coro
<1>7. ASSUME NEW j \in Contexts, Ended(j)' PROVE task_queue_'[j] = <<>>
  BY <1>4, <1>5, <1>7 DEF DrainInv, Ended
<1> QED BY <1>2, <1>6, <1>7 DEF DrainInv

(* Every step keeps everything where it can be found. *)
LEMMA DrainStep ==
  ASSUME OneCaller, OwnSubmits, ShutInv, ReturnInv, HandleInv, GoneInv,
         HandInv, SubmitterInv, StartedInv, DrainInv, [CoreNext]_coreVars
  PROVE  DrainInv'
<1>1. /\ wpc \in [Contexts -> WorkerPCs] /\ frame \in [Tasks -> Frames]
      /\ task_queue_ \in [Contexts -> Seq(Tasks)]
      /\ hand \in [Executors -> Tasks \cup {NoTask}]
      /\ target \in [Executors -> 0..N] /\ next_ \in Contexts
      /\ contexts \subseteq Contexts
      /\ Threads \subseteq Executors /\ Contexts \subseteq Executors
      /\ Threads \cap Contexts = {}
  BY CallsAssumption DEF ShutInv, ShutTypes, HandleInv, HandleTypes, QueuesInv,
     Queues, GoneInv, Executors
<1>2. ASSUME NEW x \in Executors, SubmitPush(x) PROVE DrainInv'
  <2>1. target[x] \in contexts /\ hand[x] # NoTask
    BY <1>2 DEF SubmitPush, DrainInv
  <2>2. /\ task_queue_' = [task_queue_ EXCEPT ![target[x]] = Append(@, hand[x])]
        /\ hand' = [hand EXCEPT ![x] = NoTask]
        /\ target' = [target EXCEPT ![x] = 0]
        /\ UNCHANGED <<wpc, frame, contexts>>
    BY <1>2, <2>1 DEF SubmitPush, submit_task
  <2>3. ~Ended(target[x])
    BY <1>1, <2>1, OneCaller, OwnSubmits, NoLateSubmit
  <2>4. \A k \in Contexts : Ended(k)' => Ended(k)
    BY <2>2 DEF Ended
  <2>5. ASSUME NEW k \in Contexts, Ended(k)' PROVE task_queue_'[k] = <<>>
    BY <1>1, <2>2, <2>3, <2>4, <2>5 DEF DrainInv
  <2> QED BY <1>1, <2>2, <2>5 DEF DrainInv
<1>3. ASSUME NEW x \in Executors, NEW t \in Tasks, SubmitNew(x, t),
             x \in Contexts => "submit" \in TaskCalls
      PROVE  DrainInv'
  <2>1. UNCHANGED <<contexts, task_queue_, wpc>>
    BY <1>3 DEF SubmitNew, queuesE
  <2>2. \A k \in Contexts : Ended(k)' => task_queue_'[k] = <<>>
    BY <2>1 DEF DrainInv, Ended
  <2>3. CASE initialized_ /\ accepting_
    <3>1. /\ hand' = [hand EXCEPT ![x] = t]
          /\ target' = [target EXCEPT ![x] = next_]
          /\ frame' = [frame EXCEPT ![t] = "live"] /\ contexts = Contexts
      BY <1>3, <2>3 DEF SubmitNew, ShutInv
    <3> QED BY <1>1, <1>3, <2>1, <2>2, <3>1 DEF DrainInv
  <2>4. CASE ~(initialized_ /\ accepting_)
    <3>1. /\ UNCHANGED <<hand, target>>
          /\ frame' = [frame EXCEPT ![t] = "destroyed"]
      BY <1>3, <2>4 DEF SubmitNew, submitVars
    <3> QED BY <1>1, <2>1, <2>2, <3>1 DEF DrainInv
  <2> QED BY <2>3, <2>4
<1>4. ASSUME NEW k \in Contexts, Worker(k) PROVE DrainInv'
  <2>1. CASE SubmitPush(k)
    BY <1>1, <1>2, <2>1
  <2>2. CASE "submit" \in TaskCalls /\ \E t \in Tasks : SubmitNew(k, t)
    BY <1>1, <1>3, <2>2
  <2>3. CASE \/ WorkerLoop(k) \/ Complete(k) \/ Body(k)
             \/ \E t \in Tasks : Spawn(k, t)
    BY <2>3, WorkerDrain
  <2> QED BY <1>4, <2>1, <2>2, <2>3 DEF Worker, Nested
<1>5. ASSUME UNCHANGED <<contexts, hand, target, task_queue_, frame>>,
             \A k \in Contexts : Ended(k)' => Ended(k)
      PROVE  DrainInv'
  BY <1>5 DEF DrainInv
<1>6. ASSUME NEW u \in Threads, Starts(u) \/ Continue(u) PROVE DrainInv'
  <2>1. CASE SubmitPush(u)
    BY <1>1, <1>2, <2>1
  <2>2. CASE Submit(u)
    BY <1>1, <1>3, <2>2 DEF Submit
  <2>3. CASE InitScheduler(u)
    <3>1. /\ contexts = {} /\ contexts' = Contexts
          /\ wpc' = [k \in Contexts |-> "pop"]
          /\ UNCHANGED <<hand, target, frame>>
      BY <2>3 DEF InitScheduler, submitVars, coro
    <3> QED BY <1>1, <3>1 DEF DrainInv, Ended
  <2>4. CASE InlineEnd(u)
    <3>1. /\ UNCHANGED <<contexts, hand, target, task_queue_, wpc>>
          /\ \E p \in Tasks :
               frame' = [Drop(Owned(p), frame) EXCEPT ![p] = "final"]
      BY <2>4 DEF InlineEnd, RunsInlined, inlineOnly, submitVars, queuesE,
         HandleInv, HandleTypes
    <3>2. \A t \in Tasks : frame'[t] # "leaked"
      BY <1>1, <3>1 DEF DrainInv, Drop
    <3> QED BY <3>1, <3>2 DEF DrainInv, Ended
  <2>5. CASE Join(u) /\ todo[u] = {First(todo[u])}
    <3>1. /\ tpc[u] = "join" /\ DestroyContexts
          /\ wpc[First(todo[u])] = "exited" /\ UNCHANGED <<hand, wpc>>
      BY <2>5 DEF Join
    <3>2. \A k \in Contexts : Ended(k)
      BY <2>5, <3>1 DEF ShutInv, Ended
    <3>3. \A k \in Contexts : Range(task_queue_[k]) = {}
      BY <3>2, EmptyQueueLemma DEF DrainInv
    <3>4. UNCHANGED frame
      BY <1>1, <3>1, <3>3 DEF DestroyContexts
    <3>5. ASSUME NEW x \in Executors PROVE hand[x] = NoTask
      <4>1. contexts = Contexts
        BY <3>1 DEF ShutInv, Ending
      <4>2. hand[x] # NoTask => target[x] \in contexts
        BY DEF DrainInv
      <4> QED BY <1>1, <3>2, <4>1, <4>2, OneCaller, OwnSubmits, NoLateSubmit
    <3>6. contexts' = {} /\ \A k \in Contexts : task_queue_'[k] = <<>>
      BY <3>1 DEF DestroyContexts
    <3> QED BY <1>1, <3>1, <3>4, <3>5, <3>6 DEF DrainInv
  <2>6. CASE Join(u) /\ todo[u] # {First(todo[u])}
    BY <1>5, <2>6 DEF Join, Ended
  <2>7. CASE /\ ~SubmitPush(u) /\ ~Submit(u) /\ ~InitScheduler(u)
             /\ ~InlineEnd(u) /\ ~Join(u)
    <3>1. UNCHANGED <<contexts, hand, target, task_queue_, frame>>
      BY <1>6, <2>7 DEF Starts, Continue, Loop, Stop, LoopCheck, LoopBlock,
         StopNotify, Shutdown, RequestStop, NotifyStop, Return, threadOnly,
         submitVars, engineVars, queuesE, coro
    <3>2. \A k \in Contexts : Ended(k)' => Ended(k)
      BY <1>1, <1>6, <2>7 DEF Starts, Continue, Loop, Stop, LoopCheck,
         LoopBlock, StopNotify, Shutdown, RequestStop, NotifyStop, Return,
         threadOnly, engineVars, GotoW, Notified, Ended
    <3> QED BY <1>5, <3>1, <3>2
  <2> QED BY <2>1, <2>2, <2>3, <2>4, <2>5, <2>6, <2>7
<1>7. CASE Surroundings \/ UNCHANGED coreVars
  <2>1. UNCHANGED <<contexts, hand, target, task_queue_, frame>>
    BY <1>7 DEF Surroundings, SpuriousWake, KernelComplete, LoopSpurious,
       coreVars, coreSched, schedVars, submitVars, threadOnly, engineVars,
       queuesE, coro
  <2>2. \A k \in Contexts : Ended(k)' => Ended(k)
    BY <1>1, <1>7 DEF Surroundings, SpuriousWake, KernelComplete, LoopSpurious,
       coreVars, coreSched, threadOnly, engineVars, GotoW, Ended
  <2> QED BY <1>5, <2>1, <2>2
<1> QED BY <1>4, <1>6, <1>7 DEF CoreNext

(* Only tasks are accepted. *)
LEMMA AcceptedTasks ==
  ASSUME accepted \subseteq Tasks, [CoreNext]_coreVars PROVE accepted' \subseteq Tasks
<1>1. CASE UNCHANGED accepted
  BY <1>1
<1>2. ASSUME NEW x, NEW t \in Tasks, SubmitNew(x, t)
      PROVE  accepted' \subseteq Tasks
  BY <1>2 DEF SubmitNew
<1>3. ASSUME NEW k \in Contexts, Worker(k) PROVE accepted' \subseteq Tasks
  <2>1. CASE \E t \in Tasks : Spawn(k, t)
    BY <2>1 DEF Spawn
  <2> QED BY <1>1, <1>2, <1>3, <2>1 DEF Worker, WorkerLoop, Complete, Body,
          Nested, SubmitPush, schedVars
<1>4. ASSUME NEW u \in Threads, Starts(u) \/ Continue(u)
      PROVE  accepted' \subseteq Tasks
  <2>1. CASE InitScheduler(u)
    BY <2>1 DEF InitScheduler
  <2> QED BY <1>1, <1>2, <1>4, <2>1 DEF Starts, Continue, Submit, SubmitPush,
          InlineEnd, RunsInlined, inlineOnly, Loop, Stop, LoopCheck, LoopBlock,
          StopNotify, Shutdown, RequestStop, NotifyStop, Join, Return,
          threadOnly
<1>5. CASE Surroundings \/ UNCHANGED coreVars
  BY <1>1, <1>5 DEF Surroundings, coreSched, LoopSpurious, coreVars, schedVars,
     threadOnly
<1> QED BY <1>3, <1>4, <1>5 DEF CoreNext

(* DrainedAtReturn of every scheduler that one thread controls and submits *)
(* to, for tasks that keep to their own worker: when loop() or stop()      *)
(* returns, what it accepted has run to its end or is parked outside.  A   *)
(* second thread may push a handle when the workers have ended, and so may *)
(* a task that submits to another worker.                                  *)
THEOREM SchedulerDrained ==
  ASSUME OwnHandles, OneCaller, OwnSubmits PROVE Spec => []DrainedAtReturn
<1> DEFINE Inv == /\ ReturnInv /\ GoneInv /\ HandInv /\ SubmitterInv
                  /\ StartedInv /\ DrainInv /\ accepted \subseteq Tasks
<1>1. OneController
  BY OneCaller DEF OneCaller, OneController
<1>2. Init => Inv
  <2> SUFFICES ASSUME Init PROVE Inv
    OBVIOUS
  <2>1. GoneInv
    BY InitPending
  <2>2. ReturnInv /\ HandInv /\ SubmitterInv /\ StartedInv
        /\ accepted \subseteq Tasks
    BY DEF Init, EngineInit, ReturnInv, HandInv, SubmitterInv, StartedInv,
       Executors
  <2>3. DrainInv
    BY DEF Init, EngineInit, DrainInv, Executors
  <2> QED BY <2>1, <2>2, <2>3
<1>3. ShutInv /\ HandleInv /\ InflightInv /\ Inv /\ [CoreNext]_coreVars => Inv'
  BY <1>1, OneCaller, OwnSubmits, ReturnStep, GoneStep, HandStep,
     SubmitterStep, StartedStep, DrainStep, AcceptedTasks
<1>4. ShutInv /\ HandleInv /\ InflightInv /\ ChainInv /\ Inv
        => DrainedAtReturn
  <2> SUFFICES ASSUME ShutInv, HandleInv, InflightInv, ChainInv, Inv,
                      NEW u \in Threads, tpc[u] = "return", NEW t \in accepted
               PROVE  frame[t] \notin {"live", "leaked"} \/ t \in parked
    BY DEF DrainedAtReturn
  <2>1. contexts = {} /\ t \in Tasks /\ frame[t] # "leaked"
    BY DEF ReturnInv, DrainInv
  <2>2. \A x \in Executors : hand[x] = NoTask
    BY <2>1 DEF DrainInv
  <2>3. \A v \in Threads : hand[v] # t
    BY <2>1, <2>2, NoTaskAssumption DEF Executors
  <2> QED BY <2>1, <2>3, LeftOver
<1> HIDE DEF Inv
<1> QED BY <1>1, <1>2, <1>3, <1>4, OwnHandles, ShutHolds, HandleHolds,
           InflightHolds, ChainHolds, CoreAlways, PTL DEF Spec
----------------------------------------------------------------------------
(* What a loop() that ends by itself leaves behind *)

(* No submit has the handle, and no worker that has ended has it in its    *)
(* queue: nobody can lose it.                                              *)
Safe(t) ==
  /\ \A x \in Executors : hand[x] # t
  /\ \A k \in Contexts : Ended(k) => t \notin Range(task_queue_[k])

(* What a step may do to the frames: begin one, enter one, lose what is    *)
(* not safe, destroy what a frame has owned, end one that runs or is       *)
(* parked, destroy one that has ended and that no frame owns.              *)
Begins(t) ==
  /\ frame[t] = "none" /\ UNCHANGED caller_
  /\ \/ frame' = [frame EXCEPT ![t] = "live"]
     \/ frame' = [frame EXCEPT ![t] = "destroyed"]
LosesSome ==
  /\ UNCHANGED caller_
  /\ \A t \in Tasks : frame'[t] = frame[t] \/ (frame'[t] = "leaked" /\ ~Safe(t))
DropsOwned(S) ==
  \A t \in Tasks :
    /\ frame'[t] = IF t \in S THEN "destroyed" ELSE frame[t]
    /\ caller_'[t] = IF t \in S THEN NoTask ELSE caller_[t]
Ends(h, S) ==
  /\ frame[h] = "live" /\ h \notin S /\ frame'[h] = "final"
  /\ \A t \in Tasks :
       /\ t # h => frame'[t] = IF t \in S THEN "destroyed" ELSE frame[t]
       /\ caller_'[t] = IF t \in S THEN NoTask ELSE caller_[t]
DestroysCur(k) ==
  /\ wpc[k] = "resumed" /\ frame[cur[k]] = "final" /\ UNCHANGED caller_
  /\ frame' = [frame EXCEPT ![cur[k]] = "destroyed"]

FrameStep ==
  \/ UNCHANGED <<frame, caller_>>
  \/ \E t \in Tasks : Begins(t)
  \/ \E k \in Contexts, t \in Tasks : Await(k, t)
  \/ LosesSome
  \/ \E h \in Tasks, S \in SUBSET Tasks : S \subseteq Owned(h) /\ DropsOwned(S)
  \/ \E k \in Contexts : Finish(k) /\ Ends(active[k], Owned(active[k]))
  \/ \E h \in parked : Ends(h, Owned(h))
  \/ \E k \in Contexts : DestroysCur(k)

(* Every step is one of these. *)
LEMMA FrameSteps ==
  ASSUME ShutInv, HandleInv, OwnInv, [CoreNext]_coreVars PROVE FrameStep
<1>1. /\ frame \in [Tasks -> Frames] /\ wpc \in [Contexts -> WorkerPCs]
      /\ hand \in [Executors -> Tasks \cup {NoTask}]
      /\ caller_ \in [Tasks -> Tasks \cup {NoTask}]
      /\ parked \subseteq Tasks
  BY DEF HandleInv, HandleTypes
<1>2. ASSUME NEW x \in Executors, NEW t \in Tasks, SubmitNew(x, t)
      PROVE  Begins(t)
  BY <1>2 DEF SubmitNew, Begins
<1>3. ASSUME NEW x \in Executors, SubmitPush(x) PROVE FrameStep
  <2>1. /\ UNCHANGED caller_
        /\ UNCHANGED frame \/ frame' = [frame EXCEPT ![hand[x]] = "leaked"]
    BY <1>3 DEF SubmitPush
  <2>2. LosesSome
    BY <1>1, <2>1 DEF LosesSome, Safe
  <2> QED BY <2>2 DEF FrameStep
<1>4. ASSUME NEW h \in Tasks, NEW S, S \subseteq Owned(h)
      PROVE  /\ S \in SUBSET Tasks /\ \A t \in S : frame[t] = "final"
             /\ \A t \in Tasks :
                  /\ Drop(S, frame)[t] = IF t \in S THEN "destroyed"
                                                    ELSE frame[t]
                  /\ Disowned(S)[t] = IF t \in S THEN NoTask ELSE caller_[t]
  BY <1>4, OwnedLemma
<1>5. ASSUME NEW k \in Contexts, Worker(k) PROVE FrameStep
  <2>1. CASE AfterResume(k)
    <3>1. cur[k] \in Tasks /\ wpc[k] = "resumed" /\ UNCHANGED caller_
      BY <2>1 DEF AfterResume, OwnInv, CurOk, Busy
    <3>2. frame[cur[k]] # "destroyed"
      <4>1. frame[cur[k]] = "final" \/ Kept(k)
        BY <3>1 DEF OwnInv, CurOk
      <4>2. Kept(k) => frame[cur[k]] = "live"
        BY <3>1, KeptQueued, QueuedTop DEF HandleInv, OwnInv
      <4> QED BY <4>1, <4>2
    <3>3. \/ UNCHANGED frame
          \/ /\ frame[cur[k]] = "final"
             /\ frame' = [frame EXCEPT ![cur[k]] = "destroyed"]
      BY <2>1, <3>2 DEF AfterResume
    <3> QED BY <3>1, <3>3 DEF FrameStep, DestroysCur
  <2>2. CASE Finish(k)
    <3>1. PICK h : h = active[k] /\ h \in Tasks /\ frame[h] = "live"
      <4>1. active[k] \in Tasks /\ RunsOn(active[k], k)
        BY <2>2 DEF Finish, Running, RunsOn, HandleInv, WorkInv
      <4> QED BY <4>1, EnteredOnce
    <3> DEFINE S == Owned(h)
    <3>2. /\ frame' = [Drop(S, frame) EXCEPT ![h] =
                         IF @ = "destroyed" THEN "destroyed" ELSE "final"]
          /\ caller_' = Disowned(S)
      BY <2>2, <3>1 DEF Finish
    <3>3. Drop(S, frame) = [t \in Tasks |-> Drop(S, frame)[t]]
      BY DEF Drop
    <3>4. S \subseteq Owned(h)
      OBVIOUS
    <3> HIDE DEF S
    <3>5. h \notin S /\ Drop(S, frame)[h] = "live"
      BY <1>4, <3>1, <3>4
    <3>6. Ends(h, S)
      BY <1>4, <3>1, <3>2, <3>3, <3>4, <3>5 DEF Ends
    <3> QED BY <2>2, <3>1, <3>6 DEF FrameStep, S
  <2>3. CASE Release(k)
    <3>1. PICK r \in Owned(active[k]) :
            frame' = Drop({r}, frame) /\ caller_' = Disowned({r})
      BY <2>3 DEF Release
    <3>2. active[k] \in Tasks
      BY <2>3 DEF Release, Running, HandleInv, WorkInv
    <3>3. {r} \subseteq Owned(active[k])
      OBVIOUS
    <3>4. {r} \in SUBSET Tasks /\ DropsOwned({r})
      BY <1>4, <3>1, <3>2, <3>3 DEF DropsOwned
    <3> QED BY <3>2, <3>3, <3>4 DEF FrameStep
  <2>4. CASE \E t \in Tasks : Await(k, t)
    BY <2>4 DEF FrameStep
  <2>5. CASE \E t \in Tasks : Spawn(k, t) \/ SubmitNew(k, t)
    <3>1. PICK t \in Tasks : Spawn(k, t) \/ SubmitNew(k, t)
      BY <2>5
    <3>2. Begins(t)
      BY <1>2, <3>1 DEF Spawn, Begins, Executors
    <3> QED BY <3>2 DEF FrameStep
  <2>6. CASE SubmitPush(k)
    BY <1>3, <2>6 DEF Executors
  <2> QED BY <1>5, <2>1, <2>2, <2>3, <2>4, <2>5, <2>6 DEF Worker, WorkerLoop,
          PopBatch, ResumeNext, PollPrepare, UringSubmit, Reap, PollReturn,
          CanStop, WaitCheck, WaitBlock, Complete, Body, WakeOne, Wake, Yield,
          IoSuspendOnce, IoRead, IoWrite, Park, Suspending, Nested, FrameStep,
          coro
<1>6. ASSUME NEW u \in Threads, Starts(u) \/ Continue(u) PROVE FrameStep
  <2>1. CASE Submit(u)
    <3>1. \E t \in Tasks : Begins(t)
      BY <1>2, <2>1 DEF Submit, Executors
    <3> QED BY <3>1 DEF FrameStep
  <2>2. CASE SubmitPush(u)
    BY <1>3, <2>2 DEF Executors
  <2>3. CASE InlineEnd(u)
    <3>1. PICK p \in parked :
            /\ frame' = [Drop(Owned(p), frame) EXCEPT ![p] = "final"]
            /\ caller_' = Disowned(Owned(p))
      BY <2>3 DEF InlineEnd, RunsInlined, inlineOnly
    <3>2. p \in Tasks /\ frame[p] = "live"
      <4>1. p \in Tasks /\ At(p, "parked", p) /\ "parked" \in Kinds
            /\ p \in Spots
        BY <1>1, SpotsLemma DEF At, Kinds
      <4> QED BY <4>1, Elsewhere
    <3> DEFINE S == Owned(p)
    <3>3. Drop(S, frame) = [t \in Tasks |-> Drop(S, frame)[t]]
      BY DEF Drop
    <3>4. /\ S \subseteq Owned(p) /\ caller_' = Disowned(S)
          /\ frame' = [Drop(S, frame) EXCEPT ![p] = "final"]
      BY <3>1
    <3> HIDE DEF S
    <3>5. p \notin S
      BY <1>4, <3>2, <3>4
    <3>6. Ends(p, S)
      BY <1>4, <3>2, <3>3, <3>4, <3>5 DEF Ends
    <3> QED BY <3>6 DEF FrameStep, S
  <2>4. CASE Join(u) /\ todo[u] = {First(todo[u])}
    <3>1. /\ tpc[u] = "join" /\ DestroyContexts /\ UNCHANGED caller_
          /\ wpc[First(todo[u])] = "exited"
      BY <2>4 DEF Join
    <3>2. \A k \in Contexts : Ended(k)
      BY <2>4, <3>1 DEF ShutInv, Ended
    <3>3. LosesSome
      BY <3>1, <3>2 DEF DestroyContexts, LosesSome, Safe
    <3> QED BY <3>3 DEF FrameStep
  <2> QED BY <1>6, <2>1, <2>2, <2>3, <2>4 DEF Starts, Continue, InitScheduler,
          Loop, Stop, LoopCheck, LoopBlock, StopNotify, Shutdown, RequestStop,
          NotifyStop, Join, Return, FrameStep, threadOnly, engineVars, coro
<1>7. CASE Surroundings \/ UNCHANGED coreVars
  BY <1>7 DEF Surroundings, SpuriousWake, KernelComplete, LoopSpurious,
     coreVars, coreSched, FrameStep, threadOnly, engineVars, coro
<1> QED BY <1>5, <1>6, <1>7 DEF CoreNext

(* A live frame that is safe stays so: what is pushed to the queue of a    *)
(* worker that has ended was in a hand, and a hand takes a new frame.      *)
LEMMA SafeStep ==
  ASSUME ShutInv, HandleInv, [CoreNext]_coreVars, NEW p \in Tasks, frame[p] = "live",
         Safe(p)
  PROVE  Safe(p)'
<1>1. /\ wpc \in [Contexts -> WorkerPCs]
      /\ task_queue_ \in [Contexts -> Seq(Tasks)]
      /\ hand \in [Executors -> Tasks \cup {NoTask}]
      /\ Contexts \subseteq Executors /\ contexts \subseteq Contexts
      /\ Threads \subseteq Executors /\ p # NoTask
  BY NoTaskAssumption DEF ShutInv, HandleInv, HandleTypes, QueuesInv, Queues,
     Executors
<1>2. Range(<<>>) = {}
  BY EmptyQueueLemma
<1>3. ASSUME UNCHANGED <<hand, task_queue_>>,
             \A k \in Contexts : Ended(k)' => Ended(k)
      PROVE  Safe(p)'
  BY <1>3 DEF Safe
<1>4. ASSUME NEW x \in Executors, NEW t \in Tasks, SubmitNew(x, t)
      PROVE  Safe(p)'
  <2>1. /\ UNCHANGED <<task_queue_, wpc>> /\ p # t
        /\ UNCHANGED hand \/ hand' = [hand EXCEPT ![x] = t]
    BY <1>4 DEF SubmitNew, queuesE, submitVars
  <2> QED BY <1>1, <2>1 DEF Safe, Ended
<1>5. ASSUME NEW x \in Executors, SubmitPush(x) PROVE Safe(p)'
  <2>1. hand' = [hand EXCEPT ![x] = NoTask] /\ hand[x] # NoTask
    BY <1>5 DEF SubmitPush
  <2>2. \A y \in Executors : hand'[y] # p
    BY <1>1, <2>1 DEF Safe
  <2>3. CASE UNCHANGED <<task_queue_, wpc>>
    BY <2>2, <2>3 DEF Safe, Ended
  <2>4. CASE /\ target[x] \in contexts
             /\ task_queue_' = [task_queue_ EXCEPT ![target[x]] =
                                  Append(@, hand[x])]
             /\ UNCHANGED wpc
    <3>1. ASSUME NEW k \in Contexts, Ended(k)'
          PROVE  p \notin Range(task_queue_'[k])
      <4>1. Ended(k) /\ p \notin Range(task_queue_[k]) /\ p # hand[x]
        BY <1>1, <2>4, <3>1 DEF Safe, Ended
      <4>2. CASE k # target[x]
        BY <1>1, <2>4, <4>1, <4>2
      <4>3. CASE k = target[x]
        <5>1. task_queue_'[k] = Append(task_queue_[k], hand[x])
              /\ task_queue_[k] \in Seq(Tasks) /\ hand[x] \in Tasks
          BY <1>1, <2>1, <2>4, <4>3
        <5>2. Range(Append(task_queue_[k], hand[x])) =
                Range(task_queue_[k]) \cup {hand[x]}
          BY <5>1, PushLemma
        <5> QED BY <4>1, <5>1, <5>2
      <4> QED BY <4>2, <4>3
    <3> QED BY <2>2, <3>1 DEF Safe
  <2> QED BY <1>5, <2>3, <2>4 DEF SubmitPush, submit_task
<1>6. ASSUME NEW k \in Contexts,
             \/ WorkerLoop(k) \/ Complete(k) \/ Body(k)
             \/ \E t \in Tasks : Spawn(k, t)
      PROVE  Safe(p)'
  <2>1. UNCHANGED hand
    BY <1>6 DEF WorkerLoop, Complete, Body, Spawn, schedVars, submitVars
  <2>2. \A j \in Contexts \ {k} :
          wpc'[j] = wpc[j] /\ task_queue_'[j] = task_queue_[j]
    BY <1>1, <1>6 DEF WorkerLoop, PopBatch, ResumeNext, AfterResume,
       PollPrepare, UringSubmit, Reap, PollReturn, CanStop, WaitCheck,
       WaitBlock, Complete, Body, Finish, Release, WakeOne, Wake, Await, Yield,
       IoSuspendOnce, IoRead, IoWrite, Park, Suspending, Spawn, GotoW,
       submit_task, queuesE
  <2>3. Ended(k)' => task_queue_'[k] = <<>>
    <3> SUFFICES ASSUME Ended(k)' PROVE task_queue_'[k] = <<>>
      OBVIOUS
    <3>1. CanStop(k)
      BY <1>1, <1>6 DEF WorkerLoop, PopBatch, ResumeNext, AfterResume,
         PollPrepare, UringSubmit, Reap, PollReturn, WaitCheck, WaitBlock,
         Complete, Body, Finish, Release, WakeOne, Wake, Await, Yield,
         IoSuspendOnce, IoRead, IoWrite, Park, Suspending, Spawn, Running,
         GotoW, Ended
    <3> QED BY <1>1, <3>1 DEF CanStop, QueuesEmpty, GotoW, Ended, queuesE
  <2> QED BY <1>2, <2>1, <2>2, <2>3 DEF Safe, Ended
<1>7. ASSUME NEW k \in Contexts, Worker(k) PROVE Safe(p)'
  BY <1>1, <1>4, <1>5, <1>6, <1>7 DEF Worker, Nested
<1>8. ASSUME NEW u \in Threads, Starts(u) \/ Continue(u) PROVE Safe(p)'
  <2>1. CASE Submit(u) \/ SubmitPush(u)
    BY <1>1, <1>4, <1>5, <2>1 DEF Submit
  <2>2. CASE Join(u) /\ todo[u] = {First(todo[u])}
    <3>1. UNCHANGED hand /\ \A k \in Contexts : task_queue_'[k] = <<>>
      BY <2>2 DEF Join, DestroyContexts
    <3> QED BY <1>2, <3>1 DEF Safe
  <2>3. CASE InitScheduler(u)
    <3>1. UNCHANGED hand /\ \A k \in Contexts : ~Ended(k)'
      BY <2>3 DEF InitScheduler, submitVars, Ended
    <3> QED BY <3>1 DEF Safe
  <2>4. CASE /\ ~Submit(u) /\ ~SubmitPush(u) /\ ~InitScheduler(u)
             /\ ~(Join(u) /\ todo[u] = {First(todo[u])})
    <3>1. UNCHANGED <<hand, task_queue_>>
      BY <1>8, <2>4 DEF Starts, Continue, InlineEnd, RunsInlined, inlineOnly,
         Loop, Stop, LoopCheck, LoopBlock, StopNotify, Shutdown, RequestStop,
         NotifyStop, Join, Return, threadOnly, submitVars, engineVars, queuesE
    <3>2. \A k \in Contexts : Ended(k)' => Ended(k)
      BY <1>1, <1>8, <2>4 DEF Starts, Continue, InlineEnd, RunsInlined,
         inlineOnly, Loop, Stop, LoopCheck, LoopBlock, StopNotify, Shutdown,
         RequestStop, NotifyStop, Join, Return, threadOnly, engineVars, GotoW,
         Notified, Ended
    <3> QED BY <1>3, <3>1, <3>2
  <2> QED BY <2>1, <2>2, <2>3, <2>4
<1>9. CASE Surroundings \/ UNCHANGED coreVars
  <2>1. UNCHANGED <<hand, task_queue_>>
    BY <1>9 DEF Surroundings, SpuriousWake, KernelComplete, LoopSpurious,
       coreVars, coreSched, schedVars, submitVars, threadOnly, engineVars,
       queuesE
  <2>2. \A k \in Contexts : Ended(k)' => Ended(k)
    BY <1>1, <1>9 DEF Surroundings, SpuriousWake, KernelComplete, LoopSpurious,
       coreVars, coreSched, threadOnly, engineVars, GotoW, Ended
  <2> QED BY <1>3, <2>1, <2>2
<1> QED BY <1>7, <1>8, <1>9 DEF CoreNext

(* What cannot be safe is queued. *)
LEMMA UnsafeQueued ==
  ASSUME NEW t \in Tasks, ~Safe(t) PROVE Queued(t)
<1>1. /\ Executors \subseteq Spots /\ Contexts \subseteq Spots
      /\ "hand" \in Outside /\ "task" \in Outside
  BY SpotsLemma DEF Spots, Executors, Outside, Kinds
<1>2. \/ \E x \in Executors : At(t, "hand", x)
      \/ \E k \in Contexts : At(t, "task", k)
  BY DEF Safe, At
<1> QED BY <1>1, <1>2 DEF Queued

(* A frame that has awaited another stays until that one is destroyed.     *)
FamilyInv ==
  \A c \in Tasks : caller_[c] # NoTask =>
    /\ frame[c] \in {"live", "final"}
    /\ frame[caller_[c]] = "live" /\ Safe(caller_[c])

(* Every step keeps that. *)
LEMMA FamilyStep ==
  ASSUME ShutInv, HandleInv, OwnInv, FamilyInv, [CoreNext]_coreVars
  PROVE  FamilyInv'
<1> SUFFICES ASSUME NEW c \in Tasks, caller_'[c] # NoTask
             PROVE  /\ frame'[c] \in {"live", "final"}
                    /\ frame'[caller_'[c]] = "live" /\ Safe(caller_[c])'
  BY DEF FamilyInv
<1>1. /\ frame \in [Tasks -> Frames]
      /\ caller_ \in [Tasks -> Tasks \cup {NoTask}]
      /\ active \in [Contexts -> Tasks \cup {NoTask}]
      /\ parked \subseteq Tasks
      /\ frame[c] = "none" => caller_[c] = NoTask
  BY DEF HandleInv, HandleTypes, CallerInv
<1>2. FrameStep
  BY FrameSteps
<1> DEFINE Parent(q) == /\ q \in Tasks /\ frame[q] = "live" /\ Safe(q)
                        /\ frame'[q] = "live" /\ q = caller_'[c]
                        /\ frame'[c] \in {"live", "final"}
<1>3. SUFFICES \E q : Parent(q)
  <2>1. ASSUME NEW q, Parent(q) PROVE Safe(q)'
    BY <2>1, SafeStep
  <2>2. PICK q : Parent(q)
    BY <1>3
  <2> QED BY <2>1, <2>2 DEF Safe
<1>4. caller_[c] # NoTask =>
        /\ frame[c] \in {"live", "final"} /\ caller_[c] \in Tasks
        /\ frame[caller_[c]] = "live" /\ Safe(caller_[c])
  BY <1>1 DEF FamilyInv
<1>5. CASE UNCHANGED <<frame, caller_>>
  BY <1>4, <1>5
<1>6. CASE \E t \in Tasks : Begins(t)
  <2>1. PICK t \in Tasks : Begins(t)
    BY <1>6
  <2>2. caller_'[c] = caller_[c] /\ frame[t] = "none"
    BY <2>1 DEF Begins
  <2>3. \A s \in Tasks \ {t} : frame'[s] = frame[s]
    BY <1>1, <2>1 DEF Begins
  <2>4. c # t /\ caller_[c] # t
    BY <1>4, <2>2
  <2> QED BY <1>4, <2>2, <2>3, <2>4
<1>7. CASE \E k \in Contexts, t \in Tasks : Await(k, t)
  <2>1. PICK k \in Contexts, t \in Tasks : Await(k, t)
    BY <1>7
  <2>2. /\ frame[t] = "none" /\ frame' = [frame EXCEPT ![t] = "live"]
        /\ caller_' = [caller_ EXCEPT ![t] = active[k]] /\ wpc[k] = "run"
    BY <2>1 DEF Await, Running
  <2>3. \A s \in Tasks \ {t} : frame'[s] = frame[s]
    BY <1>1, <2>2
  <2>4. CASE c = t
    <3>1. active[k] \in Tasks /\ RunsOn(active[k], k)
      BY <2>2 DEF RunsOn, HandleInv, WorkInv
    <3>2. frame[active[k]] = "live" /\ ~Queued(active[k])
      BY <3>1, EnteredOnce
    <3>3. Safe(active[k]) /\ active[k] # t
      BY <2>2, <3>1, <3>2, UnsafeQueued
    <3> QED BY <1>1, <2>2, <2>3, <2>4, <3>1, <3>2, <3>3
  <2>5. CASE c # t
    <3>1. caller_'[c] = caller_[c] /\ caller_[c] # t
      BY <1>1, <1>4, <2>2, <2>5
    <3> QED BY <1>4, <2>3, <2>5, <3>1
  <2> QED BY <2>4, <2>5
<1>8. CASE LosesSome
  <2>1. caller_'[c] = caller_[c]
    BY <1>8 DEF LosesSome
  <2>2. Safe(c)
    BY <2>1, UnsafeQueued, QueuedTop DEF OwnInv
  <2> QED BY <1>4, <1>8, <2>1, <2>2 DEF LosesSome
<1>9. CASE \E h \in Tasks, S \in SUBSET Tasks :
             S \subseteq Owned(h) /\ DropsOwned(S)
  <2>1. PICK h \in Tasks, S \in SUBSET Tasks :
          S \subseteq Owned(h) /\ DropsOwned(S)
    BY <1>9
  <2>2. \A t \in S : frame[t] = "final"
    BY <2>1, OwnedLemma
  <2>3. c \notin S /\ caller_'[c] = caller_[c]
    BY <2>1 DEF DropsOwned
  <2>4. caller_[c] \in Tasks /\ caller_[c] \notin S
    BY <1>4, <2>2, <2>3
  <2> QED BY <1>4, <2>1, <2>3, <2>4 DEF DropsOwned
<1>10. ASSUME NEW h \in Tasks, Ends(h, Owned(h)),
              \A t \in Tasks : ~AwaitsIn(h, t)
       PROVE  \E q : Parent(q)
  <2>1. \A t \in Owned(h) : frame[t] = "final"
    BY OwnedLemma
  <2>2. c \notin Owned(h) /\ caller_'[c] = caller_[c]
    BY <1>10 DEF Ends
  <2>3. caller_[c] \in Tasks /\ caller_[c] \notin Owned(h)
    BY <1>4, <2>1, <2>2
  <2>4. caller_[c] # h
    BY <1>4, <1>10, <2>2 DEF Owned, AwaitsIn
  <2> QED BY <1>4, <1>10, <2>2, <2>3, <2>4 DEF Ends
<1>11. CASE \E k \in Contexts : Finish(k) /\ Ends(active[k], Owned(active[k]))
  <2>1. PICK k \in Contexts : Finish(k) /\ Ends(active[k], Owned(active[k]))
    BY <1>11
  <2>2. active[k] \in Tasks /\ RunsOn(active[k], k)
    BY <2>1 DEF Finish, Running, RunsOn, HandleInv, WorkInv
  <2>3. \A t \in Tasks : ~AwaitsIn(active[k], t)
    BY <2>2, EnteredOnce
  <2> QED BY <1>10, <2>1, <2>2, <2>3
<1>12. CASE \E h \in parked : Ends(h, Owned(h))
  <2>1. PICK h \in parked : Ends(h, Owned(h))
    BY <1>12
  <2>2. h \in Tasks /\ Queued(h)
    <3>1. h \in Tasks
      BY <1>1
    <3>2. At(h, "parked", h) /\ "parked" \in Outside /\ h \in Spots
      BY <3>1, SpotsLemma DEF At, Outside, Kinds
    <3> QED BY <3>1, <3>2 DEF Queued
  <2>3. \A t \in Tasks : ~AwaitsIn(h, t)
    BY <2>2, EnteredOnce
  <2> QED BY <1>10, <2>1, <2>2, <2>3
<1>13. CASE \E k \in Contexts : DestroysCur(k)
  <2>1. PICK k \in Contexts : DestroysCur(k)
    BY <1>13
  <2>2. caller_[cur[k]] = NoTask /\ cur[k] \in Tasks
    BY <2>1 DEF DestroysCur, OwnInv, CurOk, Busy
  <2>3. caller_'[c] = caller_[c] /\ frame[cur[k]] = "final"
    BY <2>1 DEF DestroysCur
  <2>4. \A s \in Tasks \ {cur[k]} : frame'[s] = frame[s]
    BY <1>1, <2>1 DEF DestroysCur
  <2>5. c # cur[k] /\ caller_[c] # cur[k]
    BY <1>4, <2>2, <2>3
  <2> QED BY <1>4, <2>3, <2>4, <2>5
<1> QED BY <1>2, <1>5, <1>6, <1>7, <1>8, <1>9, <1>11, <1>12, <1>13
        DEF FrameStep

(* A frame that has ended was live before; it ends while it runs or is     *)
(* parked, and keeps its caller.                                           *)
LEMMA FinalFrame ==
  ASSUME ShutInv, HandleInv, OwnInv, [CoreNext]_coreVars, NEW t \in Tasks,
         frame'[t] = "final"
  PROVE  /\ caller_'[t] = caller_[t]
         /\ \/ frame[t] = "final"
            \/ /\ frame[t] = "live"
               /\ \/ t \in parked
                  \/ \E k \in Contexts : Finish(k) /\ t = active[k]
<1>1. frame \in [Tasks -> Frames] /\ caller_ \in [Tasks -> Tasks \cup {NoTask}]
  BY DEF HandleInv, HandleTypes
<1>2. FrameStep
  BY FrameSteps
<1>3. CASE UNCHANGED <<frame, caller_>>
  BY <1>3
<1>4. CASE \E s \in Tasks : Begins(s)
  BY <1>1, <1>4 DEF Begins
<1>5. CASE \E k \in Contexts, s \in Tasks : Await(k, s)
  BY <1>1, <1>5 DEF Await
<1>6. CASE LosesSome
  BY <1>6 DEF LosesSome
<1>7. CASE \E h \in Tasks, S \in SUBSET Tasks :
             S \subseteq Owned(h) /\ DropsOwned(S)
  BY <1>7 DEF DropsOwned
<1>8. ASSUME NEW h, NEW S, Ends(h, S)
      PROVE  caller_'[t] = caller_[t] /\ (frame[t] = "final" \/ t = h)
  BY <1>8 DEF Ends
<1>9. CASE \E k \in Contexts : Finish(k) /\ Ends(active[k], Owned(active[k]))
  BY <1>8, <1>9 DEF Ends
<1>10. CASE \E h \in parked : Ends(h, Owned(h))
  BY <1>8, <1>10 DEF Ends
<1>11. CASE \E k \in Contexts : DestroysCur(k)
  BY <1>1, <1>11 DEF DestroysCur
<1> QED BY <1>2, <1>3, <1>4, <1>5, <1>6, <1>7, <1>9, <1>10, <1>11 DEF FrameStep

(* Without parks a task that has ended is about to be seen by its worker.  *)
FinalInv ==
  "park" \notin TaskCalls =>
    \A t \in Tasks : frame[t] = "final" /\ caller_[t] = NoTask =>
      \E k \in Contexts : wpc[k] = "resumed" /\ cur[k] = t

(* Every step keeps that. *)
LEMMA FinalStep ==
  ASSUME ShutInv, HandleInv, OwnHandles, OwnInv, FinalInv, [CoreNext]_coreVars
  PROVE  FinalInv'
<1> SUFFICES ASSUME "park" \notin TaskCalls, NEW t \in Tasks,
                    frame'[t] = "final", caller_'[t] = NoTask
             PROVE  \E k \in Contexts : wpc'[k] = "resumed" /\ cur'[k] = t
  BY DEF FinalInv
<1>1. /\ wpc \in [Contexts -> WorkerPCs]
      /\ cur \in [Contexts -> Tasks \cup {NoTask}] /\ parked = {}
      /\ frame \in [Tasks -> Frames]
  BY DEF HandleInv, HandleTypes, OwnInv
<1>2. caller_[t] = NoTask
  BY FinalFrame
<1>3. CASE \E k \in Contexts : Finish(k) /\ t = active[k]
  <2>1. PICK k \in Contexts : Finish(k) /\ t = active[k]
    BY <1>3
  <2>2. wpc[k] = "run" /\ wpc' = [wpc EXCEPT ![k] = "resumed"] /\ UNCHANGED cur
    BY <1>2, <2>1 DEF Finish, Running, GotoW
  <2>3. cur[k] = t
    BY <1>2, <2>1, <2>2, BottomCur
  <2> QED BY <1>1, <2>2, <2>3
<1>4. CASE frame[t] = "final"
  <2>1. PICK j \in Contexts : wpc[j] = "resumed" /\ cur[j] = t
    BY <1>2, <1>4 DEF FinalInv
  <2>2. ASSUME NEW a, OwnAct(a), a # j
        PROVE  wpc'[j] = "resumed" /\ cur'[j] = t
    BY <2>1, <2>2 DEF OwnAct, Untouched, Busy
  <2>3. ~(Acts(j) /\ OwnAct(j))
    <3> SUFFICES ASSUME Acts(j) PROVE FALSE
      OBVIOUS
    <3>1. AfterResume(j)
      BY <2>1 DEF Acts, ResumeNext, Finish, Await, Suspending, Running
    <3>2. frame' = [frame EXCEPT ![t] = "destroyed"]
      BY <1>4, <2>1, <3>1 DEF AfterResume
    <3> QED BY <1>1, <3>2
  <2>4. \E a : OwnAct(a) /\ a # j
    BY <2>3, NextOwn, NotContext DEF OwnActs
  <2> QED BY <2>2, <2>4
<1> QED BY <1>1, <1>3, <1>4, FinalFrame

(* Without contexts no frame begins. *)
LEMMA NoneBegins ==
  ASSUME ShutInv, HandleInv, [CoreNext]_coreVars, contexts = {}, NEW t \in Tasks,
         frame'[t] = "live"
  PROVE  frame[t] = "live"
<1>1. /\ frame \in [Tasks -> Frames] /\ ~initialized_
      /\ \A k \in Contexts : Ended(k)
  BY SomeContext DEF HandleInv, HandleTypes, ShutInv
<1>2. ASSUME NEW x, SubmitPush(x) PROVE frame[t] = "live"
  BY <1>1, <1>2 DEF SubmitPush
<1>3. ASSUME NEW k \in Contexts, Worker(k) PROVE frame[t] = "live"
  BY <1>1, <1>2, <1>3, EndedRests
<1>4. ASSUME NEW u \in Threads, Starts(u) \/ Continue(u) PROVE frame[t] = "live"
  <2>1. CASE Submit(u)
    BY <1>1, <2>1 DEF Submit, SubmitNew
  <2>2. CASE InlineEnd(u)
    <3>1. frame'[t] \in {frame[t], "destroyed", "final"}
      BY <1>1, <2>2 DEF InlineEnd, RunsInlined, inlineOnly, Drop
    <3> QED BY <3>1
  <2>3. CASE Join(u)
    BY <2>3, SomeContext DEF Join, ShutInv, Ending
  <2> QED BY <1>2, <1>4, <2>1, <2>2, <2>3 DEF Starts, Continue, InitScheduler,
          Loop, Stop, LoopCheck, LoopBlock, StopNotify, Shutdown, RequestStop,
          NotifyStop, Return, threadOnly, engineVars, coro
<1>5. CASE Surroundings \/ UNCHANGED coreVars
  BY <1>5 DEF Surroundings, SpuriousWake, KernelComplete, LoopSpurious,
     coreVars, coreSched, threadOnly, engineVars, coro
<1> QED BY <1>3, <1>4, <1>5 DEF CoreNext

(* Where init() builds contexts only once, no frame is forgotten: those    *)
(* without a caller have been accepted.                                    *)
TopsInv ==
  MaxInits \in {0, 1} =>
    /\ \A t \in Tasks : frame[t] \in {"live", "final"} /\ caller_[t] = NoTask
                          => t \in accepted
    /\ inits = 0 => \A t \in Tasks : frame[t] \notin {"live", "final"}

(* Every step keeps that. *)
LEMMA TopsStep ==
  ASSUME ShutInv, HandleInv, OwnHandles, OwnInv, AcceptedInv, GoneInv, TopsInv,
         [CoreNext]_coreVars
  PROVE  TopsInv'
<1> SUFFICES ASSUME MaxInits \in {0, 1}
             PROVE  /\ \A t \in Tasks : frame'[t] \in {"live", "final"}
                                        /\ caller_'[t] = NoTask
                          => t \in accepted'
                    /\ inits' = 0 =>
                         \A t \in Tasks : frame'[t] \notin {"live", "final"}
  BY DEF TopsInv
<1>1. CASE \E u \in Threads : InitScheduler(u)
  <2>1. /\ inits < MaxInits /\ inits' = inits + 1 /\ UNCHANGED <<frame, caller_>>
    BY <1>1 DEF InitScheduler, coro
  <2>2. inits = 0 /\ inits' # 0
    BY <2>1 DEF GoneInv
  <2> QED BY <2>1, <2>2 DEF TopsInv
<1>2. CASE \A u \in Threads : ~InitScheduler(u)
  <2>1. Admits
    BY <1>2, AdmitStep
  <2>2. PICK a : FramesMove(a)
    BY NextOwn DEF OwnActs, OwnAct
  <2>3. ASSUME NEW t \in Tasks, frame'[t] \in {"live", "final"},
               caller_'[t] = NoTask
        PROVE  t \in accepted'
    <3>1. CASE frame[t] \in {"live", "final"} /\ caller_[t] = NoTask
      BY <2>1, <3>1 DEF TopsInv, Admits
    <3>2. CASE frame'[t] = "live"
      BY <2>1, <2>2, <2>3, <3>1, <3>2 DEF Admits, FramesMove
    <3>3. CASE frame'[t] = "final"
      BY <2>3, <3>1, <3>3, FinalFrame
    <3> QED BY <2>3, <3>2, <3>3
  <2>4. ASSUME inits' = 0, NEW t \in Tasks
        PROVE  frame'[t] \notin {"live", "final"}
    <3>1. UNCHANGED inits
      BY <1>2 DEF CoreNext, Worker, WorkerLoop, Complete, Body, Nested, Spawn,
         SubmitNew, SubmitPush, Starts, Continue, Submit, InlineEnd,
         RunsInlined, inlineOnly, Loop, Stop, LoopCheck, LoopBlock, StopNotify,
         Shutdown, RequestStop, NotifyStop, Join, Return, Surroundings,
         coreSched, LoopSpurious, threadOnly, schedVars, coreVars
    <3>2. frame[t] \notin {"live", "final"} /\ contexts = {}
      BY <2>4, <3>1 DEF TopsInv, GoneInv
    <3> QED BY <3>2, FinalFrame, NoneBegins
  <2> QED BY <2>3, <2>4
<1> QED BY <1>1, <1>2

(* When the count is zero no accepted task is there, and nobody reports    *)
(* one; so no worker runs one either.                                      *)
LEMMA CountZero ==
  ASSUME HandleInv, OwnInv, AcceptedInv, PendingExact, pending_tasks_ = 0
  PROVE  /\ Open = {} /\ Reporting = {}
         /\ \A k \in Contexts : wpc[k] \notin {"run", "complete"}
<1>1. PICK m, n \in Nat : m = Cardinality(Open) /\ n = Cardinality(Reporting)
  BY OpenFinite
<1>2. m + n = 0
  BY <1>1 DEF PendingExact, Open, Reporting
<1>3. m = 0 /\ n = 0
  BY ONLY <1>2
<1>4. Open = {} /\ Reporting = {}
  BY <1>1, <1>3, OpenFinite, FS_EmptySet
<1>5. ASSUME NEW k \in Contexts, wpc[k] = "run" PROVE FALSE
  <2>1. PICK W \in SUBSET Tasks : Stack(k, W)
    BY <1>5 DEF OwnInv, CurOk
  <2>2. cur[k] \in accepted /\ frame[cur[k]] = "live"
    BY <1>5, <2>1 DEF AcceptedInv, Busy, Stack
  <2> QED BY <1>4, <2>2 DEF Open
<1> QED BY <1>4, <1>5 DEF Reporting

(* A loop() that nobody has stopped is past its wait. *)
Leaving(u) ==
  /\ tpc[u] \in {"shutdown", "request", "notify", "join", "return"}
  /\ call[u] = "loop" /\ ~stop_requested_

(* From there on nothing is accepted, and the count stays zero.            *)
QuietInv ==
  /\ tpc \in [Threads -> ThreadPCs]
  /\ call \in [Threads -> CallNames \cup {"none"}]
  /\ \A u \in Threads : tpc[u] = "stopNotify" => call[u] = "stop"
  /\ \A u \in Threads : Leaving(u) => pending_tasks_ = 0 /\ ~accepting_

(* Workers keep that: none has a task left that could submit another. *)
LEMMA WorkerQuiet ==
  ASSUME ShutInv, HandleInv, OwnInv, AcceptedInv, PendingExact, QuietInv,
         NEW k \in Contexts, Worker(k)
  PROVE  QuietInv'
<1>1. /\ tpc \in [Threads -> ThreadPCs] /\ UNCHANGED <<call, flags>>
      /\ call \in [Threads -> CallNames \cup {"none"}]
  BY DEF QuietInv, Worker, WorkerLoop, Complete, Body, Nested, Spawn, SubmitNew,
     SubmitPush, schedVars, threadVars
<1>2. tpc' = tpc \/ tpc' = CompletionNotified
  BY DEF Worker, WorkerLoop, Complete, Body, Nested, Spawn, SubmitNew,
     SubmitPush, schedVars, threadVars
<1>3. /\ tpc' \in [Threads -> ThreadPCs]
      /\ \A u \in Threads : tpc'[u] = tpc[u] \/ tpc'[u] = "loopCheck"
  BY <1>1, <1>2, CompletionQuiet DEF ShutInv
<1>4. \A u \in Threads : tpc'[u] = "stopNotify" => call'[u] = "stop"
  BY <1>1, <1>3 DEF QuietInv
<1>5. ASSUME NEW u \in Threads, Leaving(u)'
      PROVE  pending_tasks_' = 0 /\ ~accepting_'
  <2>1. Leaving(u)
    BY <1>1, <1>3, <1>5 DEF Leaving, flags
  <2>2. pending_tasks_ = 0 /\ ~accepting_ /\ UNCHANGED accepting_
    BY <1>1, <2>1 DEF QuietInv, flags
  <2>3. wpc[k] \notin {"run", "complete"}
    BY <2>2, CountZero
  <2>4. UNCHANGED pending_tasks_
    BY <2>2, <2>3 DEF Worker, WorkerLoop, Complete, Body, Nested, Spawn,
       SubmitNew, SubmitPush, Running, schedVars
  <2> QED BY <2>2, <2>4
<1> QED BY <1>1, <1>3, <1>4, <1>5 DEF QuietInv

(* So do the threads: with one controller nobody initializes meanwhile. *)
LEMMA ThreadQuiet ==
  ASSUME OneController, ReturnInv, QuietInv, NEW v \in Threads,
         Starts(v) \/ Continue(v) \/ LoopSpurious(v)
  PROVE  QuietInv'
<1>1. /\ tpc \in [Threads -> ThreadPCs]
      /\ call \in [Threads -> CallNames \cup {"none"}]
  BY DEF QuietInv
<1>2. ASSUME UNCHANGED <<tpc, call, flags, pending_tasks_>> PROVE QuietInv'
  BY <1>2 DEF QuietInv, Leaving, flags
<1>3. CASE Submit(v)
  <2>1. /\ UNCHANGED <<tpc, call, flags>>
        /\ ~accepting_ => UNCHANGED pending_tasks_
    BY <1>3 DEF Submit, SubmitNew, threadVars
  <2> QED BY <2>1 DEF QuietInv, Leaving, flags
<1>4. CASE SubmitPush(v) \/ InlineEnd(v)
  BY <1>2, <1>4 DEF SubmitPush, InlineEnd, RunsInlined, inlineOnly, threadVars
<1>5. CASE InitScheduler(v)
  <2>1. tpc[v] = "idle" /\ "init" \in Calls[v] /\ UNCHANGED <<tpc, call>>
    BY <1>5 DEF InitScheduler, Enter, threadVars
  <2>2. \A u \in Threads : tpc[u] = "idle"
    BY <2>1 DEF ReturnInv, OneController
  <2> QED BY <1>1, <2>1, <2>2 DEF QuietInv, Leaving
<1>6. CASE Loop(v)
  <2>1. /\ tpc' = [tpc EXCEPT ![v] = "loopCheck"]
        /\ call' = [call EXCEPT ![v] = "loop"]
        /\ UNCHANGED <<flags, pending_tasks_>>
    BY <1>6 DEF Loop, Waits, GotoT, threadOnly
  <2> QED BY <1>1, <2>1 DEF QuietInv, Leaving, flags, ThreadPCs, CallNames
<1>7. CASE Stop(v)
  <2>1. /\ tpc' = [tpc EXCEPT ![v] = "stopNotify"]
        /\ call' = [call EXCEPT ![v] = "stop"] /\ stop_requested_'
    BY <1>7 DEF Stop, Waits, GotoT
  <2> QED BY <1>1, <2>1 DEF QuietInv, Leaving, ThreadPCs, CallNames
<1>8. CASE LoopCheck(v)
  <2>1. CASE /\ stop_requested_ \/ pending_tasks_ = 0
             /\ accepting_' = FALSE /\ tpc' = [tpc EXCEPT ![v] = "shutdown"]
    <3>1. UNCHANGED <<call, stop_requested_, pending_tasks_>>
      BY <1>8 DEF LoopCheck, threadOnly
    <3> QED BY <1>1, <2>1, <3>1 DEF QuietInv, Leaving, ThreadPCs
  <2>2. CASE tpc' = [tpc EXCEPT ![v] = "loopBlock"] /\ UNCHANGED accepting_
    <3>1. UNCHANGED <<call, stop_requested_, pending_tasks_>>
      BY <1>8 DEF LoopCheck, threadOnly
    <3> QED BY <1>1, <2>2, <3>1 DEF QuietInv, Leaving, ThreadPCs
  <2> QED BY <1>8, <2>1, <2>2 DEF LoopCheck, GotoT
<1>9. CASE LoopBlock(v) \/ LoopSpurious(v)
  <2>1. /\ \E p \in {"loopBlocked", "loopCheck"} : tpc' = [tpc EXCEPT ![v] = p]
        /\ UNCHANGED <<call, flags, pending_tasks_>>
    BY <1>9 DEF LoopBlock, LoopSpurious, GotoT, threadOnly
  <2> QED BY <1>1, <2>1 DEF QuietInv, Leaving, flags, ThreadPCs
<1>10. CASE StopNotify(v)
  <2>1. /\ tpc' = [CompletionNotified EXCEPT ![v] = "shutdown"]
        /\ call[v] = "stop" /\ UNCHANGED <<call, flags, pending_tasks_>>
    BY <1>10 DEF StopNotify, QuietInv, threadOnly
  <2>2. CompletionNotified \in [Threads -> ThreadPCs]
        /\ \A u \in Threads : CompletionNotified[u] \in {tpc[u], "loopCheck"}
    BY <1>1 DEF CompletionNotified, ThreadPCs
  <2>3. /\ tpc' \in [Threads -> ThreadPCs] /\ tpc'[v] = "shutdown"
        /\ \A u \in Threads \ {v} : tpc'[u] \in {tpc[u], "loopCheck"}
    BY <2>1, <2>2 DEF ThreadPCs
  <2> QED BY <1>1, <2>1, <2>3 DEF QuietInv, Leaving, flags
<1>11. CASE Shutdown(v) \/ RequestStop(v) \/ NotifyStop(v) \/ Join(v)
  <2>1. /\ tpc[v] \in {"shutdown", "request", "notify", "join"}
        /\ \E p \in {"request", "notify", "join", "return"} :
             tpc' = [tpc EXCEPT ![v] = p]
        /\ UNCHANGED <<call, accepting_, stop_requested_, pending_tasks_>>
    BY <1>1, <1>11 DEF Shutdown, RequestStop, NotifyStop, Join, GotoT,
       threadOnly, flags
  <2> QED BY <1>1, <2>1 DEF QuietInv, Leaving, ThreadPCs
<1>12. CASE Return(v)
  <2>1. /\ tpc' = [tpc EXCEPT ![v] = "idle"]
        /\ call' = [call EXCEPT ![v] = "none"]
        /\ UNCHANGED <<flags, pending_tasks_>>
    BY <1>12 DEF Return, GotoT, threadOnly
  <2> QED BY <1>1, <2>1 DEF QuietInv, Leaving, flags, ThreadPCs
<1> QED BY <1>3, <1>4, <1>5, <1>6, <1>7, <1>8, <1>9, <1>10, <1>11, <1>12
        DEF Starts, Continue

(* Every step keeps it. *)
LEMMA QuietStep ==
  ASSUME OneController, ShutInv, HandleInv, OwnInv, AcceptedInv, PendingExact,
         ReturnInv, QuietInv, [CoreNext]_coreVars
  PROVE  QuietInv'
<1>1. CASE UNCHANGED coreSched
  <2>1. UNCHANGED <<tpc, call, flags, pending_tasks_>>
    BY <1>1 DEF coreSched, threadVars
  <2> QED BY <2>1 DEF QuietInv, Leaving, flags
<1> QED BY <1>1, WorkerQuiet, ThreadQuiet DEF CoreNext, Surroundings, coreVars

(* Nothing is parked when init() builds the contexts once more. *)
NoOldParks == MaxInits \in {0, 1} \/ "park" \notin TaskCalls

(* Where nothing is forgotten, a zero count leaves no frame in a scheduler *)
(* without contexts, except in the hand of a submit that comes too late.   *)
LEMMA NothingLeft ==
  ASSUME NoOldParks, ShutInv, HandleInv, InflightInv, OwnInv, AcceptedInv,
         GoneInv, PendingExact, ChainInv, HandInv, FamilyInv, FinalInv, TopsInv,
         contexts = {}, pending_tasks_ = 0,
         NEW t \in Tasks, frame[t] \in {"live", "final"}
  PROVE  \E x \in Executors : hand[x] = t
<1>1. Open = {} /\ \A k \in Contexts : Ended(k)
  BY CountZero DEF ShutInv
<1>2. ASSUME NEW p \in Tasks, frame[p] \in {"live", "final"},
             caller_[p] = NoTask, MaxInits \in {0, 1}
      PROVE  FALSE
  BY <1>1, <1>2 DEF TopsInv, Open
<1>3. ASSUME NEW p \in Tasks, frame[p] = "live"
      PROVE  \E x \in Executors : hand[x] = p
  <2>1. p \notin parked
    <3>1. CASE MaxInits \in {0, 1}
      <4>1. p \in parked => Queued(p)
        <5>1. "parked" \in Outside /\ p \in Spots
          BY SpotsLemma DEF Outside, Kinds
        <5> QED BY <5>1 DEF Queued, At
      <4>2. p \in parked => caller_[p] = NoTask
        BY <4>1, QueuedTop DEF OwnInv
      <4> QED BY <1>2, <1>3, <3>1, <4>2
    <3>2. CASE "park" \notin TaskCalls
      BY <3>2 DEF OwnInv
    <3> QED BY <3>1, <3>2 DEF NoOldParks
  <2> QED BY <1>3, <2>1, LeftOver DEF Executors
<1>4. CASE frame[t] = "final" /\ caller_[t] # NoTask
  <2>1. caller_[t] \in Tasks
    BY <1>4 DEF HandleInv, HandleTypes
  <2>2. frame[caller_[t]] = "live" /\ Safe(caller_[t])
    BY <1>4 DEF FamilyInv
  <2> QED BY <1>3, <2>1, <2>2 DEF Safe
<1>5. CASE frame[t] = "final" /\ caller_[t] = NoTask
  <2>1. CASE MaxInits \in {0, 1}
    BY <1>2, <1>5, <2>1
  <2>2. CASE "park" \notin TaskCalls
    BY <1>1, <1>5, <2>2 DEF FinalInv, Ended
  <2> QED BY <2>1, <2>2 DEF NoOldParks
<1> QED BY <1>3, <1>4, <1>5

(* LoopCompletesAll of every scheduler with one controlling thread, for    *)
(* such tasks: a loop() that nobody stops returns when every task that was *)
(* accepted has run to its end and been destroyed, together with every     *)
(* frame it awaited.                                                       *)
THEOREM SchedulerCompletes ==
  ASSUME OwnHandles, NoOldParks, OneController
  PROVE  Spec => []LoopCompletesAll
<1> DEFINE Known == /\ ShutInv /\ HandleInv /\ InflightInv /\ OwnInv /\ ChainInv
                    /\ AcceptedInv /\ GoneInv /\ PendingExact
           Inv == /\ ReturnInv /\ HandInv /\ FamilyInv /\ FinalInv /\ TopsInv
                  /\ QuietInv
<1>1. NoLateWake
  BY NoOldParks DEF NoOldParks, NoLateWake
<1>2. Spec => []Known
  BY <1>1, OwnHandles, ShutHolds, HandleHolds, InflightHolds, OwnHolds,
     ChainHolds, PendingHolds, PTL
<1>3. Init => Inv
  <2> SUFFICES ASSUME Init PROVE Inv
    OBVIOUS
  <2>1. ReturnInv /\ HandInv /\ QuietInv
    BY DEF Init, ReturnInv, HandInv, QuietInv, Leaving, ThreadPCs, Executors
  <2>2. FamilyInv /\ FinalInv /\ TopsInv
    BY DEF Init, EngineInit, FamilyInv, FinalInv, TopsInv
  <2> QED BY <2>1, <2>2
<1>4. Known /\ Inv /\ [CoreNext]_coreVars => Inv'
  BY OwnHandles, OneController, ReturnStep, HandStep, FamilyStep, FinalStep,
     TopsStep, QuietStep
<1>5. Known /\ Inv => LoopCompletesAll
  <2> SUFFICES ASSUME Known, Inv, NEW u \in Threads, tpc[u] = "return",
                      call[u] = "loop", ~stop_requested_
               PROVE  /\ \A t \in accepted : frame[t] = "destroyed"
                      /\ \A t \in Tasks : frame[t] \notin {"live", "final"}
                           \/ \E x \in Executors : hand[x] = t
    BY DEF LoopCompletesAll
  <2>1. contexts = {} /\ pending_tasks_ = 0
    BY DEF ReturnInv, QuietInv, Leaving
  <2>2. Open = {}
    BY <2>1, CountZero
  <2> QED BY <2>1, <2>2, NoOldParks, NothingLeft DEF Open
<1> HIDE DEF Known, Inv
<1> QED BY <1>2, <1>3, <1>4, <1>5, CoreAlways, PTL DEF Spec
=============================================================================
