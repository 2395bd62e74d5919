------------------------- MODULE ConditionVariable -------------------------
(***************************************************************************)
(* tiny_coroutine::ConditionVariable (include/condition_variable.h) with   *)
(* the AsyncMutex whose guard its wait() is given.                         *)
(*                                                                         *)
(* Awaiter::await_suspend first publishes the handle in wait_queue_ and    *)
(* then calls guard_->unlock().  From the push on, another thread may      *)
(* resume the coroutine while the first one is still in that unlock(), so  *)
(* the rest of await_suspend has control points of its own, its tail:      *)
(* unlock the mutex, reschedule the waiter it popped, clear owns_lock_.    *)
(* Only the holder of the mutex waits and only one coroutine is given it,  *)
(* so a coroutine has at most one tail before the last store; threads with *)
(* just that store to do are counted.  The guards of a coroutine share one *)
(* slot of its frame (the local of a loop), so a late store hits the next. *)
(*                                                                         *)
(* Notifies come from coroutines and from threads outside the runtime,     *)
(* where reschedule_or_resume resumes inline: a coroutine runs beside      *)
(* whatever the workers do.  Only with a single worker and no such thread  *)
(* (alone) does whoever is in a call finish it before another coroutine    *)
(* runs; otherwise every interleaving is allowed.                          *)
(***************************************************************************)
EXTENDS AsyncMutex

CONSTANTS
  Outsiders,  \* threads outside the runtime that notify
  Alone,      \* the values alone may start with
  MaxClears   \* bound: c waits with fewer late stores than MaxClears[c]
ASSUME OutsidersAssumption == Outsiders \cap Coros = {}
ASSUME AloneAssumption == Alone \subseteq BOOLEAN
ASSUME MaxClearsAssumption == MaxClears \in [Coros -> Nat]

VARIABLES
  cv_queue,   \* ConditionVariable::wait_queue_
  unlocks,    \* coroutines whose await_suspend has yet to unlock the mutex
  tail_wake,  \* handle popped by the AsyncMutex::unlock() of c's wait
  clears,     \* number of threads with only owns_lock_ = false of c left
  notified,   \* handles a notify popped and has not yet rescheduled
  ready,      \* the condition op() tests; set once
  mustNotify, \* coroutines that have set it and not notified since
  alone       \* init(1), and no thread outside the runtime notifies

tailVars == <<unlocks, tail_wake, clears>>
cvVars == <<cv_queue, tailVars, notified, ready, mustNotify, alone>>
vars == <<mutexVars, cvVars>>

Notifiers == Coros \cup Outsiders

Init ==
  /\ MutexInit
  /\ cv_queue = <<>>
  /\ unlocks = {}
  /\ tail_wake = [c \in Coros |-> None]
  /\ clears = [c \in Coros |-> 0]
  /\ notified = [n \in Notifiers |-> <<>>]
  /\ ready = FALSE /\ mustNotify = {}
  /\ alone \in Alone

(* A thread is in the rest of an await_suspend of c. *)
InTail(c) == c \in unlocks \/ tail_wake[c] # None \/ clears[c] > 0

(* c is inside a call that has not returned. *)
InCall(c) ==
  wake[c] # None \/ notified[c] # <<>> \/ pc[c] \in {"destroying", "unlocking"}

(* c's own code may take a step: it is not in the middle of a notify, and  *)
(* a worker that is alone is not busy elsewhere.                           *)
Turn(c) ==
  /\ notified[c] = <<>>
  /\ alone => /\ \A d \in Coros : ~InTail(d)
              /\ \A d \in Coros \ {c} : ~InCall(d)
----------------------------------------------------------------------------
(* wait *)

Published(c) ==
  /\ cv_queue' = Append(cv_queue, c)
  /\ unlocks' = unlocks \cup {c}
  /\ Goto(c, "cvParked")
  /\ UNCHANGED <<lock_, wait_queue_, owns_lock_, wake, tail_wake, clears,
                 notified, ready, mustNotify, alone>>

(* Mutant of CvWait: it waits on a test of op() made before it had the     *)
(* mutex.                                                                  *)
CvWaitStaleTest(c) ==
  Turn(c) /\ pc[c] = "locked" /\ clears[c] < MaxClears[c] /\ Published(c)

(* op() is false: Awaiter::await_suspend publishes the handle. *)
CvWait(c) ==
  /\ Turn(c) /\ pc[c] = "locked" /\ ~ready /\ clears[c] < MaxClears[c]
  /\ Published(c)

(* One more thread has nothing but owns_lock_ = false left to do. *)
ClearLater(c) == clears' = [clears EXCEPT ![c] = @ + 1]

(* guard_->unlock(): if (owns_lock_) async_mutex_->unlock() ... *)
TailUnlock(c) ==
  /\ c \in unlocks
  /\ unlocks' = unlocks \ {c}
  /\ \/ /\ owns_lock_[c]
        /\ \E h \in Coros \cup {None} :
             /\ HandOver(h) /\ tail_wake' = [tail_wake EXCEPT ![c] = h]
             /\ IF h = None THEN ClearLater(c) ELSE UNCHANGED clears
     \/ ~owns_lock_[c] /\ UNCHANGED <<lock_, wait_queue_, tail_wake, clears>>
  /\ UNCHANGED <<owns_lock_, pc, wake, cv_queue, notified, ready, mustNotify,
                 alone>>

TailReschedule(c) ==
  /\ tail_wake[c] # None
  /\ pc' = [pc EXCEPT ![tail_wake[c]] = "granted"]
  /\ tail_wake' = [tail_wake EXCEPT ![c] = None]
  /\ ClearLater(c)
  /\ UNCHANGED <<lock_, wait_queue_, owns_lock_, wake, cv_queue, unlocks,
                 notified, ready, mustNotify, alone>>

(* ... owns_lock_ = false, in a guard that may be in use again, or gone. *)
TailClear(c) ==
  /\ clears[c] > 0
  /\ owns_lock_' = [owns_lock_ EXCEPT ![c] = FALSE]
  /\ clears' = [clears EXCEPT ![c] = @ - 1]
  /\ UNCHANGED <<lock_, wait_queue_, pc, wake, cv_queue, unlocks, tail_wake,
                 notified, ready, mustNotify, alone>>

(* The coroutine is resumed: co_await guard.relock(), then op() again. *)
CvRelock(c) ==
  /\ Turn(c) /\ pc[c] = "cvResumed" /\ Take(c)
  /\ UNCHANGED cvVars
----------------------------------------------------------------------------
(* notify_one, notify_all, and the change of the condition *)

(* The thread that is to notify runs user code. *)
Awake(n) ==
  \/ n \in Outsiders /\ ~alone /\ notified[n] = <<>>
  \/ n \in Coros /\ Turn(n) /\ pc[n] \in {"idle", "locked", "released"}

(* The owner makes the condition true; it will notify_all, before or after *)
(* it lets go of the mutex, and before it locks again.                     *)
SetReady(c) ==
  /\ Turn(c) /\ pc[c] = "locked" /\ ~ready
  /\ ready' = TRUE /\ mustNotify' = mustNotify \cup {c}
  /\ UNCHANGED <<mutexVars, cv_queue, tailVars, notified, alone>>

(* Mutant of NotifyOne: the waiter is read off the queue, never popped. *)
NotifyOneKeeps(n) ==
  /\ Awake(n) /\ cv_queue # <<>>
  /\ notified' = [notified EXCEPT ![n] = <<Head(cv_queue)>>]
  /\ UNCHANGED <<mutexVars, cv_queue, tailVars, ready, mustNotify, alone>>

NotifyOne(n) ==
  /\ Awake(n) /\ cv_queue # <<>>
  /\ notified' = [notified EXCEPT ![n] = <<Head(cv_queue)>>]
  /\ cv_queue' = Tail(cv_queue)
  /\ UNCHANGED <<mutexVars, tailVars, ready, mustNotify, alone>>

(* Mutant of NotifyAll: only the first waiter is kept to be resumed. *)
NotifyAllFirst(n) ==
  /\ Awake(n) /\ (cv_queue # <<>> \/ n \in mustNotify)
  /\ notified' = [notified EXCEPT ![n] =
                    IF cv_queue = <<>> THEN <<>> ELSE <<Head(cv_queue)>>]
  /\ cv_queue' = <<>>
  /\ mustNotify' = mustNotify \ {n}
  /\ UNCHANGED <<mutexVars, tailVars, ready, alone>>

NotifyAll(n) ==
  /\ Awake(n) /\ (cv_queue # <<>> \/ n \in mustNotify)
  /\ notified' = [notified EXCEPT ![n] = cv_queue]
  /\ cv_queue' = <<>>
  /\ mustNotify' = mustNotify \ {n}
  /\ UNCHANGED <<mutexVars, tailVars, ready, alone>>

(* A popped waiter goes to reschedule_or_resume: queued on the notifier's  *)
(* worker, or run inline by a thread outside the runtime.                  *)
CvReschedule(n) ==
  /\ notified[n] # <<>>
  /\ Goto(Head(notified[n]), "cvResumed")
  /\ notified' = [notified EXCEPT ![n] = Tail(@)]
  /\ UNCHANGED <<lock_, wait_queue_, owns_lock_, wake, cv_queue, tailVars,
                 ready, mustNotify, alone>>
----------------------------------------------------------------------------
MutexCall(c) ==
  /\ Turn(c)
  /\ \/ c \notin mustNotify /\ (Lock(c) \/ Relock(c))
     \/ Step(c)
  /\ UNCHANGED cvVars

MutexStep(c) == Turn(c) /\ Step(c) /\ UNCHANGED cvVars

TailStep(c) == TailUnlock(c) \/ TailReschedule(c) \/ TailClear(c)

Next ==
  \/ \E c \in Coros :
       MutexCall(c) \/ CvWait(c) \/ TailStep(c) \/ CvRelock(c) \/ SetReady(c)
  \/ \E n \in Notifiers : NotifyOne(n) \/ NotifyAll(n) \/ CvReschedule(n)

Spec == Init /\ [][Next]_vars

(* What c's own code goes on to do once it runs: finish its calls, let its *)
(* guard go out of scope, and notify if it has changed the condition.      *)
GoOn(c) == MutexStep(c) \/ CvRelock(c) \/ (c \in mustNotify /\ NotifyAll(c))

(* Threads run on; nobody is obliged to lock, wait or set. *)
ThreadFairness ==
  /\ \A c \in Coros : WF_vars(GoOn(c)) /\ WF_vars(TailStep(c))
  /\ \A n \in Notifiers : WF_vars(CvReschedule(n))
FairSpec == Spec /\ ThreadFairness

(* On a worker that is alone the steps that need their Turn alternate with *)
(* those of other coroutines; its task_queue_ is first in, first out, so   *)
(* that each gets its turn.                                                *)
QueueFairness == \A c \in Coros : SF_vars(alone /\ GoOn(c))
CvFairSpec == FairSpec /\ QueueFairness
----------------------------------------------------------------------------
(* Properties *)

(* The mutex has been given to c, also by the unlock() inside a wait. *)
CvHolds(c) ==
  \/ Holds(c)
  \/ \E d \in Coros : tail_wake[d] = c
  \/ pc[c] = "cvParked" /\ c \in unlocks

(* At most one coroutine has been given the mutex, with waits and notifies *)
(* in between: wait() never lets go of a mutex it has handed over already. *)
CvMutualExclusion == \A c, d \in Coros : CvHolds(c) /\ CvHolds(d) => c = d

(* A waiter is suspended, and its handle is in the queue or with one       *)
(* notify that popped it, once: no notify resumes a coroutine twice, none  *)
(* is dropped between the queue and reschedule_or_resume.                  *)
NotifiedBy(c) == {n \in Notifiers : c \in Range(notified[n])}
CvWaiterOwnedOnce ==
  /\ IsInjective(cv_queue)
  /\ \A n \in Notifiers : IsInjective(notified[n])
  /\ \A c \in Coros :
       /\ (pc[c] = "cvParked") <=> (c \in Range(cv_queue) \/ NotifiedBy(c) # {})
       /\ c \in Range(cv_queue) => NotifiedBy(c) = {}
       /\ \A m, n \in NotifiedBy(c) : m = n

(* wait() returns with the mutex held by the guard until the guard is      *)
(* destroyed (GuardOwns of AsyncMutex, with waits in between).             *)
WaitReturnsOwning == GuardOwns

(* With a single worker and nobody outside the runtime who notifies, it    *)
(* does: await_suspend returns before anything else runs, so that          *)
(* owns_lock_ = false comes before the relock().                           *)
AloneReturnsOwning == alone => WaitReturnsOwning

(* Nobody sleeps through the notify that follows the condition becoming    *)
(* true: between the test of op() and the push no notify can slip in.      *)
NoLostWakeup ==
  \A c \in Coros : (pc[c] = "cvParked" /\ ready) ~> (pc[c] # "cvParked")

(* With a single worker and nobody outside the runtime who notifies,       *)
(* whoever waits for a condition that has come true gets the mutex back    *)
(* and returns.                                                            *)
AloneWaitReturns ==
  \A c \in Coros :
    (alone /\ pc[c] = "cvParked" /\ ready) ~> (pc[c] = "locked")
=============================================================================
