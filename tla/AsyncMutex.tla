----------------------------- MODULE AsyncMutex -----------------------------
(***************************************************************************)
(* tiny_coroutine::AsyncMutex and its LockGuard (include/async_mutex.h).   *)
(* unlock() never frees a mutex somebody waits for: it pops the first      *)
(* waiter under mtx_, leaves lock_ set, and hands the waiter's handle to   *)
(* reschedule_or_resume after the unlock of mtx_.  What is done under mtx_ *)
(* is one step; each coroutine has one guard.                              *)
(***************************************************************************)
EXTENDS Naturals, Sequences, FiniteSets, Functions

CONSTANTS Coros, None

ASSUME NoneAssumption == None \notin Coros

VARIABLES
  lock_, wait_queue_,  \* AsyncMutex
  owns_lock_,          \* LockGuard::owns_lock_ of each coroutine's guard
  pc,                  \* where each coroutine is
  wake                 \* handle popped by an unlock() and not yet rescheduled

mutexVars == <<lock_, wait_queue_, owns_lock_, pc, wake>>

MutexInit ==
  /\ lock_ = FALSE /\ wait_queue_ = <<>>
  /\ owns_lock_ = [c \in Coros |-> FALSE]
  /\ pc = [c \in Coros |-> "idle"]
  /\ wake = [c \in Coros |-> None]

Goto(c, p) == pc' = [pc EXCEPT ![c] = p]
----------------------------------------------------------------------------
(* Mutants of Take: the lock is taken without being marked; an empty       *)
(* handle is queued.                                                       *)
TakeQueuesEmpty(c) ==
  IF lock_
  THEN /\ wait_queue_' = Append(wait_queue_, None)
       /\ Goto(c, "parked")
       /\ UNCHANGED <<lock_, owns_lock_, wake>>
  ELSE /\ lock_' = TRUE
       /\ owns_lock_' = [owns_lock_ EXCEPT ![c] = TRUE]
       /\ Goto(c, "locked")
       /\ UNCHANGED <<wait_queue_, wake>>
TakeUnmarked(c) ==
  /\ ~lock_
  /\ owns_lock_' = [owns_lock_ EXCEPT ![c] = TRUE]
  /\ Goto(c, "locked")
  /\ UNCHANGED <<lock_, wait_queue_, wake>>

(* await_suspend of lock() and of relock(): take the free mutex and go on  *)
(* to await_resume, or queue up behind its owner.                          *)
Take(c) ==
  \/ /\ ~lock_
     /\ lock_' = TRUE
     /\ owns_lock_' = [owns_lock_ EXCEPT ![c] = TRUE]
     /\ Goto(c, "locked")
     /\ UNCHANGED <<wait_queue_, wake>>
  \/ /\ lock_
     /\ wait_queue_' = Append(wait_queue_, c)
     /\ Goto(c, "parked")
     /\ UNCHANGED <<lock_, owns_lock_, wake>>

(* co_await lock() *)
Lock(c) == pc[c] = "idle" /\ Take(c)

(* co_await guard.relock() after guard.unlock() *)
Relock(c) == pc[c] = "released" /\ Take(c)

(* Mutant of Granted: await_resume does not set owns_lock_. *)
GrantedSilent(c) ==
  /\ pc[c] = "granted"
  /\ Goto(c, "locked")
  /\ UNCHANGED <<lock_, wait_queue_, owns_lock_, wake>>

(* await_resume of a coroutine that unlock() chose. *)
Granted(c) ==
  /\ pc[c] = "granted"
  /\ owns_lock_' = [owns_lock_ EXCEPT ![c] = TRUE]
  /\ Goto(c, "locked")
  /\ UNCHANGED <<lock_, wait_queue_, wake>>

(* Mutants of HandOver: the mutex is freed although somebody waits and is  *)
(* woken; the newest waiter is chosen; waiters are forgotten; the first    *)
(* waiter stays queued.                                                    *)
HandOverKeeps(popped) ==
  IF wait_queue_ # <<>>
  THEN popped = Head(wait_queue_) /\ UNCHANGED <<lock_, wait_queue_>>
  ELSE popped = None /\ lock_' = FALSE /\ UNCHANGED wait_queue_
HandOverFrees(popped) ==
  IF wait_queue_ # <<>>
  THEN /\ popped = Head(wait_queue_)
       /\ wait_queue_' = Tail(wait_queue_)
       /\ lock_' = FALSE
  ELSE popped = None /\ lock_' = FALSE /\ UNCHANGED wait_queue_
HandOverNewest(popped) ==
  IF wait_queue_ # <<>>
  THEN /\ popped = wait_queue_[Len(wait_queue_)]
       /\ wait_queue_' = SubSeq(wait_queue_, 1, Len(wait_queue_) - 1)
       /\ UNCHANGED lock_
  ELSE popped = None /\ lock_' = FALSE /\ UNCHANGED wait_queue_
HandOverForgets(popped) ==
  popped = None /\ lock_' = FALSE /\ UNCHANGED wait_queue_

(* AsyncMutex::unlock() under mtx_: the first waiter, or nobody, is popped.*)
HandOver(popped) ==
  \/ /\ wait_queue_ # <<>>
     /\ popped = Head(wait_queue_)
     /\ wait_queue_' = Tail(wait_queue_)
     /\ UNCHANGED lock_
  \/ /\ wait_queue_ = <<>>
     /\ popped = None
     /\ lock_' = FALSE
     /\ UNCHANGED wait_queue_

(* ~LockGuard or guard.unlock(), up to the end of AsyncMutex::unlock()'s   *)
(* critical section.  A guard that does not own the mutex does nothing.    *)
Unlock(c, p, after) ==
  /\ pc[c] = "locked"
  /\ \/ /\ owns_lock_[c]
        /\ \E h \in Coros \cup {None} :
             HandOver(h) /\ wake' = [wake EXCEPT ![c] = h]
        /\ Goto(c, p)
     \/ /\ ~owns_lock_[c]
        /\ Goto(c, after)
        /\ UNCHANGED <<lock_, wait_queue_, wake>>
  /\ UNCHANGED owns_lock_

DestroyGuard(c) == Unlock(c, "destroying", "idle")
UnlockGuard(c) == Unlock(c, "unlocking", "released")

(* The popped waiter goes to reschedule_or_resume. *)
Reschedule(c) ==
  /\ wake[c] # None
  /\ pc' = [pc EXCEPT ![wake[c]] = "granted"]
  /\ wake' = [wake EXCEPT ![c] = None]
  /\ UNCHANGED <<lock_, wait_queue_, owns_lock_>>

(* After AsyncMutex::unlock(): the destructor is done; guard.unlock()      *)
(* clears owns_lock_.                                                      *)
Leave(c) ==
  /\ pc[c] \in {"destroying", "unlocking"} /\ wake[c] = None
  /\ owns_lock_' = [owns_lock_ EXCEPT ![c] = FALSE]
  /\ Goto(c, IF pc[c] = "destroying" THEN "idle" ELSE "released")
  /\ UNCHANGED <<lock_, wait_queue_, wake>>

(* ~LockGuard of a guard that was unlocked. *)
DropGuard(c) ==
  /\ pc[c] = "released"
  /\ Goto(c, "idle")
  /\ UNCHANGED <<lock_, wait_queue_, owns_lock_, wake>>

Step(c) ==
  \/ Granted(c) \/ DestroyGuard(c) \/ UnlockGuard(c) \/ Reschedule(c)
  \/ Leave(c) \/ DropGuard(c)

MutexNext == \E c \in Coros : Lock(c) \/ Relock(c) \/ Step(c)

MutexSpec == MutexInit /\ [][MutexNext]_mutexVars

(* A coroutine that is resumed runs, and a guard goes out of scope. *)
MutexFairSpec == MutexSpec /\ \A c \in Coros : WF_mutexVars(Step(c))
----------------------------------------------------------------------------
(* Properties *)

MutexPCs == {"idle", "parked", "granted", "locked", "destroying", "unlocking",
             "released"}

(* Every variable has the type its C++ counterpart has. *)
MutexTypeOK ==
  /\ lock_ \in BOOLEAN /\ wait_queue_ \in Seq(Coros)
  /\ owns_lock_ \in [Coros -> BOOLEAN]
  /\ pc \in [Coros -> MutexPCs]
  /\ wake \in [Coros -> Coros \cup {None}]

(* The mutex has been given to c: c runs with it, or has been chosen by an *)
(* unlock() and not run yet.                                               *)
Popped(c) == \E d \in Coros : wake[d] = c
Holds(c) == pc[c] \in {"granted", "locked"} \/ Popped(c)
Holders == {c \in Coros : Holds(c)}

(* At most one coroutine has been given the mutex, counting the one that   *)
(* is still on its way from unlock() to its own await_resume.              *)
MutualExclusion == \A c, d \in Holders : c = d

(* lock_ is set exactly while somebody has been given the mutex: a flag    *)
(* left set is a mutex nobody can take, one cleared too early lets a       *)
(* second owner in.                                                        *)
LockAccounted == lock_ <=> Holders # {}

(* A waiter is parked, and queued once or popped once. *)
WaiterOwnedOnce ==
  /\ IsInjective(wait_queue_)
  /\ \A c \in Coros :
       /\ (pc[c] = "parked") <=> (c \in Range(wait_queue_) \/ Popped(c))
       /\ ~(c \in Range(wait_queue_) /\ Popped(c))
  /\ \A c, d \in Coros : c # d /\ wake[c] = wake[d] => wake[c] = None

(* The guard's flag tells the truth while its coroutine runs: set when it  *)
(* has the mutex, clear after guard.unlock().                              *)
GuardOwns ==
  \A c \in Coros :
    /\ pc[c] = "locked" => owns_lock_[c]
    /\ pc[c] = "released" => ~owns_lock_[c]

(* The mutex passes from owner to owner in the order of arrival. *)
Fifo == INSTANCE FifoLock WITH owners <- Holders, waiting <- wait_queue_
FifoLockSpec == Fifo!Spec

(* Whoever waits gets the mutex, if those who have it let go of it. *)
LockGranted == \A c \in Coros : pc[c] = "parked" ~> pc[c] = "locked"
=============================================================================
