-------------------------- MODULE AsyncMutexProofs --------------------------
(***************************************************************************)
(* Proofs about AsyncMutex for any set of coroutines.  MutualExclusion is  *)
(* not inductive alone: that unlock() pops somebody who is not the owner   *)
(* already needs WaiterOwnedOnce, and that lock() on a free mutex finds no *)
(* owner needs LockAccounted.  That a newcomer never overtakes a waiter    *)
(* needs that nobody waits for a free mutex.                               *)
(***************************************************************************)
EXTENDS AsyncMutex, QueueLemmas

NobodyWaitsForFree == ~lock_ => wait_queue_ = <<>>

MutexInv ==
  /\ MutexTypeOK /\ MutualExclusion /\ LockAccounted /\ WaiterOwnedOnce
  /\ GuardOwns /\ NobodyWaitsForFree

USE NoneAssumption

(* Initially nobody has the mutex and nobody waits (a fresh AsyncMutex). *)
LEMMA MutexInitInv == MutexInit => MutexInv
<1> SUFFICES ASSUME MutexInit PROVE MutexInv
  OBVIOUS
<1>1. wait_queue_ \in Seq(Coros) /\ Range(wait_queue_) = {}
      /\ IsInjective(wait_queue_)
  BY EmptyQueueLemma DEF MutexInit
<1>2. MutexTypeOK
  BY <1>1 DEF MutexInit, MutexTypeOK, MutexPCs
<1>3. \A c \in Coros : ~Popped(c) /\ ~Holds(c)
  BY DEF MutexInit, Popped, Holds
<1> QED BY <1>1, <1>2, <1>3 DEF MutexInit, MutexInv, MutualExclusion,
             LockAccounted, WaiterOwnedOnce, Holders, GuardOwns,
             NobodyWaitsForFree

(* lock() and relock(): the free mutex has no owner, a taken one gets one  *)
(* more waiter (Awaiter and ReLockAwaiter::await_suspend).                 *)
LEMMA TakeInv ==
  ASSUME MutexInv, NEW c \in Coros, pc[c] \in {"idle", "released"}, Take(c)
  PROVE  MutexInv' /\ (Fifo!Acquire(c) \/ Fifo!Await(c))
<1> USE DEF MutexInv, MutexTypeOK
<1>1. c \notin Range(wait_queue_) /\ ~Popped(c) /\ ~Holds(c)
  BY DEF WaiterOwnedOnce, Holds
<1>2. CASE ~lock_
  <2>1. /\ lock_' = TRUE /\ wait_queue_' = wait_queue_ /\ wake' = wake
        /\ pc' = [pc EXCEPT ![c] = "locked"]
        /\ owns_lock_' = [owns_lock_ EXCEPT ![c] = TRUE]
    BY <1>2 DEF Take, Goto
  <2>2. MutexTypeOK'
    BY <2>1 DEF MutexPCs
  <2>3. \A d \in Coros : Popped(d)' <=> Popped(d)
    BY <2>1 DEF Popped
  <2>4. \A d \in Coros : Holds(d)' <=> d = c
    BY <1>2, <2>1, <2>3 DEF Holds, LockAccounted, Holders
  <2>5. MutualExclusion' /\ LockAccounted'
    BY <2>1, <2>4 DEF MutualExclusion, LockAccounted, Holders
  <2>6. WaiterOwnedOnce'
    BY <1>1, <2>1, <2>3 DEF WaiterOwnedOnce
  <2>7. GuardOwns' /\ NobodyWaitsForFree'
    BY <2>1 DEF GuardOwns, NobodyWaitsForFree
  <2>8. Fifo!Acquire(c)
    <3>1. Holders = {} /\ Holders' = {c}
      BY <1>2, <2>4 DEF LockAccounted, Holders
    <3> QED BY <1>2, <2>1, <3>1 DEF Fifo!Acquire, NobodyWaitsForFree
  <2> QED BY <2>2, <2>5, <2>6, <2>7, <2>8
<1>3. CASE lock_
  <2>1. /\ lock_' = lock_ /\ wake' = wake /\ owns_lock_' = owns_lock_
        /\ wait_queue_' = Append(wait_queue_, c)
        /\ pc' = [pc EXCEPT ![c] = "parked"]
    BY <1>3 DEF Take, Goto
  <2>2. /\ wait_queue_' \in Seq(Coros)
        /\ Range(wait_queue_') = Range(wait_queue_) \cup {c}
        /\ IsInjective(wait_queue_')
    BY <1>1, <2>1, PushLemma DEF WaiterOwnedOnce
  <2>3. MutexTypeOK'
    BY <2>1, <2>2 DEF MutexPCs
  <2>4. \A d \in Coros : (Popped(d)' <=> Popped(d)) /\ (Holds(d)' <=> Holds(d))
    BY <1>1, <2>1 DEF Popped, Holds
  <2>5. MutualExclusion' /\ LockAccounted'
    BY <2>1, <2>4 DEF MutualExclusion, LockAccounted, Holders
  <2>6. WaiterOwnedOnce'
    BY <1>1, <2>1, <2>2, <2>4 DEF WaiterOwnedOnce
  <2>7. GuardOwns' /\ NobodyWaitsForFree'
    BY <1>3, <2>1 DEF GuardOwns, NobodyWaitsForFree
  <2>8. Fifo!Await(c)
    <3>1. Holders # {} /\ Holders' = Holders
      BY <1>3, <2>4 DEF LockAccounted, Holders
    <3> QED BY <2>1, <3>1 DEF Fifo!Await
  <2> QED BY <2>3, <2>5, <2>6, <2>7, <2>8
<1> QED BY <1>2, <1>3

(* ~LockGuard and guard.unlock(): the mutex goes to the first waiter, or   *)
(* becomes free (AsyncMutex::unlock).                                      *)
LEMMA UnlockInv ==
  ASSUME MutexInv, NEW c \in Coros, NEW p \in {"destroying", "unlocking"},
         NEW after \in {"idle", "released"}, Unlock(c, p, after)
  PROVE  MutexInv' /\ Fifo!Release
<1> USE DEF MutexInv, MutexTypeOK
<1>1. pc[c] = "locked" /\ owns_lock_[c] /\ Holds(c) /\ lock_ /\ ~Popped(c)
      /\ c \notin Range(wait_queue_)
  BY DEF Unlock, Holds, LockAccounted, Holders, WaiterOwnedOnce, GuardOwns
<1>2. \A d \in Coros : Holds(d) => d = c
  BY <1>1 DEF MutualExclusion, Holders
<1>3. \A d \in Coros : ~Popped(d)
  BY <1>1, <1>2 DEF Holds
<1>4. \A d \in Coros : wake[d] = None
  BY <1>3 DEF Popped
<1>5. PICK h \in Coros \cup {None} :
        HandOver(h) /\ wake' = [wake EXCEPT ![c] = h]
  BY <1>1 DEF Unlock
<1>6. pc' = [pc EXCEPT ![c] = p] /\ owns_lock_' = owns_lock_
  BY <1>1 DEF Unlock, Goto
<1>9. GuardOwns'
  BY <1>6 DEF GuardOwns
<1>10. Holders = {c}
  BY <1>1, <1>2 DEF Holders
<1>7. CASE wait_queue_ # <<>>
  <2>1. h = Head(wait_queue_) /\ wait_queue_' = Tail(wait_queue_)
        /\ lock_' = lock_
    BY <1>5, <1>7 DEF HandOver
  <2>2. /\ h \in Coros /\ wait_queue_' \in Seq(Coros)
        /\ Range(wait_queue_) = {h} \cup Range(wait_queue_')
        /\ IsInjective(wait_queue_') /\ h \notin Range(wait_queue_')
    BY <1>7, <2>1, PopLemma DEF WaiterOwnedOnce
  <2>3. MutexTypeOK'
    BY <1>5, <1>6, <2>1, <2>2 DEF MutexPCs
  <2>4. \A d \in Coros : Popped(d)' <=> d = h
    BY <1>4, <1>5, <2>2 DEF Popped
  <2>5. pc[h] = "parked" /\ h # c
    BY <1>1, <2>2 DEF WaiterOwnedOnce
  <2>6. \A d \in Coros : Holds(d)' <=> d = h
    BY <1>2, <1>6, <2>4, <2>5 DEF Holds
  <2>7. MutualExclusion' /\ LockAccounted'
    BY <1>1, <2>1, <2>2, <2>6 DEF MutualExclusion, LockAccounted, Holders
  <2>8. WaiterOwnedOnce'
    BY <1>1, <1>3, <1>4, <1>5, <1>6, <2>2, <2>4, <2>5 DEF WaiterOwnedOnce
  <2>9. NobodyWaitsForFree'
    BY <1>1, <2>1 DEF NobodyWaitsForFree
  <2>10. Fifo!Release
    <3>1. Holders' = {h}
      BY <2>2, <2>6 DEF Holders
    <3> QED BY <1>7, <1>10, <2>1, <3>1 DEF Fifo!Release
  <2> QED BY <1>9, <2>3, <2>7, <2>8, <2>9, <2>10
<1>8. CASE wait_queue_ = <<>>
  <2>1. h = None /\ wait_queue_' = wait_queue_ /\ lock_' = FALSE
    BY <1>5, <1>8 DEF HandOver
  <2>2. wake' = wake
    BY <1>4, <1>5, <2>1
  <2>3. MutexTypeOK'
    BY <1>6, <2>1, <2>2 DEF MutexPCs
  <2>4. \A d \in Coros : ~Popped(d)' /\ ~Holds(d)'
    BY <1>2, <1>3, <1>6, <2>2 DEF Popped, Holds
  <2>5. MutualExclusion' /\ LockAccounted'
    BY <2>1, <2>4 DEF MutualExclusion, LockAccounted, Holders
  <2>6. WaiterOwnedOnce'
    BY <1>1, <1>3, <1>6, <2>1, <2>2, <2>4 DEF WaiterOwnedOnce
  <2>7. NobodyWaitsForFree'
    BY <1>8, <2>1 DEF NobodyWaitsForFree
  <2>8. Fifo!Release
    <3>1. Holders' = {}
      BY <2>4 DEF Holders
    <3> QED BY <1>8, <1>10, <2>1, <3>1 DEF Fifo!Release
  <2> QED BY <1>9, <2>3, <2>5, <2>6, <2>7, <2>8
<1> QED BY <1>7, <1>8

(* The steps between unlock() and the new owner's await_resume, and the    *)
(* end of a guard, move the mutex neither to nor from anybody              *)
(* (reschedule_or_resume, await_resume, ~LockGuard).                       *)
LEMMA QuietInv ==
  ASSUME MutexInv, NEW c \in Coros,
         Granted(c) \/ Reschedule(c) \/ Leave(c) \/ DropGuard(c)
  PROVE  MutexInv' /\ Holders' = Holders /\ wait_queue_' = wait_queue_
<1> USE DEF MutexInv, MutexTypeOK
<1>1. lock_' = lock_ /\ wait_queue_' = wait_queue_
  BY DEF Granted, Reschedule, Leave, DropGuard
<1>2. SUFFICES /\ MutexTypeOK' /\ WaiterOwnedOnce' /\ GuardOwns'
               /\ \A d \in Coros : Holds(d)' <=> Holds(d)
  BY <1>1 DEF MutualExclusion, LockAccounted, Holders, NobodyWaitsForFree
<1>3. CASE Reschedule(c)
  <2> DEFINE h == wake[c]
  <2>1. /\ h \in Coros /\ Popped(h) /\ owns_lock_' = owns_lock_
        /\ pc' = [pc EXCEPT ![h] = "granted"]
        /\ wake' = [wake EXCEPT ![c] = None]
    BY <1>3 DEF Reschedule, Popped
  <2>2. pc[h] = "parked" /\ h \notin Range(wait_queue_)
    BY <2>1 DEF WaiterOwnedOnce
  <2>3. \A d \in Coros : Popped(d)' <=> (Popped(d) /\ d # h)
    BY <2>1 DEF Popped, WaiterOwnedOnce
  <2> HIDE DEF h
  <2>4. MutexTypeOK'
    BY <1>1, <2>1 DEF MutexPCs
  <2>5. WaiterOwnedOnce'
    BY <1>1, <2>1, <2>2, <2>3 DEF WaiterOwnedOnce
  <2>6. GuardOwns' /\ \A d \in Coros : Holds(d)' <=> Holds(d)
    BY <2>1, <2>2, <2>3 DEF Holds, GuardOwns
  <2> QED BY <2>4, <2>5, <2>6
<1>4. CASE Granted(c) \/ Leave(c) \/ DropGuard(c)
  <2>1. /\ wake' = wake /\ owns_lock_' \in [Coros -> BOOLEAN]
        /\ pc' \in [Coros -> MutexPCs]
        /\ \A d \in Coros \ {c} : pc'[d] = pc[d] /\ owns_lock_'[d] = owns_lock_[d]
        /\ pc[c] # "parked" /\ pc'[c] # "parked"
        /\ pc[c] \in {"granted", "locked"} <=> pc'[c] \in {"granted", "locked"}
        /\ pc'[c] = "locked" => owns_lock_'[c]
        /\ pc'[c] = "released" => ~owns_lock_'[c]
    BY <1>4 DEF Granted, Leave, DropGuard, Goto, MutexPCs
  <2>2. \A d \in Coros : Popped(d)' <=> Popped(d)
    BY <2>1 DEF Popped
  <2>3. \A d \in Coros : Holds(d)' <=> Holds(d)
    BY <2>1, <2>2 DEF Holds
  <2>4. WaiterOwnedOnce'
    BY <1>1, <2>1, <2>2 DEF WaiterOwnedOnce
  <2>5. MutexTypeOK' /\ GuardOwns'
    BY <1>1, <2>1 DEF GuardOwns
  <2> QED BY <2>3, <2>4, <2>5
<1> QED BY <1>3, <1>4

(* Every step keeps the invariant and is a step of FifoLock, or none. *)
LEMMA MutexStep ==
  ASSUME MutexInv, [MutexNext]_mutexVars
  PROVE  MutexInv' /\ [Fifo!Next]_<<Holders, wait_queue_>>
<1>1. CASE UNCHANGED mutexVars
  <2>1. Holders' = Holders /\ wait_queue_' = wait_queue_
    BY <1>1 DEF mutexVars, Holders, Holds, Popped
  <2>2. MutexInv'
    BY <1>1, <2>1 DEF mutexVars, MutexInv, MutexTypeOK, MutualExclusion,
         LockAccounted, WaiterOwnedOnce, GuardOwns, NobodyWaitsForFree, Popped
  <2> QED BY <2>1, <2>2
<1>2. ASSUME NEW c \in Coros, Lock(c) \/ Relock(c)
      PROVE  MutexInv' /\ Fifo!Next
  BY <1>2, TakeInv DEF Lock, Relock, Fifo!Next
<1>3. ASSUME NEW c \in Coros, DestroyGuard(c) \/ UnlockGuard(c)
      PROVE  MutexInv' /\ Fifo!Next
  BY <1>3, UnlockInv DEF DestroyGuard, UnlockGuard, Fifo!Next
<1>4. ASSUME NEW c \in Coros,
             Granted(c) \/ Reschedule(c) \/ Leave(c) \/ DropGuard(c)
      PROVE  MutexInv' /\ UNCHANGED <<Holders, wait_queue_>>
  BY <1>4, QuietInv
<1> QED BY <1>1, <1>2, <1>3, <1>4 DEF MutexNext, Step

(* Every member of AsyncMutex and LockGuard keeps its type, for any set of *)
(* coroutines: the queue never holds an empty handle.                      *)
THEOREM MutexTyped == MutexSpec => []MutexTypeOK
<1>1. MutexInv => MutexTypeOK
  BY DEF MutexInv
<1> QED BY <1>1, MutexInitInv, MutexStep, PTL DEF MutexSpec

(* For any number of coroutines at most one has been given the mutex.      *)
THEOREM MutexMutualExclusion == MutexSpec => []MutualExclusion
<1>1. MutexInv => MutualExclusion
  BY DEF MutexInv
<1> QED BY <1>1, MutexInitInv, MutexStep, PTL DEF MutexSpec

(* For any number of coroutines lock_ is set exactly while one has been    *)
(* given the mutex: it is neither lost nor free too early.                 *)
THEOREM MutexLockAccounted == MutexSpec => []LockAccounted
<1>1. MutexInv => LockAccounted
  BY DEF MutexInv
<1> QED BY <1>1, MutexInitInv, MutexStep, PTL DEF MutexSpec

(* For any number of coroutines a waiter's handle is queued or popped,     *)
(* once: AsyncMutex::unlock never resumes a coroutine twice.               *)
THEOREM MutexWaiterOwnedOnce == MutexSpec => []WaiterOwnedOnce
<1>1. MutexInv => WaiterOwnedOnce
  BY DEF MutexInv
<1> QED BY <1>1, MutexInitInv, MutexStep, PTL DEF MutexSpec

(* For any number of coroutines AsyncMutex implements FifoLock: the mutex  *)
(* passes from owner to owner in the order in which they asked for it.     *)
THEOREM MutexImplementsFifoLock == MutexSpec => FifoLockSpec
<1>1. MutexInit => Fifo!Init
  BY DEF MutexInit, Fifo!Init, Holders, Holds, Popped
<1> QED BY <1>1, MutexInitInv, MutexStep, PTL DEF MutexSpec, FifoLockSpec, Fifo!Spec
=============================================================================
