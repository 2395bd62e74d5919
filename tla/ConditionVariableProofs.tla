---------------------- MODULE ConditionVariableProofs ----------------------
(***************************************************************************)
(* Proofs about ConditionVariable with its mutex, for any set of           *)
(* coroutines, any threads outside the runtime that notify, and a worker   *)
(* that is alone or not.  The mutex part is that of AsyncMutexProofs with  *)
(* two more ways to be given the mutex: chosen by the unlock() inside a    *)
(* wait, and waiting with that unlock() still to come.  Unless the worker  *)
(* is alone a mutex may be lost (README, finding 3), so lock_ may be set   *)
(* with nobody to hold it, never the other way round.                      *)
(***************************************************************************)
EXTENDS ConditionVariable, QueueLemmas

USE NoneAssumption, OutsidersAssumption, AloneAssumption

CvPCs == MutexPCs \cup {"cvParked", "cvResumed"}

CvTypeOK ==
  /\ lock_ \in BOOLEAN /\ wait_queue_ \in Seq(Coros)
  /\ owns_lock_ \in [Coros -> BOOLEAN]
  /\ pc \in [Coros -> CvPCs]
  /\ wake \in [Coros -> Coros \cup {None}]
  /\ cv_queue \in Seq(Coros)
  /\ unlocks \subseteq Coros /\ clears \in [Coros -> Nat]
  /\ tail_wake \in [Coros -> Coros \cup {None}]
  /\ notified \in [Notifiers -> Seq(Coros)]
  /\ alone \in BOOLEAN

TailPopped(c) == \E d \in Coros : tail_wake[d] = c
Chosen(c) == Popped(c) \/ TailPopped(c)

(* The mutex has been given to c, whoever resumes c meanwhile. *)
Given(c) == Holds(c) \/ TailPopped(c) \/ c \in unlocks
GivenOnce == \A c, d \in Coros : Given(c) /\ Given(d) => c = d
GivenLocked == \A c \in Coros : Given(c) => lock_

(* WaiterOwnedOnce, with two kinds of unlock(). *)
MutexWaiters ==
  /\ IsInjective(wait_queue_)
  /\ \A c \in Coros :
       /\ (pc[c] = "parked") <=> (c \in Range(wait_queue_) \/ Chosen(c))
       /\ ~(c \in Range(wait_queue_) /\ Chosen(c))
       /\ ~(Popped(c) /\ TailPopped(c))
  /\ \A c, d \in Coros :
       c # d => /\ wake[c] = wake[d] => wake[c] = None
                /\ tail_wake[c] = tail_wake[d] => tail_wake[c] = None

(* A wait whose unlock() is still to come has not got the mutex back. *)
TailWaits ==
  \A c \in Coros :
    c \in unlocks => pc[c] \in {"cvParked", "cvResumed", "parked"} /\ ~Chosen(c)

MutexPart == GivenOnce /\ GivenLocked /\ MutexWaiters /\ TailWaits

(* On a worker that is alone nobody is notified while a wait() has still   *)
(* to unlock or to clear its guard's flag.                                 *)
AlonePart ==
  alone =>
    /\ GuardOwns
    /\ \A n \in Outsiders : notified[n] = <<>>
    /\ \A c \in Coros :
         InTail(c) => pc[c] = "cvParked"
                      /\ \A n \in Notifiers : notified[n] = <<>>

CvInv == CvTypeOK /\ MutexPart /\ CvWaiterOwnedOnce /\ AlonePart
----------------------------------------------------------------------------
(* Initially nobody has the mutex and nobody waits (fresh objects). *)
LEMMA CvInitInv == Init => CvInv
<1> SUFFICES ASSUME Init PROVE CvInv
  OBVIOUS
<1>1. <<>> \in Seq(Coros) /\ Range(<<>>) = {} /\ IsInjective(<<>>)
  BY EmptyQueueLemma
<1>2. CvTypeOK
  BY <1>1 DEF Init, MutexInit, CvTypeOK, CvPCs, MutexPCs
<1>3. \A c \in Coros : ~Popped(c) /\ ~TailPopped(c) /\ ~Given(c) /\ ~Chosen(c)
  BY DEF Init, MutexInit, Popped, TailPopped, Given, Holds, Chosen
<1>4. MutexPart
  BY <1>1, <1>3 DEF Init, MutexInit, MutexPart, GivenOnce, GivenLocked,
       MutexWaiters, TailWaits
<1>5. CvWaiterOwnedOnce
  BY <1>1 DEF Init, MutexInit, CvWaiterOwnedOnce, NotifiedBy
<1>6. AlonePart
  BY DEF Init, MutexInit, AlonePart, GuardOwns, InTail, Notifiers
<1> QED BY <1>2, <1>4, <1>5, <1>6 DEF CvInv

(* A step that touches neither the condition variable's queue nor a popped *)
(* waiter keeps the waiters (every step of the mutex).                     *)
LEMMA WaitersQuiet ==
  ASSUME CvWaiterOwnedOnce, cv_queue' = cv_queue, notified' = notified,
         \A c \in Coros : pc'[c] = "cvParked" <=> pc[c] = "cvParked"
  PROVE  CvWaiterOwnedOnce'
<1>1. \A c \in Coros : NotifiedBy(c)' = NotifiedBy(c)
  BY DEF NotifiedBy
<1> QED BY <1>1 DEF CvWaiterOwnedOnce

(* A step in which c runs and gives the mutex to nobody: what c has of it  *)
(* it keeps or drops.                                                      *)
LEMMA MutexQuiet ==
  ASSUME CvTypeOK, MutexPart, NEW c \in Coros,
         lock_' = lock_, wait_queue_' = wait_queue_, wake' = wake,
         tail_wake' = tail_wake, unlocks' \subseteq Coros,
         pc' \in [Coros -> CvPCs],
         \A d \in Coros \ {c} : 
           pc'[d] = pc[d] /\ (d \in unlocks' <=> d \in unlocks),
         pc[c] # "parked", pc'[c] # "parked",
         pc'[c] \in {"granted", "locked"} \/ c \in unlocks'
           => pc[c] \in {"granted", "locked"} \/ c \in unlocks,
         c \in unlocks' => pc'[c] \in {"cvParked", "cvResumed"}
  PROVE  MutexPart'
<1>1. \A d \in Coros : /\ Popped(d)' <=> Popped(d)
                       /\ TailPopped(d)' <=> TailPopped(d)
                       /\ Chosen(d)' <=> Chosen(d)
  BY DEF Popped, TailPopped, Chosen
<1>2. \A d \in Coros : Given(d)' => Given(d)
  BY <1>1 DEF Given, Holds
<1>3. GivenOnce' /\ GivenLocked'
  BY <1>2 DEF MutexPart, GivenOnce, GivenLocked
<1>4. MutexWaiters'
  BY <1>1 DEF MutexPart, MutexWaiters
<1>5. TailWaits'
  <2>1. ~Chosen(c)
    BY DEF MutexPart, MutexWaiters
  <2> QED BY <1>1, <2>1 DEF MutexPart, TailWaits
<1> QED BY <1>3, <1>4, <1>5 DEF MutexPart

(* lock(), relock() and the relock() of a wait: the free mutex has no      *)
(* owner, a taken one gets one more waiter (await_suspend of AsyncMutex).  *)
LEMMA CvTakeInv ==
  ASSUME CvInv, NEW c \in Coros, pc[c] \in {"idle", "released", "cvResumed"},
         alone => ~InTail(c), Take(c), UNCHANGED cvVars
  PROVE  CvInv'
<1>1. /\ cv_queue' = cv_queue /\ unlocks' = unlocks /\ tail_wake' = tail_wake
      /\ notified' = notified /\ alone' = alone /\ clears' = clears /\ wake' = wake
  BY DEF cvVars, tailVars, Take
<1>2. c \notin Range(wait_queue_) /\ ~Chosen(c) /\ ~Popped(c) /\ ~TailPopped(c)
  BY DEF CvInv, MutexPart, MutexWaiters, Chosen
<1>3. PICK p \in {"locked", "parked"} :
        /\ pc' = [pc EXCEPT ![c] = p]
        /\ owns_lock_' \in [Coros -> BOOLEAN]
        /\ \A d \in Coros \ {c} : owns_lock_'[d] = owns_lock_[d]
        /\ p = "locked" => owns_lock_'[c]
  BY DEF Take, Goto, CvInv, CvTypeOK
<1>4. \A d \in Coros : pc'[d] = IF d = c THEN p ELSE pc[d]
  BY <1>3 DEF CvInv, CvTypeOK
<1>5. CvWaiterOwnedOnce'
  BY <1>1, <1>4, WaitersQuiet DEF CvInv
<1>6. AlonePart'
  BY <1>1, <1>3, <1>4 DEF CvInv, AlonePart, GuardOwns, InTail
<1>7. \A d \in Coros : /\ Popped(d)' <=> Popped(d)
                       /\ TailPopped(d)' <=> TailPopped(d)
                       /\ Chosen(d)' <=> Chosen(d)
  BY <1>1 DEF Popped, TailPopped, Chosen
<1>8. CASE ~lock_
  <2>1. lock_' = TRUE /\ wait_queue_' = wait_queue_
        /\ pc' = [pc EXCEPT ![c] = "locked"]
    BY <1>8 DEF Take, Goto
  <2>2. \A d \in Coros : pc'[d] = IF d = c THEN "locked" ELSE pc[d]
    BY <2>1 DEF CvInv, CvTypeOK
  <2>3. \A d \in Coros : ~Given(d)
    BY <1>8 DEF CvInv, MutexPart, GivenLocked
  <2>4. CvTypeOK'
    BY <1>1, <1>3, <2>1 DEF CvInv, CvTypeOK, CvPCs, MutexPCs
  <2>5. \A d \in Coros : Given(d)' => d = c
    BY <1>1, <1>7, <2>2, <2>3 DEF Given, Holds
  <2>6. GivenOnce' /\ GivenLocked'
    BY <2>1, <2>5 DEF GivenOnce, GivenLocked
  <2>7. MutexWaiters'
    BY <1>1, <1>2, <1>7, <2>1, <2>2 DEF CvInv, MutexPart, MutexWaiters
  <2>8. TailWaits'
    <3>1. c \notin unlocks
      BY <2>3 DEF Given
    <3> QED BY <1>1, <1>7, <2>2, <3>1 DEF CvInv, MutexPart, TailWaits
  <2> QED BY <1>5, <1>6, <2>4, <2>6, <2>7, <2>8 DEF CvInv, MutexPart
<1>9. CASE lock_
  <2>1. lock_' = lock_ /\ wait_queue_' = Append(wait_queue_, c)
        /\ pc' = [pc EXCEPT ![c] = "parked"]
    BY <1>9 DEF Take, Goto
  <2>2. \A d \in Coros : pc'[d] = IF d = c THEN "parked" ELSE pc[d]
    BY <2>1 DEF CvInv, CvTypeOK
  <2>3. /\ wait_queue_' \in Seq(Coros) /\ IsInjective(wait_queue_')
        /\ Range(wait_queue_') = Range(wait_queue_) \cup {c}
    BY <1>2, <2>1, PushLemma DEF CvInv, CvTypeOK, MutexPart, MutexWaiters
  <2>4. CvTypeOK'
    BY <1>1, <1>3, <2>1, <2>3 DEF CvInv, CvTypeOK, CvPCs, MutexPCs
  <2>5. \A d \in Coros : Given(d)' => Given(d)
    BY <1>1, <1>7, <2>2 DEF Given, Holds
  <2>6. GivenOnce' /\ GivenLocked'
    BY <2>1, <2>5 DEF CvInv, MutexPart, GivenOnce, GivenLocked
  <2>7. MutexWaiters'
    BY <1>1, <1>2, <1>7, <2>2, <2>3 DEF CvInv, MutexPart, MutexWaiters
  <2>8. TailWaits'
    BY <1>1, <1>7, <2>2 DEF CvInv, MutexPart, TailWaits
  <2> QED BY <1>5, <1>6, <2>4, <2>6, <2>7, <2>8 DEF CvInv, MutexPart
<1> QED BY <1>8, <1>9

(* AsyncMutex::unlock(), called by a guard or from within a wait: the      *)
(* mutex goes to the first waiter, which may be the coroutine itself when  *)
(* it was notified and asked for the mutex before its old wait let go, or  *)
(* it becomes free.                                                        *)
LEMMA CvHandOver ==
  ASSUME CvTypeOK, MutexPart, NEW c \in Coros, Given(c), ~Chosen(c),
         NEW h \in Coros \cup {None}, HandOver(h),
         \/ wake' = [wake EXCEPT ![c] = h] /\ tail_wake' = tail_wake
         \/ tail_wake' = [tail_wake EXCEPT ![c] = h] /\ wake' = wake,
         \A d \in Coros \ {c} : 
           pc'[d] = pc[d] /\ (d \in unlocks' <=> d \in unlocks),
         pc'[c] \notin {"granted", "locked"}, c \notin unlocks',
         pc'[c] = "parked" <=> pc[c] = "parked"
  PROVE  /\ MutexPart' /\ wait_queue_' \in Seq(Coros) /\ lock_' \in BOOLEAN
         /\ wake' \in [Coros -> Coros \cup {None}]
         /\ tail_wake' \in [Coros -> Coros \cup {None}]
<1>1. \A d \in Coros : Given(d) => d = c
  BY DEF MutexPart, GivenOnce
<1>2. \A d \in Coros : ~Popped(d) /\ ~TailPopped(d) /\ ~Chosen(d)
  BY <1>1 DEF Given, Holds, Chosen
<1>3. \A d \in Coros : wake[d] = None /\ tail_wake[d] = None
  BY <1>2 DEF Popped, TailPopped, CvTypeOK
<1>4. lock_
  BY DEF MutexPart, GivenLocked
<1>5. /\ wake' \in [Coros -> Coros \cup {None}]
      /\ tail_wake' \in [Coros -> Coros \cup {None}]
      /\ \/ /\ \A e \in Coros : wake'[e] = IF e = c THEN h ELSE None
            /\ \A e \in Coros : tail_wake'[e] = None
         \/ /\ \A e \in Coros : tail_wake'[e] = IF e = c THEN h ELSE None
            /\ \A e \in Coros : wake'[e] = None
  <2>1. CASE wake' = [wake EXCEPT ![c] = h] /\ tail_wake' = tail_wake
    BY <1>3, <2>1 DEF CvTypeOK
  <2>2. CASE tail_wake' = [tail_wake EXCEPT ![c] = h] /\ wake' = wake
    BY <1>3, <2>2 DEF CvTypeOK
  <2> QED BY <2>1, <2>2
<1>6. CASE wait_queue_ # <<>>
  <2>1. h = Head(wait_queue_) /\ wait_queue_' = Tail(wait_queue_)
        /\ lock_' = lock_
    BY <1>6 DEF HandOver
  <2>2. /\ h \in Coros /\ wait_queue_' \in Seq(Coros)
        /\ Range(wait_queue_) = {h} \cup Range(wait_queue_')
        /\ IsInjective(wait_queue_') /\ h \notin Range(wait_queue_')
    BY <1>6, <2>1, PopLemma DEF CvTypeOK, MutexPart, MutexWaiters
  <2>3. \A d \in Coros : /\ Chosen(d)' <=> d = h
                         /\ ~(Popped(d)' /\ TailPopped(d)')
    BY <1>5, <2>2 DEF Popped, TailPopped, Chosen
  <2>4. pc[h] = "parked" /\ pc'[h] = "parked"
    BY <2>2 DEF MutexPart, MutexWaiters
  <2>5. \A d \in Coros : Given(d)' => d = h
    <3>1. \A d \in Coros : Popped(d)' \/ TailPopped(d)' => d = h
      BY <2>3 DEF Chosen
    <3>2. \A d \in Coros :
            pc'[d] \notin {"granted", "locked"} /\ d \notin unlocks'
      BY <1>1 DEF Given, Holds
    <3> QED BY <3>1, <3>2 DEF Given, Holds
  <2>6. GivenOnce' /\ GivenLocked'
    BY <1>4, <2>1, <2>5 DEF GivenOnce, GivenLocked
  <2>7. MutexWaiters'
    <3>1. \A d \in Coros : pc'[d] = "parked" <=> pc[d] = "parked"
      OBVIOUS
    <3>2. \A d, e \in Coros :
            d # e => /\ wake'[d] = wake'[e] => wake'[d] = None
                     /\ tail_wake'[d] = tail_wake'[e] => tail_wake'[d] = None
      BY <1>5
    <3> QED BY <1>2, <2>2, <2>3, <3>1, <3>2 DEF MutexPart, MutexWaiters
  <2>8. TailWaits'
    <3>1. \A d \in Coros : d \notin unlocks'
      BY <1>1 DEF Given
    <3> QED BY <3>1 DEF TailWaits
  <2> QED BY <1>4, <1>5, <2>1, <2>2, <2>6, <2>7, <2>8 DEF MutexPart
<1>7. CASE wait_queue_ = <<>>
  <2>1. h = None /\ wait_queue_' = wait_queue_ /\ lock_' = FALSE
    BY <1>7 DEF HandOver
  <2>2. \A d \in Coros : wake'[d] = None /\ tail_wake'[d] = None
    BY <1>3, <2>1 DEF CvTypeOK
  <2>3. \A d \in Coros : ~Popped(d)' /\ ~TailPopped(d)' /\ ~Chosen(d)'
    BY <2>2 DEF Popped, TailPopped, Chosen
  <2>4. \A d \in Coros : ~Given(d)'
    <3>1. \A d \in Coros :
            pc'[d] \notin {"granted", "locked"} /\ d \notin unlocks'
      BY <1>1 DEF Given, Holds
    <3> QED BY <2>3, <3>1 DEF Given, Holds
  <2>5. GivenOnce' /\ GivenLocked' /\ TailWaits'
    BY <2>4 DEF GivenOnce, GivenLocked, TailWaits, Given
  <2>6. MutexWaiters'
    BY <1>2, <2>1, <2>2, <2>3 DEF MutexPart, MutexWaiters
  <2> QED BY <1>5, <2>1, <2>5, <2>6 DEF MutexPart, CvTypeOK
<1> QED BY <1>6, <1>7

(* ~LockGuard and guard.unlock() (AsyncMutex::LockGuard). *)
LEMMA CvUnlockInv ==
  ASSUME CvInv, NEW c \in Coros, NEW p \in {"destroying", "unlocking"},
         NEW after \in {"idle", "released"}, Unlock(c, p, after),
         UNCHANGED cvVars
  PROVE  CvInv'
<1>1. /\ cv_queue' = cv_queue /\ unlocks' = unlocks /\ tail_wake' = tail_wake
      /\ notified' = notified /\ alone' = alone /\ clears' = clears
      /\ owns_lock_' = owns_lock_ /\ pc[c] = "locked"
  BY DEF cvVars, tailVars, Unlock
<1>2. Given(c) /\ ~Chosen(c) /\ c \notin unlocks
  BY <1>1 DEF CvInv, MutexPart, MutexWaiters, TailWaits, Given, Holds
<1>3. PICK q \in {p, after} : pc' = [pc EXCEPT ![c] = q]
  BY DEF Unlock, Goto
<1>4. q = after => ~owns_lock_[c] \/ after = p
  BY <1>3 DEF Unlock, Goto, CvInv, CvTypeOK
<1>5. \A d \in Coros : pc'[d] = IF d = c THEN q ELSE pc[d]
  BY <1>3 DEF CvInv, CvTypeOK
<1>6. CvWaiterOwnedOnce'
  BY <1>1, <1>5, WaitersQuiet DEF CvInv
<1>7. AlonePart'
  BY <1>1, <1>4, <1>5 DEF CvInv, AlonePart, GuardOwns, InTail
<1>8. pc' \in [Coros -> CvPCs]
  BY <1>3 DEF CvInv, CvTypeOK, CvPCs, MutexPCs
<1>9. CASE owns_lock_[c]
  <2>1. PICK h \in Coros \cup {None} :
          HandOver(h) /\ wake' = [wake EXCEPT ![c] = h]
    BY <1>9 DEF Unlock
  <2>2. /\ MutexPart' /\ wait_queue_' \in Seq(Coros) /\ lock_' \in BOOLEAN
        /\ wake' \in [Coros -> Coros \cup {None}]
    BY <1>1, <1>2, <1>5, <2>1, CvHandOver DEF CvInv
  <2>3. CvTypeOK'
    BY <1>1, <1>8, <2>2 DEF CvInv, CvTypeOK
  <2> QED BY <1>6, <1>7, <2>2, <2>3 DEF CvInv
<1>10. CASE ~owns_lock_[c]
  <2>1. lock_' = lock_ /\ wait_queue_' = wait_queue_ /\ wake' = wake
    BY <1>10 DEF Unlock
  <2>2. CvTypeOK'
    BY <1>1, <1>8, <2>1 DEF CvInv, CvTypeOK
  <2>3. MutexPart'
    BY <1>1, <1>2, <1>5, <1>8, <2>1, MutexQuiet DEF CvInv, CvTypeOK
  <2> QED BY <1>6, <1>7, <2>2, <2>3 DEF CvInv
<1> QED BY <1>9, <1>10

(* guard_->unlock() inside a wait (Awaiter::await_suspend). *)
LEMMA TailUnlockInv ==
  ASSUME CvInv, NEW c \in Coros, TailUnlock(c)
  PROVE  CvInv'
<1>1. /\ cv_queue' = cv_queue /\ notified' = notified
      /\ alone' = alone /\ owns_lock_' = owns_lock_ /\ pc' = pc
      /\ wake' = wake /\ c \in unlocks /\ unlocks' = unlocks \ {c}
  BY DEF TailUnlock
<1>2. /\ Given(c) /\ ~Chosen(c)
      /\ pc[c] \in {"cvParked", "cvResumed", "parked"}
  BY <1>1 DEF CvInv, MutexPart, TailWaits, Given
<1>3. /\ clears' \in [Coros -> Nat]
      /\ \A d \in Coros \ {c} : clears'[d] = clears[d]
  <2>1. clears' = clears \/ clears' = [clears EXCEPT ![c] = @ + 1]
    BY DEF TailUnlock, ClearLater
  <2>2. clears \in [Coros -> Nat]
    BY DEF CvInv, CvTypeOK
  <2> QED BY <2>1, <2>2
<1>4. unlocks' \subseteq Coros /\ c \notin unlocks'
      /\ \A d \in Coros \ {c} : d \in unlocks' <=> d \in unlocks
  BY <1>1 DEF CvInv, CvTypeOK
<1>5. CvWaiterOwnedOnce'
  BY <1>1, WaitersQuiet DEF CvInv
<1>6. AlonePart'
  <2>1. alone => pc[c] = "cvParked" /\ \A n \in Notifiers : notified[n] = <<>>
    BY <1>1 DEF CvInv, AlonePart, InTail
  <2>2. \A d \in Coros \ {c} : InTail(d)' <=> InTail(d)
    BY <1>1 DEF InTail, TailUnlock, ClearLater, CvInv, CvTypeOK
  <2> QED BY <1>1, <2>1, <2>2 DEF CvInv, AlonePart, GuardOwns
<1>7. CASE owns_lock_[c]
  <2>1. PICK h \in Coros \cup {None} :
          HandOver(h) /\ tail_wake' = [tail_wake EXCEPT ![c] = h]
    BY <1>7 DEF TailUnlock
  <2>2. /\ MutexPart' /\ wait_queue_' \in Seq(Coros) /\ lock_' \in BOOLEAN
        /\ tail_wake' \in [Coros -> Coros \cup {None}]
    BY <1>1, <1>2, <1>4, <2>1, CvHandOver DEF CvInv
  <2>3. CvTypeOK'
    BY <1>1, <1>3, <1>4, <2>2 DEF CvInv, CvTypeOK
  <2> QED BY <1>5, <1>6, <2>2, <2>3 DEF CvInv
<1>8. CASE ~owns_lock_[c]
  <2>1. /\ lock_' = lock_ /\ wait_queue_' = wait_queue_
        /\ tail_wake' = tail_wake
    BY <1>8 DEF TailUnlock
  <2>2. CvTypeOK'
    BY <1>1, <1>3, <1>4, <2>1 DEF CvInv, CvTypeOK
  <2>3. \A d \in Coros : /\ Popped(d)' <=> Popped(d)
                         /\ TailPopped(d)' <=> TailPopped(d)
                         /\ Chosen(d)' <=> Chosen(d)
    BY <1>1, <2>1 DEF Popped, TailPopped, Chosen
  <2>4. \A d \in Coros : Given(d)' => Given(d)
    BY <1>1, <1>4, <2>3 DEF Given, Holds
  <2>5. MutexPart'
    BY <1>1, <1>4, <2>1, <2>3, <2>4 DEF CvInv, MutexPart, GivenOnce,
         GivenLocked, MutexWaiters, TailWaits
  <2> QED BY <1>5, <1>6, <2>2, <2>5 DEF CvInv
<1> QED BY <1>7, <1>8

(* A chosen waiter is resumed: it was parked and now has the mutex         *)
(* (reschedule_or_resume, for either kind of unlock()).                    *)
LEMMA CvGrant ==
  ASSUME CvInv, NEW c \in Coros, NEW h \in Coros,
         \/ /\ wake[c] = h /\ wake' = [wake EXCEPT ![c] = None]
            /\ tail_wake' = tail_wake
         \/ /\ tail_wake[c] = h /\ tail_wake' = [tail_wake EXCEPT ![c] = None]
            /\ wake' = wake,
         pc' = [pc EXCEPT ![h] = "granted"],
         clears' \in [Coros -> Nat],
         \A d \in Coros : clears'[d] = clears[d] \/ (d = c /\ tail_wake[c] = h),
         UNCHANGED <<lock_, wait_queue_, owns_lock_, cv_queue, unlocks,
                     notified, alone>>
  PROVE  CvInv'
<1>1. Chosen(h) /\ Given(h)
  BY DEF Chosen, Popped, TailPopped, Given, Holds
<1>2. pc[h] = "parked" /\ h \notin Range(wait_queue_) /\ h \notin unlocks
  BY <1>1 DEF CvInv, MutexPart, MutexWaiters, TailWaits
<1>3. \A d \in Coros : pc'[d] = IF d = h THEN "granted" ELSE pc[d]
  BY DEF CvInv, CvTypeOK
<1>4. CvTypeOK'
  BY DEF CvInv, CvTypeOK, CvPCs, MutexPCs
<1>5. /\ \A d \in Coros : wake'[d] \in {wake[d], None}
      /\ \A d \in Coros : tail_wake'[d] \in {tail_wake[d], None}
      /\ \A d \in Coros : wake'[d] # h /\ tail_wake'[d] # h
  <2>1. ~(Popped(h) /\ TailPopped(h))
    BY DEF CvInv, MutexPart, MutexWaiters
  <2>2. \A d \in Coros \ {c} : /\ wake[c] = h => wake[d] # h
                               /\ tail_wake[c] = h => tail_wake[d] # h
    BY DEF CvInv, MutexPart, MutexWaiters
  <2> QED BY <2>1, <2>2 DEF CvInv, CvTypeOK, Popped, TailPopped
<1>6. \A d \in Coros : /\ Popped(d)' <=> Popped(d) /\ d # h
                       /\ TailPopped(d)' <=> TailPopped(d) /\ d # h
                       /\ Chosen(d)' <=> Chosen(d) /\ d # h
  <2>1. \A d \in Coros \ {h}, e \in Coros : /\ wake'[e] = d <=> wake[e] = d
                                            /\ tail_wake'[e] = d <=> tail_wake[e] = d
    BY DEF CvInv, CvTypeOK
  <2> QED BY <1>5, <2>1 DEF Popped, TailPopped, Chosen
<1>7. \A d \in Coros : Given(d)' => Given(d)
  BY <1>1, <1>3, <1>6 DEF Given, Holds
<1>8. GivenOnce' /\ GivenLocked'
  BY <1>7 DEF CvInv, MutexPart, GivenOnce, GivenLocked
<1>9. MutexWaiters'
  <2>1. \A d, e \in Coros :
          d # e => /\ wake'[d] = wake'[e] => wake'[d] = None
                   /\ tail_wake'[d] = tail_wake'[e] => tail_wake'[d] = None
    BY <1>5 DEF CvInv, MutexPart, MutexWaiters
  <2> QED BY <1>2, <1>3, <1>6, <2>1 DEF CvInv, MutexPart, MutexWaiters
<1>10. TailWaits'
  BY <1>2, <1>3, <1>6 DEF CvInv, MutexPart, TailWaits
<1>11. CvWaiterOwnedOnce'
  BY <1>2, <1>3, WaitersQuiet DEF CvInv
<1>12. AlonePart'
  <2>1. \A d \in Coros : InTail(d)' => InTail(d)
    BY <1>5 DEF InTail, CvInv, CvTypeOK
  <2> QED BY <1>2, <1>3, <2>1 DEF CvInv, AlonePart, GuardOwns
<1> QED BY <1>4, <1>8, <1>9, <1>10, <1>11, <1>12 DEF CvInv, MutexPart

(* await_resume of a chosen coroutine, the end of guard.unlock() and of    *)
(* ~LockGuard: c goes on with what it has of the mutex, and its flag tells *)
(* the truth.                                                              *)
LEMMA CvGoOnInv ==
  ASSUME CvInv, NEW c \in Coros, NEW p \in {"locked", "idle", "released"},
         pc[c] \in {"granted", "destroying", "unlocking", "released"},
         p = "locked" => pc[c] = "granted",
         pc' = [pc EXCEPT ![c] = p],
         NEW b \in BOOLEAN, owns_lock_' = [owns_lock_ EXCEPT ![c] = b],
         p = "locked" => b, p = "released" => ~b,
         UNCHANGED <<lock_, wait_queue_, wake>>, UNCHANGED cvVars
  PROVE  CvInv'
<1>1. /\ cv_queue' = cv_queue /\ unlocks' = unlocks /\ tail_wake' = tail_wake
      /\ notified' = notified /\ alone' = alone /\ clears' = clears
  BY DEF cvVars, tailVars
<1>2. \A d \in Coros : /\ pc'[d] = IF d = c THEN p ELSE pc[d]
                       /\ owns_lock_'[d] = IF d = c THEN b ELSE owns_lock_[d]
  BY DEF CvInv, CvTypeOK
<1>3. CvTypeOK'
  BY <1>1 DEF CvInv, CvTypeOK, CvPCs, MutexPCs
<1>4. c \notin unlocks
  BY DEF CvInv, MutexPart, TailWaits
<1>5. MutexPart'
  BY <1>1, <1>2, <1>3, <1>4, MutexQuiet DEF CvInv, CvTypeOK
<1>6. CvWaiterOwnedOnce'
  BY <1>1, <1>2, WaitersQuiet DEF CvInv
<1>7. AlonePart'
  BY <1>1, <1>2 DEF CvInv, AlonePart, GuardOwns, InTail
<1> QED BY <1>3, <1>5, <1>6, <1>7 DEF CvInv

(* The last store of a wait's guard.unlock().  Unless alone is set it may  *)
(* clear the flag of a guard that has the mutex again: the mutex part says *)
(* nothing of the flag.                                                    *)
LEMMA TailClearInv ==
  ASSUME CvInv, NEW c \in Coros, TailClear(c)
  PROVE  CvInv'
<1>1. /\ cv_queue' = cv_queue /\ tail_wake' = tail_wake /\ wake' = wake
      /\ notified' = notified /\ alone' = alone /\ pc' = pc
      /\ lock_' = lock_ /\ wait_queue_' = wait_queue_ /\ clears[c] > 0
      /\ unlocks' = unlocks /\ clears' = [clears EXCEPT ![c] = clears[c] - 1]
      /\ owns_lock_' = [owns_lock_ EXCEPT ![c] = FALSE]
  BY DEF TailClear
<1>2. \A d \in Coros :
        /\ clears'[d] = IF d = c THEN clears[c] - 1 ELSE clears[d]
        /\ owns_lock_'[d] = IF d = c THEN FALSE ELSE owns_lock_[d]
  BY <1>1 DEF CvInv, CvTypeOK
<1>3. CvTypeOK'
  BY <1>1 DEF CvInv, CvTypeOK
<1>4. \A d \in Coros : /\ Popped(d)' <=> Popped(d)
                       /\ TailPopped(d)' <=> TailPopped(d)
                       /\ Chosen(d)' <=> Chosen(d)
  BY <1>1 DEF Popped, TailPopped, Chosen
<1>5. \A d \in Coros : Given(d)' <=> Given(d)
  BY <1>1, <1>2, <1>4 DEF Given, Holds
<1>6. MutexPart'
  BY <1>1, <1>2, <1>4, <1>5 DEF CvInv, MutexPart, GivenOnce, GivenLocked,
       MutexWaiters, TailWaits
<1>7. CvWaiterOwnedOnce'
  BY <1>1, WaitersQuiet DEF CvInv
<1>8. AlonePart'
  BY <1>1, <1>2 DEF CvInv, AlonePart, GuardOwns, InTail
<1> QED BY <1>3, <1>6, <1>7, <1>8 DEF CvInv

(* Awaiter::await_suspend publishes the handle: the coroutine keeps the    *)
(* mutex until its unlock(), and nobody has popped it yet.                 *)
LEMMA CvWaitInv ==
  ASSUME CvInv, NEW c \in Coros, CvWait(c)
  PROVE  CvInv'
<1>1. /\ tail_wake' = tail_wake /\ wake' = wake /\ notified' = notified
      /\ alone' = alone /\ lock_' = lock_
      /\ wait_queue_' = wait_queue_ /\ owns_lock_' = owns_lock_
      /\ pc' = [pc EXCEPT ![c] = "cvParked"] /\ pc[c] = "locked"
      /\ unlocks' = unlocks \cup {c} /\ clears' = clears
      /\ cv_queue' = Append(cv_queue, c)
  BY DEF CvWait, Published, Goto
<1>2. \A d \in Coros : /\ pc'[d] = IF d = c THEN "cvParked" ELSE pc[d]
                       /\ d \in unlocks' <=> d = c \/ d \in unlocks
  BY <1>1 DEF CvInv, CvTypeOK
<1>3. c \notin Range(cv_queue) /\ NotifiedBy(c) = {}
  BY <1>1 DEF CvInv, CvWaiterOwnedOnce
<1>4. /\ cv_queue' \in Seq(Coros) /\ IsInjective(cv_queue')
      /\ Range(cv_queue') = Range(cv_queue) \cup {c}
  BY <1>1, <1>3, PushLemma DEF CvInv, CvTypeOK, CvWaiterOwnedOnce
<1>5. CvTypeOK'
  BY <1>1, <1>4 DEF CvInv, CvTypeOK, CvPCs
<1>6. MutexPart'
  BY <1>1, <1>2, <1>5, MutexQuiet DEF CvInv, CvTypeOK
<1>7. CvWaiterOwnedOnce'
  <2>1. \A d \in Coros : NotifiedBy(d)' = NotifiedBy(d)
    BY <1>1 DEF NotifiedBy
  <2> QED BY <1>1, <1>2, <1>3, <1>4, <2>1 DEF CvInv, CvWaiterOwnedOnce
<1>8. AlonePart'
  <2>1. alone => /\ \A d \in Coros : ~InTail(d)
                 /\ \A n \in Notifiers : notified[n] = <<>>
    BY DEF CvWait, Turn, InCall, CvInv, AlonePart, Notifiers
  <2> QED BY <1>1, <1>2, <2>1 DEF CvInv, AlonePart, GuardOwns, InTail
<1> QED BY <1>5, <1>6, <1>7, <1>8 DEF CvInv

(* notify_one and notify_all: c moves some first waiters from the queue to *)
(* its own hands, the rest stays queued.                                   *)
LEMMA NotifyInv ==
  ASSUME CvInv, NEW n \in Notifiers, notified[n] = <<>>,
         alone => n \in Coros /\ \A d \in Coros : ~InTail(d),
         NEW popped \in Seq(Coros),
         cv_queue' \in Seq(Coros),
         notified' = [notified EXCEPT ![n] = popped],
         IsInjective(popped), IsInjective(cv_queue'),
         Range(cv_queue) = Range(popped) \cup Range(cv_queue'),
         Range(popped) \cap Range(cv_queue') = {},
         UNCHANGED mutexVars, UNCHANGED tailVars, alone' = alone
  PROVE  CvInv'
<1>1. /\ wake' = wake /\ lock_' = lock_ /\ wait_queue_' = wait_queue_
      /\ owns_lock_' = owns_lock_ /\ pc' = pc /\ unlocks' = unlocks
      /\ tail_wake' = tail_wake /\ clears' = clears
  BY DEF mutexVars, tailVars
<1>2. \A m \in Notifiers : notified'[m] = IF m = n THEN popped ELSE notified[m]
  BY DEF CvInv, CvTypeOK
<1>3. CvTypeOK'
  BY <1>1 DEF CvInv, CvTypeOK
<1>4. MutexPart'
  <2>1. \A d \in Coros : /\ Popped(d)' <=> Popped(d)
                         /\ TailPopped(d)' <=> TailPopped(d)
                         /\ Chosen(d)' <=> Chosen(d)
    BY <1>1 DEF Popped, TailPopped, Chosen
  <2>2. \A d \in Coros : Given(d)' <=> Given(d)
    BY <1>1, <2>1 DEF Given, Holds
  <2> QED BY <1>1, <2>1, <2>2 DEF CvInv, MutexPart, GivenOnce, GivenLocked,
               MutexWaiters, TailWaits
<1>5. CvWaiterOwnedOnce'
  <2>1. \A d \in Coros : NotifiedBy(d)' = IF d \in Range(popped) THEN {n}
                                          ELSE NotifiedBy(d)
    <3>1. Range(<<>>) = {}
      BY EmptyQueueLemma
    <3>2. \A d \in Coros : d \in Range(popped) => NotifiedBy(d) = {}
      BY DEF CvInv, CvWaiterOwnedOnce
    <3> QED BY <1>2, <3>1, <3>2 DEF NotifiedBy
  <2>2. \A m \in Notifiers : IsInjective(notified'[m])
    BY <1>2 DEF CvInv, CvWaiterOwnedOnce
  <2>3. ASSUME NEW d \in Coros
        PROVE  /\ (pc'[d] = "cvParked")
                    <=> (d \in Range(cv_queue') \/ NotifiedBy(d)' # {})
               /\ d \in Range(cv_queue') => NotifiedBy(d)' = {}
               /\ \A e, f \in NotifiedBy(d)' : e = f
    BY <1>1, <2>1, <2>3 DEF CvInv, CvWaiterOwnedOnce
  <2> QED BY <2>2, <2>3 DEF CvWaiterOwnedOnce
<1>6. AlonePart'
  <2>1. \A d \in Coros : InTail(d)' <=> InTail(d)
    BY <1>1 DEF InTail
  <2> QED BY <1>1, <1>2, <2>1, OutsidersAssumption DEF CvInv, AlonePart,
            GuardOwns, Notifiers
<1> QED BY <1>3, <1>4, <1>5, <1>6 DEF CvInv

(* A popped waiter is resumed, once. *)
LEMMA CvRescheduleInv ==
  ASSUME CvInv, NEW n \in Notifiers, CvReschedule(n)
  PROVE  CvInv'
<1> DEFINE h == Head(notified[n])
<1>1. /\ tail_wake' = tail_wake /\ wake' = wake /\ unlocks' = unlocks
      /\ alone' = alone /\ lock_' = lock_ /\ clears' = clears
      /\ wait_queue_' = wait_queue_ /\ owns_lock_' = owns_lock_
      /\ cv_queue' = cv_queue /\ pc' = [pc EXCEPT ![h] = "cvResumed"]
      /\ notified[n] # <<>>
      /\ notified' = [notified EXCEPT ![n] = Tail(notified[n])]
  BY DEF CvReschedule, Goto, tailVars
<1>2. \A m \in Notifiers :
        notified'[m] = IF m = n THEN Tail(notified[n]) ELSE notified[m]
  BY <1>1 DEF CvInv, CvTypeOK
<1>3. /\ h \in Coros /\ notified'[n] \in Seq(Coros)
      /\ Range(notified[n]) = {h} \cup Range(notified'[n])
      /\ IsInjective(notified'[n]) /\ h \notin Range(notified'[n])
  <2>1. notified[n] \in Seq(Coros) /\ IsInjective(notified[n])
    BY DEF CvInv, CvTypeOK, CvWaiterOwnedOnce
  <2> QED BY <1>1, <1>2, <2>1, PopLemma
<1> HIDE DEF h
<1>4. n \in NotifiedBy(h)
  BY <1>3 DEF NotifiedBy
<1>5. pc[h] = "cvParked" /\ NotifiedBy(h) = {n} /\ h \notin Range(cv_queue)
  BY <1>3, <1>4 DEF CvInv, CvWaiterOwnedOnce, NotifiedBy
<1>6. \A d \in Coros : pc'[d] = IF d = h THEN "cvResumed" ELSE pc[d]
  BY <1>1, <1>3 DEF CvInv, CvTypeOK
<1>7. CvTypeOK'
  BY <1>1, <1>2, <1>3 DEF CvInv, CvTypeOK, CvPCs
<1>8. MutexPart'
  BY <1>1, <1>3, <1>5, <1>6, <1>7, MutexQuiet DEF CvInv, CvTypeOK, MutexPart,
       TailWaits
<1>9. CvWaiterOwnedOnce'
  <2>1. \A d \in Coros : NotifiedBy(d)' = IF d = h THEN {} ELSE NotifiedBy(d)
    BY <1>2, <1>3, <1>5 DEF NotifiedBy
  <2> QED BY <1>1, <1>2, <1>3, <1>5, <1>6, <2>1 DEF CvInv, CvWaiterOwnedOnce
<1>10. AlonePart'
  <2>1. alone => n \in Coros /\ \A d \in Coros : ~InTail(d)
    BY <1>1 DEF CvInv, AlonePart, Notifiers
  <2> QED BY <1>1, <1>2, <1>6, <2>1, OutsidersAssumption DEF CvInv, AlonePart,
             GuardOwns, InTail
<1> QED BY <1>7, <1>8, <1>9, <1>10 DEF CvInv

(* The steps of AsyncMutex, from a coroutine whose turn it is. *)
LEMMA CvMutexCallInv ==
  ASSUME CvInv, NEW c \in Coros, MutexCall(c)
  PROVE  CvInv'
<1>1. UNCHANGED cvVars
  BY DEF MutexCall
<1>2. CASE Lock(c) \/ Relock(c)
  BY <1>1, <1>2, CvTakeInv DEF MutexCall, Turn, Lock, Relock
<1>3. CASE Granted(c)
  BY <1>1, <1>3, CvGoOnInv DEF Granted, Goto
<1>4. CASE DestroyGuard(c) \/ UnlockGuard(c)
  BY <1>1, <1>4, CvUnlockInv DEF DestroyGuard, UnlockGuard
<1>5. CASE Reschedule(c)
  <2>1. PICK h \in Coros : wake[c] = h
    BY <1>5 DEF Reschedule, CvInv, CvTypeOK
  <2>2. /\ wake' = [wake EXCEPT ![c] = None] /\ pc' = [pc EXCEPT ![h] = "granted"]
        /\ lock_' = lock_ /\ wait_queue_' = wait_queue_
        /\ owns_lock_' = owns_lock_
    BY <1>5, <2>1 DEF Reschedule
  <2>3. /\ cv_queue' = cv_queue /\ unlocks' = unlocks /\ clears' = clears
        /\ tail_wake' = tail_wake /\ notified' = notified /\ alone' = alone
    BY <1>1 DEF cvVars, tailVars
  <2>4. /\ clears' \in [Coros -> Nat]
        /\ \A d \in Coros : clears'[d] = clears[d] \/ (d = c /\ tail_wake[c] = h)
    BY <2>3 DEF CvInv, CvTypeOK
  <2> QED BY <2>1, <2>2, <2>3, <2>4, CvGrant
<1>6. CASE Leave(c)
  BY <1>1, <1>6, CvGoOnInv DEF Leave, Goto
<1>7. CASE DropGuard(c)
  <2>1. owns_lock_' = [owns_lock_ EXCEPT ![c] = owns_lock_[c]]
        /\ owns_lock_[c] \in BOOLEAN
    BY <1>7 DEF DropGuard, CvInv, CvTypeOK
  <2> QED BY <1>1, <1>7, <2>1, CvGoOnInv DEF DropGuard, Goto
<1> QED BY <1>2, <1>3, <1>4, <1>5, <1>6, <1>7 DEF MutexCall, Step

(* A coroutine that calls wait() has finished all of its earlier waits but *)
(* for late stores of owns_lock_ (Awaiter::await_suspend): one slot for    *)
(* the rest of an await_suspend and a count of late stores are enough.     *)
LEMMA OneTail ==
  ASSUME CvInv, NEW c \in Coros, pc[c] = "locked"
  PROVE  c \notin unlocks /\ tail_wake[c] = None
<1>1. c \notin unlocks /\ ~Chosen(c) /\ Given(c)
  BY DEF CvInv, MutexPart, MutexWaiters, TailWaits, Given, Holds
<1>2. ASSUME NEW h \in Coros, tail_wake[c] = h PROVE FALSE
  <2>1. Given(h) /\ Chosen(h)
    BY <1>2 DEF Given, TailPopped, Chosen
  <2>2. h = c
    BY <1>1, <2>1 DEF CvInv, MutexPart, GivenOnce
  <2> QED BY <1>1, <2>1, <2>2
<1> QED BY <1>1, <1>2 DEF CvInv, CvTypeOK

(* Every step of every coroutine. *)
LEMMA CvStepInv == CvInv /\ [Next]_vars => CvInv'
<1>1. CASE UNCHANGED vars
  <2>1. /\ cv_queue' = cv_queue /\ tail_wake' = tail_wake /\ wake' = wake
        /\ notified' = notified /\ alone' = alone /\ clears' = clears /\ pc' = pc
        /\ lock_' = lock_ /\ wait_queue_' = wait_queue_ /\ unlocks' = unlocks
        /\ owns_lock_' = owns_lock_ /\ clears' = clears
    BY <1>1 DEF vars, mutexVars, cvVars, tailVars
  <2> QED BY <2>1 DEF CvInv, CvTypeOK, MutexPart, GivenOnce, GivenLocked,
            MutexWaiters, TailWaits, AlonePart, GuardOwns, InTail,
            CvWaiterOwnedOnce, NotifiedBy, Given, Holds, Chosen, Popped,
            TailPopped
<1>2. ASSUME CvInv, NEW c \in Coros, TailReschedule(c) PROVE CvInv'
  <2>1. tail_wake[c] \in Coros
    BY <1>2 DEF TailReschedule, CvInv, CvTypeOK
  <2>2. /\ clears' \in [Coros -> Nat]
        /\ \A d \in Coros \ {c} : clears'[d] = clears[d]
    <3>1. clears' = [clears EXCEPT ![c] = @ + 1]
      BY <1>2 DEF TailReschedule, ClearLater
    <3>2. clears \in [Coros -> Nat]
      BY <1>2 DEF CvInv, CvTypeOK
    <3> QED BY <3>1, <3>2
  <2> QED BY <1>2, <2>1, <2>2, CvGrant DEF TailReschedule
<1>3. ASSUME CvInv, NEW c \in Coros, CvRelock(c) PROVE CvInv'
  BY <1>3, CvTakeInv DEF CvRelock, Turn
<1>4. ASSUME CvInv, NEW c \in Coros, SetReady(c) PROVE CvInv'
  <2>1. notified' = [notified EXCEPT ![c] = <<>>] /\ cv_queue' = cv_queue
    BY <1>4 DEF SetReady, Turn, CvInv, CvTypeOK, Notifiers
  <2>2. <<>> \in Seq(Coros) /\ Range(<<>>) = {} /\ IsInjective(<<>>)
    BY EmptyQueueLemma
  <2>3. cv_queue \in Seq(Coros) /\ IsInjective(cv_queue)
    BY <1>4 DEF CvInv, CvTypeOK, CvWaiterOwnedOnce
  <2>4. /\ UNCHANGED mutexVars /\ UNCHANGED tailVars /\ alone' = alone
        /\ notified[c] = <<>> /\ c \in Notifiers
        /\ alone => c \in Coros /\ \A d \in Coros : ~InTail(d)
    BY <1>4 DEF SetReady, Turn, Notifiers
  <2> QED BY <1>4, <2>1, <2>2, <2>3, <2>4, NotifyInv
<1>5. ASSUME CvInv, NEW n \in Notifiers, NotifyOne(n) PROVE CvInv'
  <2> DEFINE h == Head(cv_queue)
  <2>1. cv_queue \in Seq(Coros) /\ IsInjective(cv_queue) /\ cv_queue # <<>>
    BY <1>5 DEF NotifyOne, CvInv, CvTypeOK, CvWaiterOwnedOnce
  <2>2. /\ h \in Coros /\ cv_queue' \in Seq(Coros)
        /\ Range(cv_queue) = {h} \cup Range(cv_queue')
        /\ IsInjective(cv_queue') /\ h \notin Range(cv_queue')
    BY <1>5, <2>1, PopLemma DEF NotifyOne
  <2>3. /\ notified' = [notified EXCEPT ![n] = <<h>>]
        /\ UNCHANGED mutexVars /\ UNCHANGED tailVars /\ alone' = alone
        /\ notified[n] = <<>>
        /\ alone => n \in Coros /\ \A d \in Coros : ~InTail(d)
    BY <1>5 DEF NotifyOne, Awake, Turn
  <2> HIDE DEF h
  <2>4. <<h>> \in Seq(Coros) /\ Range(<<h>>) = {h} /\ IsInjective(<<h>>)
    BY <2>2 DEF Range, IsInjective
  <2> QED BY <1>5, <2>2, <2>3, <2>4, NotifyInv
<1>6. ASSUME CvInv, NEW n \in Notifiers, NotifyAll(n) PROVE CvInv'
  <2>1. /\ notified' = [notified EXCEPT ![n] = cv_queue] /\ cv_queue' = <<>>
        /\ UNCHANGED mutexVars /\ UNCHANGED tailVars /\ alone' = alone
        /\ notified[n] = <<>>
        /\ alone => n \in Coros /\ \A d \in Coros : ~InTail(d)
    BY <1>6 DEF NotifyAll, Awake, Turn
  <2>2. <<>> \in Seq(Coros) /\ Range(<<>>) = {} /\ IsInjective(<<>>)
    BY EmptyQueueLemma
  <2>3. cv_queue \in Seq(Coros) /\ IsInjective(cv_queue)
    BY <1>6 DEF CvInv, CvTypeOK, CvWaiterOwnedOnce
  <2> QED BY <1>6, <2>1, <2>2, <2>3, NotifyInv
<1> QED BY <1>1, <1>2, <1>3, <1>4, <1>5, <1>6, CvMutexCallInv, CvWaitInv,
           TailUnlockInv, TailClearInv, CvRescheduleInv DEF Next, TailStep
----------------------------------------------------------------------------
(* At every moment at most one coroutine has the mutex, for any number of  *)
(* coroutines and of workers, whatever waits and notifies come in between  *)
(* (the guard of wait() and the relock() that follows it).                 *)
THEOREM CvExclusive == Spec => []CvMutualExclusion
<1>1. CvInv => CvMutualExclusion
  BY DEF CvInv, MutexPart, GivenOnce, Given, CvMutualExclusion, CvHolds,
       TailPopped
<1> QED BY <1>1, CvInitInv, CvStepInv, PTL DEF Spec

(* A suspended waiter's handle is in wait_queue_ or with one notify, once: *)
(* notify_one and notify_all resume nobody twice and forget nobody.        *)
THEOREM CvWaiterKept == Spec => []CvWaiterOwnedOnce
<1>1. CvInv => CvWaiterOwnedOnce
  BY DEF CvInv
<1> QED BY <1>1, CvInitInv, CvStepInv, PTL DEF Spec

(* With a single worker and no thread outside the runtime that notifies,   *)
(* wait() returns owning the mutex: the store of owns_lock_ = false that   *)
(* ends its unlock() precedes every relock().                              *)
THEOREM CvAloneOwns == Spec => []AloneReturnsOwning
<1>1. CvInv => AloneReturnsOwning
  BY DEF CvInv, AlonePart, AloneReturnsOwning, WaitReturnsOwning
<1> QED BY <1>1, CvInitInv, CvStepInv, PTL DEF Spec
=============================================================================
