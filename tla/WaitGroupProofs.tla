-------------------------- MODULE WaitGroupProofs --------------------------
(***************************************************************************)
(* Proofs about WaitGroup for any set of coroutines, any counts and any    *)
(* number of rounds.  Nobody parks at zero because await_suspend reads     *)
(* count_ again under mtx; what makes that enough is that the count stays  *)
(* at zero while a done() is between its decrement and its drain, and that *)
(* the queue is empty whenever the count is zero and mtx is free.          *)
(***************************************************************************)
EXTENDS WaitGroup, QueueLemmas

USE NoneAssumption, DeltasAssumption, MaxCountAssumption

WgPCs == {"idle", "drain", "waking", "suspending", "parked", "resumed"}

WgTypeOK ==
  /\ count_ \in Nat /\ wait_queue_ \in Seq(Coros) /\ mtx \in Coros \cup {None}
  /\ pc \in [Coros -> WgPCs] /\ wake \in [Coros -> Seq(Coros)]

(* mtx is held over a step by the done() that has reached zero, and only   *)
(* by it.                                                                  *)
DrainLocked == \A c \in Coros : pc[c] = "drain" <=> mtx = c

(* Nobody waits at zero, but for those about to be drained. *)
NobodyWaitsAtZero ==
  IF mtx = None THEN count_ = 0 => wait_queue_ = <<>> ELSE count_ = 0

(* Drained handles are held by a done() under way. *)
WakeHeld == \A c \in Coros : wake[c] # <<>> => pc[c] = "waking"

WgInv ==
  /\ WgTypeOK /\ WaiterHeldOnce /\ DrainLocked /\ NobodyWaitsAtZero /\ WakeHeld

waiting == IF mtx = None THEN Range(wait_queue_) ELSE {}
----------------------------------------------------------------------------
(* A WaitGroup just constructed counts nothing and nobody waits. *)
LEMMA WgInitInv == WgInit => WgInv /\ L!Init
<1> SUFFICES ASSUME WgInit PROVE WgInv /\ L!Init
  OBVIOUS
<1>1. <<>> \in Seq(Coros) /\ Range(<<>>) = {} /\ IsInjective(<<>>)
  BY EmptyQueueLemma
<1>2. WgTypeOK
  BY <1>1 DEF WgInit, WgTypeOK, WgPCs
<1>3. WaiterHeldOnce
  BY <1>1 DEF WgInit, WaiterHeldOnce, Drained
<1>4. DrainLocked /\ NobodyWaitsAtZero /\ WakeHeld
  BY DEF WgInit, DrainLocked, NobodyWaitsAtZero, WakeHeld
<1>5. L!Init
  BY <1>1 DEF WgInit, L!Init
<1> QED BY <1>2, <1>3, <1>4, <1>5 DEF WgInv

(* A step in which no handle moves and nobody parks or is resumed keeps    *)
(* every handle where it is (all calls but await_suspend, the drain and    *)
(* reschedule_or_resume).                                                  *)
LEMMA HeldQuiet ==
  ASSUME WgTypeOK, WaiterHeldOnce, WakeHeld, NEW c \in Coros,
         UNCHANGED <<wait_queue_, wake>>, NEW p \in WgPCs \ {"parked"},
         pc[c] # "parked", pc' = [pc EXCEPT ![c] = p],
         wake[c] # <<>> => p = "waking"
  PROVE  WaiterHeldOnce' /\ WakeHeld' /\ pc' \in [Coros -> WgPCs]
<1>1. /\ pc' \in [Coros -> WgPCs]
      /\ \A d \in Coros : pc'[d] = "parked" <=> pc[d] = "parked"
  BY DEF WgTypeOK, WgPCs
<1>2. \A d \in Coros : Drained(d)' = Drained(d)
  BY DEF Drained
<1>3. WaiterHeldOnce'
  BY <1>1, <1>2 DEF WaiterHeldOnce
<1>4. WakeHeld'
  BY DEF WakeHeld, WgTypeOK
<1> QED BY <1>1, <1>3, <1>4

(* add(): the count grows, nobody is let go (WaitGroup::add). *)
LEMMA AddInv ==
  ASSUME WgInv, NEW c \in Coros, NEW n \in Deltas, Add(c, n)
  PROVE  WgInv' /\ L!Add
<1>1. /\ n \in Nat \ {0} /\ mtx = None /\ count_' = count_ + n
      /\ wait_queue_' = wait_queue_ /\ mtx' = mtx /\ pc' = pc /\ wake' = wake
  BY DEF Add
<1>2. WgTypeOK' /\ count_' > count_ /\ count_' # 0
  BY <1>1 DEF WgInv, WgTypeOK
<1>3. WaiterHeldOnce' /\ DrainLocked' /\ WakeHeld'
  BY <1>1 DEF WgInv, WaiterHeldOnce, Drained, DrainLocked, WakeHeld
<1>4. NobodyWaitsAtZero'
  BY <1>1, <1>2 DEF NobodyWaitsAtZero
<1>5. L!Add
  BY <1>1, <1>2 DEF L!Add
<1> QED BY <1>2, <1>3, <1>4, <1>5 DEF WgInv

(* The decrement of done(): at zero everybody who waits is let go, though  *)
(* the queue is drained later (WaitGroup::done).                           *)
LEMMA DoneInv ==
  ASSUME WgInv, NEW c \in Coros, Done(c)
  PROVE  WgInv' /\ L!Done
<1>1. /\ pc[c] = "idle" /\ mtx = None /\ count_ \in Nat \ {0}
      /\ count_' = count_ - 1
      /\ wait_queue_' = wait_queue_ /\ wake' = wake /\ wake[c] = <<>>
  BY DEF Done, WgInv, WgTypeOK, WakeHeld
<1>2. CASE count_ = 1
  <2>1. mtx' = c /\ pc' = [pc EXCEPT ![c] = "drain"] /\ count_' = 0
    BY <1>1, <1>2 DEF Done, Goto
  <2>2. WaiterHeldOnce' /\ WakeHeld' /\ pc' \in [Coros -> WgPCs]
    BY <1>1, <2>1, HeldQuiet DEF WgInv, WgPCs
  <2>3. WgTypeOK'
    BY <1>1, <2>1, <2>2 DEF WgInv, WgTypeOK
  <2>4. DrainLocked' /\ NobodyWaitsAtZero'
    BY <1>1, <2>1 DEF WgInv, WgTypeOK, DrainLocked, NobodyWaitsAtZero
  <2>5. L!Done
    BY <1>1, <2>1 DEF L!Done
  <2> QED BY <2>2, <2>3, <2>4, <2>5 DEF WgInv
<1>3. CASE count_ # 1
  <2>1. mtx' = mtx /\ pc' = pc /\ count_' \in Nat \ {0}
    BY <1>1, <1>3 DEF Done
  <2>2. WgTypeOK' /\ WaiterHeldOnce' /\ DrainLocked' /\ WakeHeld'
        /\ NobodyWaitsAtZero'
    BY <1>1, <2>1 DEF WgInv, WgTypeOK, WaiterHeldOnce, Drained, DrainLocked,
         WakeHeld, NobodyWaitsAtZero
  <2>3. L!Done
    BY <1>1, <2>1 DEF L!Done
  <2> QED BY <2>2, <2>3 DEF WgInv
<1> QED BY <1>2, <1>3

(* The drain moves every handle from the queue to the done() (the swap of  *)
(* wait_queue_ in WaitGroup::done).                                        *)
LEMMA DrainInv ==
  ASSUME WgInv, NEW c \in Coros, Drain(c)
  PROVE  WgInv' /\ UNCHANGED <<count_, waiting>>
<1>1. /\ pc[c] = "drain" /\ mtx = c /\ mtx' = None
      /\ wake' = [wake EXCEPT ![c] = wait_queue_] /\ wait_queue_' = <<>>
      /\ pc' = [pc EXCEPT ![c] = "waking"] /\ count_' = count_
      /\ wake[c] = <<>> /\ count_ = 0
  BY DEF Drain, Goto, WgInv, DrainLocked, WakeHeld, NobodyWaitsAtZero
<1>2. <<>> \in Seq(Coros) /\ Range(<<>>) = {} /\ IsInjective(<<>>)
  BY EmptyQueueLemma
<1>3. WgTypeOK'
  BY <1>1, <1>2 DEF WgInv, WgTypeOK, WgPCs
<1>4. \A d \in Coros :
        Drained(d)' = IF d \in Range(wait_queue_) THEN {c} ELSE Drained(d)
  <2> SUFFICES ASSUME NEW d \in Coros
               PROVE  Drained(d)' = IF d \in Range(wait_queue_)
                                    THEN {c} ELSE Drained(d)
    OBVIOUS
  <2>1. d \in Range(wait_queue_) => Drained(d) = {}
    BY DEF WgInv, WaiterHeldOnce
  <2>2. \A e \in Coros : d \in Range(wake'[e]) <=>
          IF e = c THEN d \in Range(wait_queue_) ELSE d \in Range(wake[e])
    BY <1>1 DEF WgInv, WgTypeOK
  <2>3. d \notin Range(wake[c])
    BY <1>1, <1>2
  <2> QED BY <2>1, <2>2, <2>3 DEF Drained
<1>5. WaiterHeldOnce'
  <2>1. \A d \in Coros : pc'[d] = "parked" <=> pc[d] = "parked"
    BY <1>1 DEF WgInv, WgTypeOK
  <2>2. \A d \in Coros : IsInjective(wake'[d])
    BY <1>1 DEF WgInv, WgTypeOK, WaiterHeldOnce
  <2> QED BY <1>1, <1>2, <1>4, <2>1, <2>2 DEF WgInv, WaiterHeldOnce
<1>6. DrainLocked' /\ NobodyWaitsAtZero' /\ WakeHeld'
  BY <1>1 DEF WgInv, WgTypeOK, DrainLocked, NobodyWaitsAtZero, WakeHeld
<1>7. waiting' = waiting
  BY <1>1, <1>2 DEF waiting
<1> QED BY <1>1, <1>3, <1>5, <1>6, <1>7 DEF WgInv

(* A drained handle is resumed once (reschedule_or_resume). *)
LEMMA RescheduleInv ==
  ASSUME WgInv, NEW c \in Coros, Reschedule(c)
  PROVE  WgInv' /\ UNCHANGED <<count_, waiting>>
<1> DEFINE h == Head(wake[c])
<1>1. /\ pc[c] = "waking" /\ wake[c] # <<>> /\ pc' = [pc EXCEPT ![h] = "resumed"]
      /\ wake' = [wake EXCEPT ![c] = Tail(wake[c])]
      /\ count_' = count_ /\ wait_queue_' = wait_queue_ /\ mtx' = mtx
  BY DEF Reschedule
<1>2. /\ h \in Coros /\ Tail(wake[c]) \in Seq(Coros)
      /\ Range(wake[c]) = {h} \cup Range(Tail(wake[c]))
      /\ IsInjective(Tail(wake[c])) /\ h \notin Range(Tail(wake[c]))
  BY <1>1, PopLemma DEF WgInv, WgTypeOK, WaiterHeldOnce
<1> HIDE DEF h
<1>3. c \in Drained(h)
  BY <1>2 DEF Drained
<1>4. pc[h] = "parked" /\ h \notin Range(wait_queue_) /\ Drained(h) = {c}
  BY <1>2, <1>3 DEF WgInv, WaiterHeldOnce
<1>5. /\ \A d \in Coros : pc'[d] = IF d = h THEN "resumed" ELSE pc[d]
      /\ \A d \in Coros : wake'[d] = IF d = c THEN Tail(wake[c]) ELSE wake[d]
  BY <1>1, <1>2 DEF WgInv, WgTypeOK
<1>6. WgTypeOK'
  BY <1>1, <1>2 DEF WgInv, WgTypeOK, WgPCs
<1>7. \A d \in Coros : Drained(d)' = IF d = h THEN {} ELSE Drained(d)
  BY <1>2, <1>4, <1>5 DEF Drained
<1>8. WaiterHeldOnce'
  BY <1>1, <1>2, <1>4, <1>5, <1>7 DEF WgInv, WaiterHeldOnce
<1>9. DrainLocked' /\ NobodyWaitsAtZero' /\ WakeHeld'
  BY <1>1, <1>4, <1>5 DEF WgInv, DrainLocked, NobodyWaitsAtZero, WakeHeld
<1>10. waiting' = waiting
  BY <1>1 DEF waiting
<1> QED BY <1>1, <1>6, <1>8, <1>9, <1>10 DEF WgInv

(* await_suspend: above zero the coroutine parks, and at zero, reached     *)
(* since await_ready, it does not.                                         *)
LEMMA WaitSuspendInv ==
  ASSUME WgInv, NEW c \in Coros, WaitSuspend(c)
  PROVE  WgInv' /\ (L!Wait(c) \/ UNCHANGED <<count_, waiting>>)
<1>1. /\ pc[c] = "suspending" /\ mtx = None /\ mtx' = mtx /\ count_' = count_
      /\ wake' = wake /\ wake[c] = <<>> /\ count_ \in Nat
  BY DEF WaitSuspend, WgInv, WgTypeOK, WakeHeld
<1>2. CASE count_ = 0
  <2>1. wait_queue_' = wait_queue_ /\ pc' = [pc EXCEPT ![c] = "idle"]
    BY <1>2 DEF WaitSuspend, Goto
  <2>2. WaiterHeldOnce' /\ WakeHeld' /\ pc' \in [Coros -> WgPCs]
    BY <1>1, <2>1, HeldQuiet DEF WgInv, WgPCs
  <2>3. WgTypeOK'
    BY <1>1, <2>1, <2>2 DEF WgInv, WgTypeOK
  <2>4. DrainLocked' /\ NobodyWaitsAtZero'
    BY <1>1, <2>1 DEF WgInv, WgTypeOK, DrainLocked, NobodyWaitsAtZero
  <2> QED BY <1>1, <2>1, <2>2, <2>3, <2>4 DEF WgInv, waiting
<1>3. CASE count_ # 0
  <2>1. wait_queue_' = Append(wait_queue_, c) /\ pc' = [pc EXCEPT ![c] = "parked"]
    BY <1>3 DEF WaitSuspend, Goto
  <2>2. c \notin Range(wait_queue_) /\ Drained(c) = {}
    BY <1>1 DEF WgInv, WaiterHeldOnce
  <2>3. /\ wait_queue_' \in Seq(Coros) /\ IsInjective(wait_queue_')
        /\ Range(wait_queue_') = Range(wait_queue_) \cup {c}
    BY <2>1, <2>2, PushLemma DEF WgInv, WgTypeOK, WaiterHeldOnce
  <2>4. \A d \in Coros : pc'[d] = IF d = c THEN "parked" ELSE pc[d]
    BY <2>1 DEF WgInv, WgTypeOK
  <2>5. \A d \in Coros : Drained(d)' = Drained(d)
    BY <1>1 DEF Drained
  <2>6. WgTypeOK'
    BY <1>1, <2>1, <2>3 DEF WgInv, WgTypeOK, WgPCs
  <2>7. WaiterHeldOnce'
    BY <1>1, <2>2, <2>3, <2>4, <2>5 DEF WgInv, WaiterHeldOnce
  <2>8. DrainLocked' /\ NobodyWaitsAtZero' /\ WakeHeld'
    BY <1>1, <1>3, <2>4 DEF WgInv, DrainLocked, NobodyWaitsAtZero, WakeHeld
  <2>9. L!Wait(c)
    BY <1>1, <1>3, <2>2, <2>3 DEF L!Wait
  <2> QED BY <2>6, <2>7, <2>8, <2>9 DEF WgInv
<1> QED BY <1>2, <1>3

(* The other steps move no handle (the return of done(), await_ready and   *)
(* await_resume).                                                          *)
LEMMA QuietInv ==
  ASSUME WgInv, NEW c \in Coros, DoneReturn(c) \/ WaitReady(c) \/ WaitReturn(c)
  PROVE  WgInv' /\ UNCHANGED <<count_, waiting>>
<1>1. /\ count_' = count_ /\ wait_queue_' = wait_queue_ /\ mtx' = mtx
      /\ wake' = wake
  BY DEF DoneReturn, WaitReady, WaitReturn
<1>2. PICK p \in {"idle", "suspending"} :
        pc' = [pc EXCEPT ![c] = p] /\ pc[c] \notin {"parked", "drain"}
        /\ wake[c] = <<>>
  <2>1. CASE DoneReturn(c)
    BY <2>1 DEF DoneReturn, Goto
  <2>2. CASE WaitReturn(c)
    BY <2>2 DEF WaitReturn, Goto, WgInv, WakeHeld
  <2>3. CASE WaitReady(c)
    <3>1. pc[c] = "idle" /\ wake[c] = <<>>
      BY <2>3 DEF WaitReady, WgInv, WakeHeld
    <3>2. CASE count_ = 0
      <4>1. pc' = [pc EXCEPT ![c] = "idle"]
        BY <2>3, <3>1, <3>2 DEF WaitReady, WgInv, WgTypeOK
      <4> QED BY <3>1, <4>1
    <3>3. CASE count_ # 0
      BY <2>3, <3>1, <3>3 DEF WaitReady, Goto
    <3> QED BY <3>2, <3>3
  <2> QED BY <2>1, <2>2, <2>3
<1>3. WaiterHeldOnce' /\ WakeHeld' /\ pc' \in [Coros -> WgPCs]
  BY <1>1, <1>2, HeldQuiet DEF WgInv, WgPCs
<1>4. WgTypeOK'
  BY <1>1, <1>3 DEF WgInv, WgTypeOK
<1>5. DrainLocked' /\ NobodyWaitsAtZero'
  BY <1>1, <1>2 DEF WgInv, WgTypeOK, DrainLocked, NobodyWaitsAtZero
<1> QED BY <1>1, <1>3, <1>4, <1>5 DEF WgInv, waiting

(* Every step keeps the invariant and is a step of Latch, or none. *)
LEMMA WgStep ==
  ASSUME WgInv, [WgNext]_wgVars
  PROVE  WgInv' /\ [L!Next]_<<count_, waiting>>
<1>1. CASE UNCHANGED wgVars
  BY <1>1 DEF wgVars, WgInv, WgTypeOK, WaiterHeldOnce, Drained, DrainLocked,
       NobodyWaitsAtZero, WakeHeld, waiting
<1>2. ASSUME NEW c \in Coros, Begin(c)
      PROVE  WgInv' /\ [L!Next]_<<count_, waiting>>
  BY <1>2, AddInv, DoneInv, QuietInv DEF Begin, L!Next
<1>3. ASSUME NEW c \in Coros, Continue(c)
      PROVE  WgInv' /\ [L!Next]_<<count_, waiting>>
  BY <1>3, DrainInv, RescheduleInv, QuietInv, WaitSuspendInv
     DEF Continue, L!Next
<1> QED BY <1>1, <1>2, <1>3 DEF WgNext
----------------------------------------------------------------------------
(* For any number of coroutines and rounds a parked coroutine's handle is  *)
(* in wait_queue_ or with one done(), once: WaitGroup::done resumes nobody *)
(* twice and forgets nobody.                                               *)
THEOREM WgWaiterHeldOnce == WgSpec => []WaiterHeldOnce
<1>1. WgInv => WaiterHeldOnce
  BY DEF WgInv
<1> QED BY <1>1, WgInitInv, WgStep, PTL DEF WgSpec

(* For any number of coroutines and rounds WaitGroup implements Latch: the *)
(* decrement to zero lets everybody go, nothing else lets anybody go, and  *)
(* nobody parks at zero.                                                   *)
THEOREM WgImplementsLatch == WgSpec => LatchSpec
<1>1. WgInv /\ [WgNext]_wgVars
        => [L!Next]_<<count_, IF mtx = None THEN Range(wait_queue_) ELSE {}>>
  BY WgStep DEF waiting
<1> QED BY <1>1, WgInitInv, WgStep, PTL DEF WgSpec, LatchSpec, L!Spec
=============================================================================
