----------------------------- MODULE WaitGroup -----------------------------
(***************************************************************************)
(* tiny_coroutine::WaitGroup (include/wait_group.h).  await_ready reads    *)
(* count_ without mtx, so the decrement to zero and the draining of        *)
(* wait_queue_, both under mtx, are two steps: the new count can be seen   *)
(* in between, nothing else can be done.  Whatever else happens under mtx  *)
(* is one step.  The drained handles are rescheduled after the unlock.     *)
(*                                                                         *)
(* done() at zero throws and changes nothing; it is no step.               *)
(***************************************************************************)
EXTENDS Integers, Sequences, Functions

CONSTANTS
  Coros, None,
  Deltas,      \* the arguments of add()
  MaxCount     \* bound: no add() beyond it

ASSUME NoneAssumption == None \notin Coros
ASSUME DeltasAssumption == Deltas \subseteq Nat \ {0}
ASSUME MaxCountAssumption == MaxCount \in Nat

VARIABLES
  count_, wait_queue_,  \* WaitGroup
  mtx,                  \* who holds mtx across two steps, or None
  pc,                   \* where each coroutine is
  wake                  \* handles a done() has drained and not rescheduled

wgVars == <<count_, wait_queue_, mtx, pc, wake>>

WgInit ==
  /\ count_ = 0 /\ wait_queue_ = <<>> /\ mtx = None
  /\ pc = [c \in Coros |-> "idle"]
  /\ wake = [c \in Coros |-> <<>>]

Goto(c, p) == pc' = [pc EXCEPT ![c] = p]
----------------------------------------------------------------------------
Add(c, n) ==
  /\ pc[c] = "idle" /\ mtx = None
  /\ count_' = count_ + n
  /\ UNCHANGED <<wait_queue_, mtx, pc, wake>>

(* done(), up to the decrement; above zero it is over then. *)
Done(c) ==
  /\ pc[c] = "idle" /\ mtx = None /\ count_ # 0
  /\ count_' = count_ - 1
  /\ \/ /\ count_ = 1
        /\ mtx' = c /\ Goto(c, "drain")
     \/ count_ # 1 /\ UNCHANGED <<mtx, pc>>
  /\ UNCHANGED <<wait_queue_, wake>>

(* Mutants of Drain: one waiter only is taken; they are not removed. *)
DrainOne(c) ==
  /\ pc[c] = "drain"
  /\ \/ wait_queue_ = <<>> /\ UNCHANGED <<wait_queue_, wake>>
     \/ /\ wait_queue_ # <<>>
        /\ wake' = [wake EXCEPT ![c] = <<Head(wait_queue_)>>]
        /\ wait_queue_' = Tail(wait_queue_)
  /\ mtx' = None
  /\ Goto(c, "waking")
  /\ UNCHANGED count_
DrainKeeps(c) ==
  /\ pc[c] = "drain"
  /\ wake' = [wake EXCEPT ![c] = wait_queue_]
  /\ mtx' = None
  /\ Goto(c, "waking")
  /\ UNCHANGED <<count_, wait_queue_>>

(* The rest of done() under mtx, and its unlock. *)
Drain(c) ==
  /\ pc[c] = "drain"
  /\ wake' = [wake EXCEPT ![c] = wait_queue_]
  /\ wait_queue_' = <<>>
  /\ mtx' = None
  /\ Goto(c, "waking")
  /\ UNCHANGED count_

(* The next drained handle goes to reschedule_or_resume. *)
Reschedule(c) ==
  /\ pc[c] = "waking" /\ wake[c] # <<>>
  /\ pc' = [pc EXCEPT ![Head(wake[c])] = "resumed"]
  /\ wake' = [wake EXCEPT ![c] = Tail(@)]
  /\ UNCHANGED <<count_, wait_queue_, mtx>>

DoneReturn(c) ==
  /\ pc[c] = "waking" /\ wake[c] = <<>>
  /\ Goto(c, "idle")
  /\ UNCHANGED <<count_, wait_queue_, mtx, wake>>

(* co_await wait(): await_ready, without mtx.  At zero wait() returns. *)
WaitReady(c) ==
  /\ pc[c] = "idle"
  /\ \/ count_ = 0 /\ UNCHANGED pc
     \/ count_ # 0 /\ Goto(c, "suspending")
  /\ UNCHANGED <<count_, wait_queue_, mtx, wake>>

(* Mutant of WaitSuspend: the count is not read again under mtx. *)
WaitSuspendTrusts(c) ==
  /\ pc[c] = "suspending" /\ mtx = None
  /\ wait_queue_' = Append(wait_queue_, c)
  /\ Goto(c, "parked")
  /\ UNCHANGED <<count_, mtx, wake>>

(* await_suspend: the count may have reached zero since. *)
WaitSuspend(c) ==
  /\ pc[c] = "suspending" /\ mtx = None
  /\ \/ /\ count_ = 0
        /\ Goto(c, "idle")
        /\ UNCHANGED wait_queue_
     \/ /\ count_ # 0
        /\ wait_queue_' = Append(wait_queue_, c)
        /\ Goto(c, "parked")
  /\ UNCHANGED <<count_, mtx, wake>>

(* The coroutine runs again and wait() returns. *)
WaitReturn(c) ==
  /\ pc[c] = "resumed"
  /\ Goto(c, "idle")
  /\ UNCHANGED <<count_, wait_queue_, mtx, wake>>

Begin(c) ==
  \/ \E n \in Deltas : count_ + n <= MaxCount /\ Add(c, n)
  \/ Done(c) \/ WaitReady(c)
Continue(c) ==
  Drain(c) \/ Reschedule(c) \/ DoneReturn(c) \/ WaitSuspend(c) \/ WaitReturn(c)

WgNext == \E c \in Coros : Begin(c) \/ Continue(c)

WgSpec == WgInit /\ [][WgNext]_wgVars

(* A call that has begun goes on. *)
WgFairSpec == WgSpec /\ \A c \in Coros : WF_wgVars(Continue(c))
----------------------------------------------------------------------------
(* Properties *)

(* A parked coroutine's handle is in wait_queue_ or with one done() that   *)
(* drained it, once: it is resumed once and not forgotten.                 *)
Drained(c) == {d \in Coros : c \in Range(wake[d])}
WaiterHeldOnce ==
  /\ IsInjective(wait_queue_)
  /\ \A c \in Coros :
       /\ IsInjective(wake[c])
       /\ (pc[c] = "parked") <=> (c \in Range(wait_queue_) \/ Drained(c) # {})
       /\ c \in Range(wait_queue_) => Drained(c) = {}
       /\ \A d, e \in Drained(c) : d = e

(* WaitGroup implements Latch: the done() that takes count_ to zero lets   *)
(* go everybody who waits, even before it has drained the queue; nobody is *)
(* let go at another time, and nobody parks at zero, however await_ready,  *)
(* await_suspend and done() interleave.                                    *)
L == INSTANCE Latch WITH
       Waiters <- Coros, count <- count_,
       waiting <- IF mtx = None THEN Range(wait_queue_) ELSE {}
LatchSpec == L!Spec

(* Whoever is parked when the count reaches zero comes back from wait(). *)
WaitReturns ==
  \A c \in Coros : (pc[c] = "parked" /\ count_ = 0) ~> pc[c] = "idle"
=============================================================================
