------------------------------ MODULE FifoLock ------------------------------
(***************************************************************************)
(* What an AsyncMutex promises: one owner at a time, and the lock goes     *)
(* from owner to owner in the order of arrival, never free while somebody  *)
(* waits and never taken by a newcomer from those who wait.                *)
(***************************************************************************)
EXTENDS Sequences

CONSTANTS Coros

VARIABLES owners, waiting

Init == owners = {} /\ waiting = <<>>

Acquire(c) ==
  /\ owners = {} /\ waiting = <<>>
  /\ owners' = {c}
  /\ UNCHANGED waiting

Await(c) ==
  /\ owners # {}
  /\ waiting' = Append(waiting, c)
  /\ UNCHANGED owners

Release ==
  /\ owners # {}
  /\ \/ waiting = <<>> /\ owners' = {} /\ UNCHANGED waiting
     \/ /\ waiting # <<>>
        /\ owners' = {Head(waiting)} /\ waiting' = Tail(waiting)

Next == Release \/ \E c \in Coros : Acquire(c) \/ Await(c)

Spec == Init /\ [][Next]_<<owners, waiting>>
=============================================================================
