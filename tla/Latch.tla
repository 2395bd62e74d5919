------------------------------- MODULE Latch -------------------------------
(***************************************************************************)
(* What a WaitGroup promises: a counter and a set of waiters who are all   *)
(* let go by the very step that takes the counter to zero, and by nothing  *)
(* else.  Nobody begins to wait at zero.                                   *)
(***************************************************************************)
EXTENDS Integers

CONSTANT Waiters

VARIABLES count, waiting

Init == count = 0 /\ waiting = {}

Add == count' > count /\ UNCHANGED waiting

Done ==
  /\ count > 0
  /\ count' = count - 1
  /\ waiting' = IF count' = 0 THEN {} ELSE waiting

Wait(c) ==
  /\ count > 0 /\ c \notin waiting
  /\ waiting' = waiting \cup {c}
  /\ UNCHANGED count

Next == Add \/ Done \/ \E c \in Waiters : Wait(c)

Spec == Init /\ [][Next]_<<count, waiting>>
=============================================================================
