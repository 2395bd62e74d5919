------------------------ MODULE MCConditionVariable ------------------------
(* Small instances of ConditionVariable for TLC. *)
EXTENDS ConditionVariable, TLC

CONSTANT c

(* a and b wait, also while a thread of an earlier wait of theirs is late; *)
(* c, where there is one, locks, changes the condition and notifies.       *)
TwoWait == [x \in Coros |-> IF x = c THEN 0 ELSE 2]
=============================================================================
