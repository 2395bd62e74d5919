---------------------------- MODULE MCWaitGroup ----------------------------
(* Small instances of WaitGroup for TLC. *)
EXTENDS WaitGroup
=============================================================================
