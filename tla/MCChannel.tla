----------------------------- MODULE MCChannel -----------------------------
(* Small instances of Channel for TLC; the bounds are in the .cfg files. *)
EXTENDS Channel, TLC

Symmetry == Permutations(Callers)
=============================================================================
