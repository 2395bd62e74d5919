---------------------------- MODULE MCScheduler ----------------------------
(* Small instances of Scheduler for TLC: who calls what. *)
EXTENDS Scheduler, TLC

CONSTANTS main, other

MainLoops == (main :> {"init", "submit", "loop"})
MainEndsOtherSubmits ==
  (main :> {"init", "loop", "stop"}) @@ (other :> {"submit"})
MainStopsOtherResumes ==
  (main :> {"init", "submit", "stop"}) @@ (other :> {"resume"})

Symmetry == Permutations(Tasks)
=============================================================================
