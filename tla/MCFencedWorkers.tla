--------------------------- MODULE MCFencedWorkers ---------------------------
(* Instances of FencedWorkers for TLC; workers and handlers are interchangeable. *)
EXTENDS FencedWorkers, TLC

Symmetry == Permutations(UUID) \cup Permutations(Handler)
==============================================================================
