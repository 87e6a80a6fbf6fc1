---------------------------- MODULE MCCoordinator ----------------------------
(* Finite instances of Coordinator for TLC. *)
EXTENDS Coordinator, TLC

Symmetry == Permutations(UUID) \cup Permutations(Resource) \cup Permutations(Handler)
==============================================================================
