---------------------------- MODULE MCAtomicStore ----------------------------
(* Finite instances of AtomicStore for TLC. *)
EXTENDS AtomicStore, TLC

Symmetry == Permutations(Txn) \cup Permutations(Resource)
==============================================================================
