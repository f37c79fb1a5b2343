---------------------------- MODULE MCManagedAuth ----------------------------
(* Small instances of ManagedAuth for TLC. *)
EXTENDS ManagedAuth, TLC

Symmetry == Permutations(Ops) \cup Permutations(Procs)
=============================================================================
