-------------------------- MODULE MCEngineInstances --------------------------
(* Small instances of EngineInstances for TLC. *)
EXTENDS EngineInstances, TLC

Symmetry == Permutations(Procs) \union Permutations(Inodes)
=============================================================================
