-------------------------- MODULE MCPooledStorage ---------------------------
(* A small instance of the storage facade on its pool for TLC. *)
EXTENDS PooledStorage
=============================================================================
