------------------------------ MODULE MCStorage ------------------------------
(* Three threads on a pool of two connections, a failed connect. *)
EXTENDS Storage, TLC
ClientSymmetry == Permutations(Clients)
=============================================================================
