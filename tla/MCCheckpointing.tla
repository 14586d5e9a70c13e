-------------------------- MODULE MCCheckpointing --------------------------
(* Checkpointing with the paths interchangeable: no definition tells them apart. *)
EXTENDS Checkpointing

PathSymmetry == Permutations(Paths)
=============================================================================
