----------------------------- MODULE MCJobRunner -----------------------------
(* JobRunner for two overlapping runs. *)
EXTENDS JobRunner, TLC

RunSymmetry == Permutations(Runs)
=============================================================================
