----------------------------- MODULE MCScheduler -----------------------------
(* Scheduler for two jobs: "sync" runs before "board" at startup. *)
EXTENDS Scheduler, TLC

CONSTANTS syncJob, boardJob

MCOrder == <<syncJob, boardJob>>

MCShortOrder == <<syncJob>>

SlotSymmetry == Permutations(Execs) \cup Permutations(Ids)
=============================================================================
