--------------------------- MODULE MCBenchmarkSync ---------------------------
(* BenchmarkSync for two valid contents and an invalid one. *)
EXTENDS BenchmarkSync, TLC

CONSTANTS good1, good2

SlotSymmetry == Permutations(Execs) \cup Permutations({good1, good2})
=============================================================================
