------------------------------ MODULE MCWorker ------------------------------
(* Worker with the benchmark sync as its only job. *)
EXTENDS Worker

MCOrder == <<SyncJob>>
=============================================================================
