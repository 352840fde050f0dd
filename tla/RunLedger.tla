------------------------------ MODULE RunLedger ------------------------------
(***************************************************************************)
(* What the table worker_job_runs promises to whoever reads it: a run is   *)
(* opened once, as "running"; it is closed at most once, with the status   *)
(* the run ended in; and a closed row never changes again.  JobRunner      *)
(* implements this module.                                                 *)
(***************************************************************************)
CONSTANTS Runs

VARIABLES row        \* row[r]: the status stored for run r, "none" before it

FinalStatuses == {"success", "failed", "skipped"}

LedgerInit == row = [r \in Runs |-> "none"]

Open(r) ==
  /\ row[r] = "none"
  /\ row' = [row EXCEPT ![r] = "running"]

Close(r, status) ==
  /\ row[r] = "running"
  /\ row' = [row EXCEPT ![r] = status]

LedgerNext ==
  \E r \in Runs :
    \/ Open(r)
    \/ \E status \in FinalStatuses : Close(r, status)

LedgerSpec == LedgerInit /\ [][LedgerNext]_row
=============================================================================
