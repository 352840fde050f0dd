------------------------------ MODULE JobRunner ------------------------------
(***************************************************************************)
(* Runner.Run and the run log it keeps in worker_job_runs.                 *)
(*                                                                         *)
(* A run r is one call of Runner.Run.  Its context may be cancelled (the   *)
(* job is removed from the scheduler, the worker shuts down) or, once the  *)
(* job works, reach WORKER_JOB_TIMEOUT.  Its two ledger statements and the *)
(* commit of the job's own transaction travel to Postgres, which applies   *)
(* or drops them on its own: the reply may be lost, and a statement may    *)
(* still be applied after the caller has given up or the process has died. *)
(*                                                                         *)
(* Left out: messages, details JSON, durations and logging.                *)
(***************************************************************************)
EXTENDS Naturals

CONSTANTS Runs       \* the calls of Runner.Run that are considered

VARIABLES
  pc,        \* where the call of Run stands
  ctx,       \* jobCtx (before StartRun has answered: its parent)
  finalize,  \* finalizeCtx, the 10s context of finishRun
  stmt,      \* the run's ledger statement in flight, or the answer to it
  row,       \* the run's row in worker_job_runs
  work,      \* the job's own transaction
  verdict,   \* the status Run settled on once the job had returned
  result     \* what Run returned

vars == <<pc, ctx, finalize, stmt, row, work, verdict, result>>

Active == {"starting", "working", "finishing"}

TypeOK ==
  /\ pc \in [Runs -> Active \cup {"idle", "returned", "crashed"}]
  /\ ctx \in [Runs -> {"live", "canceled", "deadline"}]
  /\ finalize \in [Runs -> {"live", "expired"}]
  /\ stmt \in [Runs -> {"none", "insert", "update", "ok", "error", "lost"}]
  /\ row \in [Runs -> {"none", "running", "success", "failed", "skipped"}]
  /\ work \in [Runs -> {"none", "sent", "applied", "rolledback"}]
  /\ verdict \in [Runs -> {"none", "success", "failed", "skipped"}]
  /\ result \in [Runs -> {"none", "nil", "error"}]

Init ==
  /\ pc = [r \in Runs |-> "idle"]
  /\ ctx = [r \in Runs |-> "live"]
  /\ finalize = [r \in Runs |-> "live"]
  /\ stmt = [r \in Runs |-> "none"]
  /\ row = [r \in Runs |-> "none"]
  /\ work = [r \in Runs |-> "none"]
  /\ verdict = [r \in Runs |-> "none"]
  /\ result = [r \in Runs |-> "none"]

-----------------------------------------------------------------------------
(* Run, up to the call of the job *)

\* StartRun sends the INSERT; on a cancelled context nothing is sent.
StartRun(r) ==
  /\ pc[r] = "idle"
  /\ \/ /\ ctx[r] = "live"
        /\ pc' = [pc EXCEPT ![r] = "starting"]
        /\ stmt' = [stmt EXCEPT ![r] = "insert"]
        /\ UNCHANGED result
     \/ /\ ctx[r] = "canceled"
        /\ pc' = [pc EXCEPT ![r] = "returned"]
        /\ result' = [result EXCEPT ![r] = "error"]
        /\ UNCHANGED stmt
  /\ UNCHANGED <<ctx, finalize, row, work, verdict>>

\* StartRun has the run's id: the job is called.
Started(r) ==
  /\ pc[r] = "starting"
  /\ stmt[r] = "ok"
  /\ pc' = [pc EXCEPT ![r] = "working"]
  /\ stmt' = [stmt EXCEPT ![r] = "none"]
  /\ UNCHANGED <<ctx, finalize, row, work, verdict, result>>

\* StartRun gives up: refused, cancelled, or the connection is lost, which it
\* cannot tell from an INSERT that was (or will be) applied.
StartFailed(r) ==
  /\ pc[r] = "starting"
  /\ pc' = [pc EXCEPT ![r] = "returned"]
  /\ result' = [result EXCEPT ![r] = "error"]
  /\ UNCHANGED <<ctx, finalize, stmt, row, work, verdict>>

-----------------------------------------------------------------------------
(* The job.  It commits one transaction and reports success only once the
   COMMIT is acknowledged; it may skip its work; it may fail at any point,
   also with the COMMIT in flight or applied. *)

SendCommit(r) ==
  /\ pc[r] = "working"
  /\ ctx[r] = "live"
  /\ work[r] = "none"
  /\ work' = [work EXCEPT ![r] = "sent"]
  /\ UNCHANGED <<pc, ctx, finalize, stmt, row, verdict, result>>

\* The job has returned: Run settles the status and calls finishRun.
JobReturns(r, status) ==
  /\ pc[r] = "working"
  /\ verdict' = [verdict EXCEPT ![r] = status]
  /\ pc' = [pc EXCEPT ![r] = "finishing"]
  /\ stmt' = [stmt EXCEPT ![r] = "update"]
  /\ UNCHANGED <<ctx, finalize, row, work, result>>

\* Variant: success is reported before the COMMIT is acknowledged.
JobSucceedsUnconfirmed(r) == work[r] # "none" /\ JobReturns(r, "success")

JobSucceeds(r) == work[r] = "applied" /\ JobReturns(r, "success")

\* Variant: the status of the job's result is stored as it is.
JobSkipsVerbatim(r) == work[r] = "none" /\ JobReturns(r, "unchanged")

JobSkips(r) == work[r] = "none" /\ JobReturns(r, "skipped")

JobFails(r) == JobReturns(r, "failed")

-----------------------------------------------------------------------------
(* finishRun: its context drops the cancellation of ctx and adds 10s *)

\* Run returns nil only for a success or a skip.
Finished(r) ==
  /\ pc[r] = "finishing"
  /\ stmt[r] = "ok"
  /\ pc' = [pc EXCEPT ![r] = "returned"]
  /\ result' = [result EXCEPT ![r] =
                  IF verdict[r] = "failed" THEN "error" ELSE "nil"]
  /\ UNCHANGED <<ctx, finalize, stmt, row, work, verdict>>

\* Variant: finishRun keeps the cancellation of the run's context.
FinishGivesUpOnCancel(r) ==
  finalize[r] = "expired" \/ stmt[r] \in {"error", "lost"} \/ ctx[r] = "canceled"

\* When finishRun may return without having seen the UPDATE succeed.
FinishGivesUp(r) == finalize[r] = "expired" \/ stmt[r] \in {"error", "lost"}

\* Variant: the error of finishRun is logged, not returned, on both paths.
FinishErrorIgnored(r) ==
  /\ pc[r] = "finishing"
  /\ FinishGivesUp(r)
  /\ pc' = [pc EXCEPT ![r] = "returned"]
  /\ result' = [result EXCEPT ![r] =
                  IF verdict[r] = "failed" THEN "error" ELSE "nil"]
  /\ UNCHANGED <<ctx, finalize, stmt, row, work, verdict>>

FinishFailed(r) ==
  /\ pc[r] = "finishing"
  /\ FinishGivesUp(r)
  /\ pc' = [pc EXCEPT ![r] = "returned"]
  /\ result' = [result EXCEPT ![r] = "error"]
  /\ UNCHANGED <<ctx, finalize, stmt, row, work, verdict>>

-----------------------------------------------------------------------------
(* Contexts, Postgres and the process *)

Cancel(r) ==
  /\ pc[r] \in Active \cup {"idle"}
  /\ ctx[r] = "live"
  /\ ctx' = [ctx EXCEPT ![r] = "canceled"]
  /\ UNCHANGED <<pc, finalize, stmt, row, work, verdict, result>>

\* Variant: the job runs on its parent's context, without WORKER_JOB_TIMEOUT.
NoDeadline(r) == FALSE /\ UNCHANGED vars

Deadline(r) ==
  /\ pc[r] = "working"
  /\ ctx[r] = "live"
  /\ ctx' = [ctx EXCEPT ![r] = "deadline"]
  /\ UNCHANGED <<pc, finalize, stmt, row, work, verdict, result>>

FinalizeExpires(r) ==
  /\ pc[r] = "finishing"
  /\ finalize[r] = "live"
  /\ finalize' = [finalize EXCEPT ![r] = "expired"]
  /\ UNCHANGED <<pc, ctx, stmt, row, work, verdict, result>>

\* INSERT INTO worker_job_runs ... RETURNING id
ApplyInsert(r) ==
  /\ stmt[r] = "insert"
  /\ row' = [row EXCEPT ![r] = "running"]
  /\ stmt' = [stmt EXCEPT ![r] = "ok"]
  /\ UNCHANGED <<pc, ctx, finalize, work, verdict, result>>

\* Variant: the UPDATE is not restricted to the run's own row.
ApplyUpdateToAll(r) ==
  /\ stmt[r] = "update"
  /\ row' = [q \in Runs |-> IF row[q] = "none" THEN "none" ELSE verdict[r]]
  /\ stmt' = [stmt EXCEPT ![r] = "ok"]
  /\ UNCHANGED <<pc, ctx, finalize, work, verdict, result>>

\* UPDATE worker_job_runs SET status = ... WHERE id = the run's id
ApplyUpdate(r) ==
  /\ \/ stmt[r] = "update"
     \/ stmt[r] = "lost" /\ row[r] = "running"
  /\ row' = [row EXCEPT ![r] = verdict[r]]
  /\ stmt' = [stmt EXCEPT ![r] = IF @ = "update" THEN "ok" ELSE @]
  /\ UNCHANGED <<pc, ctx, finalize, work, verdict, result>>

\* Postgres refuses the statement, or never receives it.
RefuseStatement(r) ==
  /\ stmt[r] \in {"insert", "update"}
  /\ stmt' = [stmt EXCEPT ![r] = "error"]
  /\ UNCHANGED <<pc, ctx, finalize, row, work, verdict, result>>

\* The connection breaks under finishRun, before or after the UPDATE is applied.
LoseConnection(r) ==
  /\ pc[r] = "finishing"
  /\ stmt[r] \in {"update", "ok"}
  /\ stmt' = [stmt EXCEPT ![r] = "lost"]
  /\ UNCHANGED <<pc, ctx, finalize, row, work, verdict, result>>

\* Postgres decides the job's transaction.
Decide(r) ==
  /\ work[r] = "sent"
  /\ \E outcome \in {"applied", "rolledback"} :
       work' = [work EXCEPT ![r] = outcome]
  /\ UNCHANGED <<pc, ctx, finalize, stmt, row, verdict, result>>

\* The process dies: every call under way ends where it stands.
Crash ==
  /\ \E r \in Runs : pc[r] \in Active
  /\ pc' = [r \in Runs |-> IF pc[r] \in Active THEN "crashed" ELSE pc[r]]
  /\ UNCHANGED <<ctx, finalize, stmt, row, work, verdict, result>>

-----------------------------------------------------------------------------
RunStep(r) ==
  \/ StartRun(r) \/ Started(r) \/ StartFailed(r)
  \/ SendCommit(r) \/ JobSucceeds(r) \/ JobSkips(r) \/ JobFails(r)
  \/ Finished(r) \/ FinishFailed(r)
  \/ Cancel(r) \/ Deadline(r) \/ FinalizeExpires(r)
  \/ ApplyInsert(r) \/ ApplyUpdate(r) \/ RefuseStatement(r)
  \/ LoseConnection(r) \/ Decide(r)

Next == (\E r \in Runs : RunStep(r)) \/ Crash

Spec == Init /\ [][Next]_vars

(* The timers fire, a job whose context has ended returns, and finishRun
   returns once it may.  Nothing is asked of Postgres, nor of a job whose
   context is live. *)
JobHonoursContext(r) == ctx[r] # "live" /\ JobFails(r)

Fairness ==
  \A r \in Runs :
    /\ WF_vars(Deadline(r))
    /\ WF_vars(FinalizeExpires(r))
    /\ WF_vars(JobHonoursContext(r))
    /\ WF_vars(FinishFailed(r))

FairSpec == Spec /\ Fairness

-----------------------------------------------------------------------------
(* Properties *)

\* A run is on record as a success only if the transaction of its job is
\* committed, although the COMMIT, the job's return and the UPDATE of the run
\* row are separate steps that may each be lost, delayed or cut off.
SuccessIsDurable ==
  \A r \in Runs : row[r] = "success" => work[r] = "applied"

\* Run returns nil only for a run whose row is closed: the caller is never told
\* that all is well while the ledger still shows the run as running.
NilMeansRecorded ==
  \A r \in Runs : result[r] = "nil" => row[r] \in {"success", "skipped"}

\* A run that got as far as its job and has returned leaves a row that still
\* says "running" only if Postgres refused the UPDATE, the connection broke or
\* the 10 seconds of finishRun passed.  Cancelling the run (job removed, worker stopping) or its
\* timeout is never the reason: finishRun detaches itself from the run's context.
StaleRowsHaveACause ==
  \A r \in Runs :
    /\ pc[r] = "returned"
    /\ verdict[r] # "none"
    /\ row[r] = "running"
    => finalize[r] = "expired" \/ stmt[r] \in {"error", "lost"}

\* Once the job is called, Run returns, whatever Postgres, the network and the
\* job's peers do: the job timeout ends the job and finishRun has its own.
RunsEnd ==
  \A r \in Runs : pc[r] = "working" ~> pc[r] \in {"returned", "crashed"}

\* The ledger as its readers see it (see RunLedger).
Ledger == INSTANCE RunLedger WITH row <- row
LedgerSpec == Ledger!LedgerSpec
=============================================================================
