------------------------------- MODULE Worker -------------------------------
(***************************************************************************)
(* The worker put together around its benchmark sync: gocron and main      *)
(* (Scheduler) start the executions of benchmarksync.Service.Run           *)
(* (BenchmarkSync) through Runner.Run, and end their contexts.             *)
(*                                                                         *)
(* An execution takes the same slot in both.  Its context is that of the   *)
(* run Scheduler knows; Runner.Run calls the job between StartRun and      *)
(* FinishRun, so that a run that has begun returns once its job has ended. *)
(* What BenchmarkSync takes for granted, that the next execution begins    *)
(* only when the earlier ones have ended or lost their context, is left    *)
(* out here and shown instead.                                             *)
(***************************************************************************)
EXTENDS Scheduler

CONSTANTS
  SyncJob,     \* the name of the benchmark sync
  Contents,    \* see BenchmarkSync
  Valid,
  MaxVersions

ASSUME WorkerAssumption ==
  /\ SyncJob \in Jobs
  /\ Valid \subseteq Contents
  /\ None \notin Contents
  /\ MaxVersions \in Nat \ {0}

VARIABLES
  called,       \* the runs whose job has been called
  history, catalogue, print, pc, read, commit, set, interrupted  \* see BenchmarkSync

Busy == {"comparing", "building", "committing", "recording"}

Live(e) == execs[e] # None /\ execs[e].live

\* The job's context is derived from the run's.
ctx == [e \in Execs |-> IF pc[e] \in Busy /\ ~Live(e) THEN "canceled" ELSE "live"]

Sync == INSTANCE BenchmarkSync WITH ctx <- ctx

benchmark == <<history, catalogue, print, pc, read, commit, set, interrupted>>
workerVars == <<vars, called, benchmark>>

WorkerInit == Init /\ called = {} /\ Sync!Init

-----------------------------------------------------------------------------
(* What Runner.Run does of the runs Scheduler starts and sees return *)

\* The steps of Scheduler that neither begin nor end a run.
Manage ==
  /\ \/ Seed \/ LoadAll \/ SyncReturns \/ Booted \/ StartupSkips \/ Start
     \/ Signal \/ Shutdown \/ Leave \/ Exit
     \/ \E j \in Jobs : SettleJob(j) \/ Edit(j)
  /\ UNCHANGED <<called, benchmark>>

\* The run of entry i begins, with StartRun.
Launch(e) ==
  /\ StartupRun(e) \/ \E i \in Ids : Fire(i, e)
  /\ UNCHANGED <<called, benchmark>>

\* StartRun has returned: Runner calls the job, which reads the file.  A run that
\* has lost its context by then fails at its next call, and has read for nothing.
CallJob(e) ==
  /\ Live(e)
  /\ execs[e].job = SyncJob
  /\ e \notin called
  /\ called' = called \cup {e}
  /\ UNCHANGED vars
  /\ Sync!ReadSource(e)

\* Run returns: the job has ended and FinishRun with it, or StartRun has failed.
Return(e) ==
  /\ pc[e] \notin Busy
  /\ StartupReturns(e) \/ RunReturns(e)
  /\ called' = called \ {e}
  /\ UNCHANGED benchmark

\* The other steps of the job, of Postgres and of whoever uploads the file.
Work ==
  /\ UNCHANGED <<vars, called>>
  /\ Sync!Outside \/ \E e \in Execs : Sync!Advance(e) \/ Sync!Fail(e)

Die ==
  /\ Crash
  /\ called' = {}
  /\ Sync!Crash

WorkerNext ==
  \/ Manage
  \/ \E e \in Execs : Launch(e) \/ CallJob(e) \/ Return(e)
  \/ Work
  \/ Die

WorkerSpec == WorkerInit /\ [][WorkerNext]_workerVars

Still(A) == A /\ UNCHANGED <<called, benchmark>>
Job(A) == UNCHANGED <<vars, called>> /\ A

FireSync == \E e \in Execs, i \in Ids :
  entries[i] # None /\ entries[i].job = SyncJob /\ Fire(i, e)

\* As in the two parts; besides, gocron fires the entry of the sync, Runner calls
\* the job, and a run whose job or context has ended returns.
WorkerFairness ==
  /\ WF_workerVars(Still(SyncGoesOn))
  /\ WF_workerVars(Still(MainGoesOn))
  /\ WF_workerVars(Still(FireSync))
  /\ \A e \in Execs :
       /\ WF_workerVars(CallJob(e) \/ ((e \in called \/ ~Live(e)) /\ Return(e)))
       /\ WF_workerVars(Job(Sync!Advance(e)))
       /\ WF_workerVars(Job(Sync!Answer(e)))

FairWorkerSpec == WorkerSpec /\ WorkerFairness

-----------------------------------------------------------------------------
(* Properties *)

\* The executions gocron and main start are those BenchmarkSync speaks of: the next
\* one calls the job only when the earlier ones have ended or lost their context,
\* through edits of the table, SIGTERM, crash and restart.
SyncSpec == Sync!Spec

\* Once Sync has taken note that the job is disabled, or Shutdown has begun, no
\* execution sends another COMMIT, however long it has been under way.
OnlyScheduledRunsWrite ==
  [][\A e \in Execs :
       commit[e] # "sent" /\ commit'[e] = "sent" =>
         \/ main = "startup"
         \/ main = "serving" /\ registered[SyncJob] # None]_workerVars

\* A fault of the run: of its job, or of StartRun.
RunFault ==
  \/ Sync!Fault
  \/ \E e \in Execs : Live(e) /\ e \notin called /\ Return(e)

\* The worker delivers: while it serves, with the job enabled under a valid
\* expression and a valid file in place, and nothing is cut off or refused any more,
\* the file is fingerprinted in the end; it is also in the tables, unless an
\* execution was interrupted before (see BenchmarkSync!UnchangedMeansSynced).
Delivers ==
  /\ <>[](/\ main = "serving"
          /\ config[SyncJob] # None
          /\ config[SyncJob].enabled
          /\ Sync!File \in Valid)
  /\ <>[][~RunFault]_workerVars
  => <>[](print = Sync!File /\ (interrupted \/ Sync!Content(catalogue) = Sync!File))
=============================================================================
