------------------------------ MODULE Scheduler ------------------------------
(***************************************************************************)
(* The scheduler service, the table worker_job_config it follows, and the  *)
(* life of the worker process around it: seeding, the initial Sync, the    *)
(* startup runs, serving, shutdown, crash and restart.                     *)
(*                                                                         *)
(* Sync reads the table, then takes its lock and settles one job after the *)
(* other with calls to gocron; operators edit the table and gocron starts  *)
(* runs between any two of these steps.  gocron is not part of the         *)
(* repository: what it does is modelled from how the service uses it       *)
(* (LimitModeReschedule: one uncancelled run per entry; a run gets the     *)
(* context of its entry, which RemoveJob, Update and Shutdown cancel).     *)
(*                                                                         *)
(* Left out: the run log (see JobRunner), rows naming no job of the worker *)
(* (Sync ignores them), logging.                                           *)
(***************************************************************************)
EXTENDS Naturals, Sequences

CONSTANTS
  Jobs,          \* the jobs made available with AddJob
  StartupOrder,  \* allJobs of main: the order of the startup runs
  Crons,         \* cron expressions a row may hold
  ValidCrons,    \* those gocron accepts
  DefaultCron,   \* the seed taken from the environment
  Ids,           \* gocron ids; a new entry gets one that is not in use
  Execs,         \* bound: runs in progress at a time
  MaxEdits,      \* bound: operator edits in a behaviour
  None

ASSUME SchedulerAssumption ==
  /\ StartupOrder \in Seq(Jobs)
  /\ ValidCrons \subseteq Crons
  /\ DefaultCron \in Crons
  /\ MaxEdits \in Nat
  /\ None \notin Ids \cup [id : Ids, cron : Crons] \cup [job : Jobs, cron : Crons]
  /\ None \notin [job : Jobs, id : Ids \cup {None}, live : BOOLEAN]

VARIABLES
  config,      \* worker_job_config: the row of each job, or None
  main,        \* phase of the process
  stop,        \* SIGTERM has been received (runCtx is done)
  registered,  \* Service.registered: the gocron id and cron of each job
  entries,     \* gocron: the job and cron of each scheduled entry
  execs,       \* runs in progress
  sync,        \* Sync: "idle", or "loaded" between LoadAll and its return
  loaded,      \* the rows LoadAll returned, while Sync has them
  todo,        \* the jobs Sync has still to settle
  enabled,     \* enabledSet of main
  pos,         \* next position of StartupOrder
  edits        \* operator edits so far

process == <<main, stop, enabled, pos>>
syncing == <<sync, loaded, todo>>
vars == <<config, process, registered, entries, execs, syncing, edits>>

Rows == [cron : Crons, enabled : BOOLEAN]

TypeOK ==
  /\ config \in [Jobs -> Rows \cup {None}]
  /\ main \in {"down", "booting", "startup", "serving", "stopping", "closing"}
  /\ stop \in BOOLEAN
  /\ registered \in [Jobs -> [id : Ids, cron : Crons] \cup {None}]
  /\ entries \in [Ids -> [job : Jobs, cron : Crons] \cup {None}]
  /\ execs \in [Execs -> [job : Jobs, id : Ids \cup {None}, live : BOOLEAN]
                         \cup {None}]
  /\ sync \in {"idle", "loaded"}
  /\ loaded \in [Jobs -> Rows \cup {None}]
  /\ todo \subseteq Jobs
  /\ enabled \subseteq Jobs
  /\ pos \in 1..(Len(StartupOrder) + 1)
  /\ edits \in 0..MaxEdits

NoRows == [j \in Jobs |-> None]

NoMemory ==
  /\ stop' = FALSE
  /\ registered' = [j \in Jobs |-> None]
  /\ entries' = [i \in Ids |-> None]
  /\ execs' = [e \in Execs |-> None]
  /\ sync' = "idle"
  /\ loaded' = NoRows
  /\ todo' = {}
  /\ enabled' = {}
  /\ pos' = 1

Init ==
  /\ config \in [Jobs -> Rows \cup {None}]
  /\ main = "down"
  /\ stop = FALSE
  /\ registered = [j \in Jobs |-> None]
  /\ entries = [i \in Ids |-> None]
  /\ execs = [e \in Execs |-> None]
  /\ sync = "idle"
  /\ loaded = NoRows
  /\ todo = {}
  /\ enabled = {}
  /\ pos = 1
  /\ edits = 0

-----------------------------------------------------------------------------
(* Sync *)

Wanted(j) == loaded[j] # None /\ loaded[j].enabled

\* Variant: the task runs its job on a context of its own.
CancelNothing(i) == execs

\* The runs of entry i lose their context.
CancelRuns(i) ==
  [e \in Execs |->
     IF execs[e] # None /\ execs[e].id = i
       THEN [execs[e] EXCEPT !.live = FALSE] ELSE execs[e]]

\* Sync has begun (at boot, or when gocron fires worker-config-sync): LoadAll.
LoadAll ==
  /\ main \in {"booting", "serving"}
  /\ sync = "idle"
  /\ sync' = "loaded"
  /\ loaded' = config
  /\ todo' = Jobs
  /\ UNCHANGED <<config, process, registered, entries, execs, edits>>

Settling(j) ==
  /\ main \in {"booting", "serving"}
  /\ j \in todo
  /\ todo' = todo \ {j}
  /\ UNCHANGED <<config, process, sync, loaded, edits>>

\* Variant: the registration is dropped, the gocron entry is not.
RemoveRegistrationOnly(j) ==
  /\ Settling(j)
  /\ registered[j] # None
  /\ ~Wanted(j)
  /\ registered' = [registered EXCEPT ![j] = None]
  /\ UNCHANGED <<entries, execs>>

\* Disabled, or no longer in the table.
Remove(j) ==
  /\ Settling(j)
  /\ registered[j] # None
  /\ ~Wanted(j)
  /\ entries' = [entries EXCEPT ![registered[j].id] = None]
  /\ execs' = CancelRuns(registered[j].id)
  /\ registered' = [registered EXCEPT ![j] = None]

\* Variant: a scheduled job is left alone whatever its cron expression.
LeaveAloneAnyCron(j) ==
  /\ Settling(j)
  /\ (registered[j] = None) = ~Wanted(j)
  /\ UNCHANGED <<registered, entries, execs>>

\* Already as wanted, or not wanted and not scheduled.
LeaveAlone(j) ==
  /\ Settling(j)
  /\ IF registered[j] = None
       THEN ~Wanted(j)
       ELSE Wanted(j) /\ registered[j].cron = loaded[j].cron
  /\ UNCHANGED <<registered, entries, execs>>

CronChanged(j) ==
  /\ registered[j] # None
  /\ Wanted(j)
  /\ registered[j].cron # loaded[j].cron

\* Variant: the recorded cron expression is not brought up to date.
RescheduleForgetsCron(j) ==
  /\ Settling(j)
  /\ CronChanged(j)
  /\ loaded[j].cron \in ValidCrons
  /\ entries' = [entries EXCEPT ![registered[j].id] =
                   [job |-> j, cron |-> loaded[j].cron]]
  /\ execs' = CancelRuns(registered[j].id)
  /\ UNCHANGED registered

\* Variant: the registration written after Update lacks the id.
RescheduleLosesId(j) ==
  /\ Settling(j)
  /\ CronChanged(j)
  /\ loaded[j].cron \in ValidCrons
  /\ entries' = [entries EXCEPT ![registered[j].id] =
                   [job |-> j, cron |-> loaded[j].cron]]
  /\ execs' = CancelRuns(registered[j].id)
  /\ registered' = [registered EXCEPT ![j] = [id |-> None, cron |-> loaded[j].cron]]

\* Update: the entry keeps its id, its runs are cancelled.
Reschedule(j) ==
  /\ Settling(j)
  /\ CronChanged(j)
  /\ loaded[j].cron \in ValidCrons
  /\ entries' = [entries EXCEPT ![registered[j].id] =
                   [job |-> j, cron |-> loaded[j].cron]]
  /\ execs' = CancelRuns(registered[j].id)
  /\ registered' = [registered EXCEPT ![j].cron = loaded[j].cron]

\* Update refuses the expression.  The service keeps its registration; whether
\* gocron has dropped the old entry by then (its Update removes the entry before
\* it reads the new definition) is left open.
RefuseReschedule(j) ==
  /\ Settling(j)
  /\ CronChanged(j)
  /\ loaded[j].cron \notin ValidCrons
  /\ \/ UNCHANGED <<entries, execs>>
     \/ /\ entries' = [entries EXCEPT ![registered[j].id] = None]
        /\ execs' = CancelRuns(registered[j].id)
  /\ UNCHANGED registered

FreshId(i) ==
  /\ entries[i] = None
  /\ \A j \in Jobs : registered[j] # None => registered[j].id # i
  /\ \A e \in Execs : execs[e] # None => execs[e].id # i

\* Variant: jobs are added at boot only.
ScheduleAtBoot(j) ==
  /\ Settling(j)
  /\ main = "booting"
  /\ registered[j] = None
  /\ Wanted(j)
  /\ loaded[j].cron \in ValidCrons
  /\ \E i \in Ids :
       /\ FreshId(i)
       /\ entries' = [entries EXCEPT ![i] = [job |-> j, cron |-> loaded[j].cron]]
       /\ registered' = [registered EXCEPT ![j] = [id |-> i, cron |-> loaded[j].cron]]
  /\ UNCHANGED execs

\* NewJob
Schedule(j) ==
  /\ Settling(j)
  /\ registered[j] = None
  /\ Wanted(j)
  /\ loaded[j].cron \in ValidCrons
  /\ \E i \in Ids :
       /\ FreshId(i)
       /\ entries' = [entries EXCEPT ![i] = [job |-> j, cron |-> loaded[j].cron]]
       /\ registered' = [registered EXCEPT ![j] = [id |-> i, cron |-> loaded[j].cron]]
  /\ UNCHANGED execs

RefuseSchedule(j) ==
  /\ Settling(j)
  /\ registered[j] = None
  /\ Wanted(j)
  /\ loaded[j].cron \notin ValidCrons
  /\ UNCHANGED <<registered, entries, execs>>

SettleJob(j) ==
  \/ Remove(j) \/ LeaveAlone(j) \/ Reschedule(j) \/ RefuseReschedule(j)
  \/ Schedule(j) \/ RefuseSchedule(j)

SyncReturns ==
  /\ main = "serving"
  /\ sync = "loaded"
  /\ todo = {}
  /\ sync' = "idle"
  /\ loaded' = NoRows
  /\ UNCHANGED <<config, process, registered, entries, execs, todo, edits>>

-----------------------------------------------------------------------------
(* main *)

\* Seed inserts the rows that are missing, one statement each; an error part way
\* ends the process.
Seed ==
  /\ main = "down"
  /\ LET missing == {j \in Jobs : config[j] = None} IN
       \E seeded \in SUBSET missing :
         /\ config' = [j \in Jobs |->
                         IF j \in seeded
                           THEN [cron |-> DefaultCron, enabled |-> TRUE]
                           ELSE config[j]]
         /\ main' = IF seeded = missing THEN "booting" ELSE "down"
  /\ UNCHANGED <<stop, enabled, pos, registered, entries, execs, syncing, edits>>

\* The initial Sync has returned: EnabledJobs; WORKER_RUN_ON_STARTUP may be off.
Booted ==
  /\ main = "booting"
  /\ sync = "loaded"
  /\ todo = {}
  /\ sync' = "idle"
  /\ loaded' = NoRows
  /\ main' = "startup"
  /\ enabled' = {j \in Jobs : registered[j] # None}
  /\ pos' \in {1, Len(StartupOrder) + 1}
  /\ UNCHANGED <<config, stop, registered, entries, execs, todo, edits>>

StartupSkips ==
  /\ main = "startup"
  /\ pos <= Len(StartupOrder)
  /\ StartupOrder[pos] \notin enabled
  /\ pos' = pos + 1
  /\ UNCHANGED <<config, main, stop, enabled, registered, entries, execs,
                 syncing, edits>>

\* RunNow, on the context that SIGTERM cancels.
StartupRun(e) ==
  /\ main = "startup"
  /\ pos <= Len(StartupOrder)
  /\ StartupOrder[pos] \in enabled
  /\ \A f \in Execs : execs[f] = None
  /\ execs' = [execs EXCEPT ![e] =
                 [job |-> StartupOrder[pos], id |-> None, live |-> ~stop]]
  /\ UNCHANGED <<config, process, registered, entries, syncing, edits>>

StartupReturns(e) ==
  /\ main = "startup"
  /\ execs[e] # None
  /\ execs' = [execs EXCEPT ![e] = None]
  /\ pos' = pos + 1
  /\ UNCHANGED <<config, main, stop, enabled, registered, entries, syncing, edits>>

\* Variant: the scheduler is started before the startup runs have returned.
StartEarly ==
  /\ main = "startup"
  /\ main' = "serving"
  /\ UNCHANGED <<config, stop, enabled, pos, registered, entries, execs,
                 syncing, edits>>

Start ==
  /\ main = "startup"
  /\ pos > Len(StartupOrder)
  /\ main' = "serving"
  /\ UNCHANGED <<config, stop, enabled, pos, registered, entries, execs,
                 syncing, edits>>

\* Variant: the startup runs have a context of their own.
SignalSparesRuns ==
  /\ main \in {"startup", "serving"}
  /\ ~stop
  /\ stop' = TRUE
  /\ UNCHANGED <<config, main, enabled, pos, registered, entries, execs, syncing, edits>>

Signal ==
  /\ main \in {"startup", "serving"}
  /\ ~stop
  /\ stop' = TRUE
  /\ execs' = CancelRuns(None)
  /\ UNCHANGED <<config, main, enabled, pos, registered, entries, syncing, edits>>

\* Shutdown cancels every run and waits for them, for a time.  A Sync under way
\* ends here too: what gocron answers once it is stopped reaches no later state
\* than the end of the process.
Shutdown ==
  /\ main = "serving"
  /\ stop
  /\ main' = "stopping"
  /\ execs' = [e \in Execs |->
                 IF execs[e] = None THEN None
                                    ELSE [execs[e] EXCEPT !.live = FALSE]]
  /\ UNCHANGED <<config, stop, enabled, pos, registered, entries, syncing, edits>>

\* Shutdown has returned, or 30 seconds have passed: run returns.
Leave ==
  /\ main = "stopping"
  /\ main' = "closing"
  /\ UNCHANGED <<config, stop, enabled, pos, registered, entries, execs,
                 syncing, edits>>

Down ==
  /\ main' = "down"
  /\ NoMemory
  /\ UNCHANGED <<config, edits>>

\* The deferred Close of the connection pool waits for the connections lent to
\* runs that go on.
Exit ==
  /\ main = "closing"
  /\ \A e \in Execs : execs[e] = None
  /\ Down

\* The process dies: it is killed, or booting fails.  In "closing" it may also be
\* that the runs which go on hold no connection.
Crash == main # "down" /\ Down

-----------------------------------------------------------------------------
(* gocron and the operators *)

\* Entry i is due.  While a run of it is under way the run is skipped; a run that
\* has been cancelled may or may not still hold it back.
Fire(i, e) ==
  /\ main = "serving"
  /\ entries[i] # None
  /\ \A f \in Execs : execs[f] # None /\ execs[f].id = i => ~execs[f].live
  /\ execs[e] = None
  /\ execs' = [execs EXCEPT ![e] = [job |-> entries[i].job, id |-> i, live |-> TRUE]]
  /\ UNCHANGED <<config, process, registered, entries, syncing, edits>>

RunReturns(e) ==
  /\ main \in {"serving", "stopping", "closing"}
  /\ execs[e] # None
  /\ execs' = [execs EXCEPT ![e] = None]
  /\ UNCHANGED <<config, process, registered, entries, syncing, edits>>

Edit(j) ==
  /\ edits < MaxEdits
  /\ edits' = edits + 1
  /\ \E row \in Rows \cup {None} : config' = [config EXCEPT ![j] = row]
  /\ UNCHANGED <<process, registered, entries, execs, syncing>>

-----------------------------------------------------------------------------
Next ==
  \/ Seed \/ LoadAll \/ SyncReturns \/ Booted \/ StartupSkips \/ Start
  \/ Signal \/ Shutdown \/ Leave \/ Exit \/ Crash
  \/ \E j \in Jobs : SettleJob(j) \/ Edit(j)
  \/ \E e \in Execs :
       \/ StartupRun(e) \/ StartupReturns(e) \/ RunReturns(e)
       \/ \E i \in Ids : Fire(i, e)

Spec == Init /\ [][Next]_vars

SyncGoesOn == LoadAll \/ SyncReturns \/ \E j \in Jobs : SettleJob(j)

MainGoesOn ==
  \/ StartupSkips \/ Start \/ Shutdown \/ Leave \/ Exit
  \/ \E e \in Execs : StartupRun(e)

\* main goes on, worker-config-sync keeps firing, Sync goes on once it has begun,
\* and a run whose context has ended returns (see JobRunner!RunsEnd).  A run with a
\* live context owes nothing: StartRun has no timeout.  Nor do operators and the
\* other entries of gocron.
Fairness ==
  /\ WF_vars(SyncGoesOn)
  /\ WF_vars(MainGoesOn)
  /\ \A e \in Execs :
       WF_vars(execs[e] # None /\ ~execs[e].live /\ (StartupReturns(e) \/ RunReturns(e)))

FairSpec == Spec /\ Fairness

-----------------------------------------------------------------------------
(* Properties *)

\* gocron schedules nothing the service has lost track of: each entry is the one
\* registered for its job, under its id and with its cron expression.  Otherwise a
\* disabled job would keep running with no way to remove it.
EntriesAreRegistered ==
  \A i \in Ids :
    entries[i] # None =>
      registered[entries[i].job] = [id |-> i, cron |-> entries[i].cron]

\* At no time do two runs of one job work with a live context, whether they come
\* from main at startup, from gocron, or from entries of the job before and after
\* it was disabled and enabled again.
OneLiveRunPerJob ==
  \A e, f \in Execs :
    /\ e # f
    /\ execs[e] # None
    /\ execs[f] # None
    /\ execs[e].job = execs[f].job
    => ~(execs[e].live /\ execs[f].live)

\* A run that still has its context belongs to an entry that is still scheduled:
\* disabling a job or changing its cron also stops the run in progress.
LiveRunsAreScheduled ==
  \A e \in Execs :
    /\ execs[e] # None
    /\ execs[e].live
    /\ execs[e].id # None
    => entries[execs[e].id] # None /\ entries[execs[e].id].job = execs[e].job

Scheduled(j, cron) == \E i \in Ids : entries[i] = [job |-> j, cron |-> cron]

\* What Sync is for: once it has settled a job, gocron runs the job exactly if
\* its row is enabled, and with the row's cron expression if that is a valid one.
SyncReconciles ==
  sync = "loaded" =>
    \A j \in Jobs \ todo :
      IF Wanted(j)
        THEN loaded[j].cron \in ValidCrons => Scheduled(j, loaded[j].cron)
        ELSE \A c \in Crons : ~Scheduled(j, c)

\* When the operators have stopped editing and the worker goes on serving, the
\* schedule settles on what the table says, with no restart.
InStep ==
  \A j \in Jobs, c \in Crons :
    Scheduled(j, c) <=> config[j] = [cron |-> c, enabled |-> TRUE]

Converges == (<>[](main = "serving")) => <>[]InStep

\* SIGTERM ends the process, also when it comes during the startup runs and
\* whatever the runs are waiting for.
SignalEnds == stop ~> main = "down"
=============================================================================
