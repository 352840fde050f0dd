--------------------------- MODULE SchedulerProofs ---------------------------
(***************************************************************************)
(* Proofs about Scheduler: the service loses track of nothing gocron has   *)
(* scheduled, and no job has two live runs; and about Worker: what gocron  *)
(* and main do to the executions of the benchmark sync is what             *)
(* BenchmarkSync takes for granted.                                        *)
(***************************************************************************)
EXTENDS Worker, TLAPS

-----------------------------------------------------------------------------
(* The inductive invariant *)

\* While main is not serving, the runs are those of main: at most one, none
\* before the startup runs and none after them.  From then on they are gocron's.
RunsOfMain ==
  /\ main \in {"down", "booting"} => \A e \in Execs : execs[e] = None
  /\ main = "startup" =>
       \A e \in Execs : execs[e] # None =>
         /\ execs[e].id = None
         /\ pos <= Len(StartupOrder) /\ StartupOrder[pos] \in enabled
         /\ \A f \in Execs : f # e => execs[f] = None
  /\ main \in {"serving", "stopping", "closing"} => \A e \in Execs : execs[e] # None => execs[e].id \in Ids

\* LimitModeReschedule, as Fire's guard says it.
OneLiveRunPerEntry ==
  \A e, f \in Execs :
    e # f /\ execs[e] # None /\ execs[f] # None /\ execs[e].id \in Ids /\ execs[f].id = execs[e].id
    => ~(execs[e].live /\ execs[f].live)

Inv ==
  /\ TypeOK
  /\ EntriesAreRegistered
  /\ LiveRunsAreScheduled
  /\ RunsOfMain
  /\ OneLiveRunPerEntry

-----------------------------------------------------------------------------
(* Types *)

\* The initial values are of the right types.
LEMMA InitTypeOK == Init => TypeOK
<1>1. 1 \in 1..(Len(StartupOrder) + 1) /\ 0 \in 0..MaxEdits
  BY SchedulerAssumption
<1> QED
  BY <1>1 DEF Init, TypeOK, NoRows

\* Cancelling the runs of an entry leaves runs.
LEMMA CancelRunsType ==
  ASSUME TypeOK, NEW i \in Ids \cup {None}
  PROVE  CancelRuns(i) \in [Execs -> [job : Jobs, id : Ids \cup {None}, live : BOOLEAN] \cup {None}]
  BY DEF TypeOK, CancelRuns

\* Settling a job writes values of the right types.
LEMMA SettleTypeOK ==
  ASSUME TypeOK, NEW j \in Jobs, SettleJob(j)
  PROVE  TypeOK'
<1> USE DEF TypeOK, Settling, process
<1>0. ValidCrons \subseteq Crons
  BY SchedulerAssumption
<1>1. CASE Remove(j)
  <2>1. registered[j].id \in Ids
    BY <1>1 DEF Remove
  <2> QED
    BY <1>1, <2>1, CancelRunsType DEF Remove
<1>2. CASE LeaveAlone(j)
  BY <1>2 DEF LeaveAlone
<1>3. CASE Reschedule(j)
  <2>1. registered[j].id \in Ids /\ loaded[j].cron \in Crons
    BY <1>0, <1>3 DEF Reschedule, CronChanged
  <2>2. registered' \in [Jobs -> [id : Ids, cron : Crons] \cup {None}]
    BY <1>3, <2>1 DEF Reschedule, CronChanged
  <2> QED
    BY <1>3, <2>1, <2>2, CancelRunsType DEF Reschedule
<1>4. CASE RefuseReschedule(j)
  <2>1. registered[j].id \in Ids
    BY <1>4 DEF RefuseReschedule, CronChanged
  <2>2. entries' \in [Ids -> [job : Jobs, cron : Crons] \cup {None}]
    BY <1>4, <2>1 DEF RefuseReschedule
  <2>3. execs' \in [Execs -> [job : Jobs, id : Ids \cup {None}, live : BOOLEAN] \cup {None}]
    BY <1>4, <2>1, CancelRunsType DEF RefuseReschedule
  <2> QED
    BY <1>4, <2>2, <2>3 DEF RefuseReschedule
<1>5. CASE Schedule(j)
  BY <1>0, <1>5 DEF Schedule
<1>6. CASE RefuseSchedule(j)
  BY <1>6 DEF RefuseSchedule
<1> QED
  BY <1>1, <1>2, <1>3, <1>4, <1>5, <1>6 DEF SettleJob

\* Every step writes values of the right types.
LEMMA NextTypeOK == TypeOK /\ RunsOfMain /\ [Next]_vars => TypeOK'
<1> SUFFICES ASSUME TypeOK, RunsOfMain, [Next]_vars PROVE TypeOK'
  OBVIOUS
<1> USE SchedulerAssumption DEF TypeOK, Rows, process, syncing
<1>1. CASE Seed
  <2>1. PICK seeded \in SUBSET Jobs :
           config' = [j \in Jobs |-> IF j \in seeded
                                       THEN [cron |-> DefaultCron, enabled |-> TRUE]
                                       ELSE config[j]]
    BY <1>1 DEF Seed
  <2>2. config' \in [Jobs -> Rows \cup {None}]
    BY <2>1
  <2>3. main' \in {"down", "booting"}
    BY <1>1 DEF Seed
  <2> QED
    BY <1>1, <2>2, <2>3 DEF Seed
<1>2. CASE LoadAll
  BY <1>2 DEF LoadAll
<1>3. CASE SyncReturns
  BY <1>3 DEF SyncReturns, NoRows
<1>4. CASE Booted
  BY <1>4 DEF Booted, NoRows
<1>5. CASE StartupSkips
  BY <1>5 DEF StartupSkips
<1>6. CASE Start
  BY <1>6 DEF Start
<1>7. CASE Signal
  BY <1>7, CancelRunsType DEF Signal
<1>8. CASE Shutdown
  BY <1>8 DEF Shutdown
<1>17. CASE Leave
  BY <1>17 DEF Leave
<1>9. CASE Exit \/ Crash
  <2>1. 1 \in 1..(Len(StartupOrder) + 1)
    OBVIOUS
  <2> QED
    BY <1>9, <2>1 DEF Exit, Crash, Down, NoMemory, NoRows
<1>10. ASSUME NEW j \in Jobs, SettleJob(j) PROVE TypeOK'
  BY <1>10, SettleTypeOK
<1>11. ASSUME NEW j \in Jobs, Edit(j) PROVE TypeOK'
  BY <1>11 DEF Edit
<1>12. ASSUME NEW e \in Execs, StartupRun(e) PROVE TypeOK'
  <2>1. StartupOrder[pos] \in Jobs
    BY <1>12 DEF StartupRun
  <2> QED
    BY <1>12, <2>1 DEF StartupRun
<1>13. ASSUME NEW e \in Execs, StartupReturns(e) PROVE TypeOK'
  <2>1. pos <= Len(StartupOrder)
    BY <1>13 DEF StartupReturns, RunsOfMain
  <2> QED
    BY <1>13, <2>1 DEF StartupReturns
<1>14. ASSUME NEW e \in Execs, RunReturns(e) PROVE TypeOK'
  BY <1>14 DEF RunReturns
<1>15. ASSUME NEW e \in Execs, NEW i \in Ids, Fire(i, e) PROVE TypeOK'
  BY <1>15 DEF Fire
<1>16. CASE UNCHANGED vars
  BY <1>16 DEF vars
<1> QED
  BY <1>1, <1>2, <1>3, <1>4, <1>5, <1>6, <1>7, <1>8, <1>9, <1>10, <1>11, <1>12,
     <1>13, <1>14, <1>15, <1>16, <1>17 DEF Next

-----------------------------------------------------------------------------
(* What is scheduled *)

\* Only Sync and the end of the process change what is scheduled.
LEMMA ScheduleChanges ==
  ASSUME [Next]_vars
  PROVE  \/ \E j \in Jobs : SettleJob(j)
         \/ Exit \/ Crash
         \/ UNCHANGED <<registered, entries>>
  BY DEF Next, vars, process, syncing, Seed, LoadAll, SyncReturns, Booted, StartupSkips,
         Start, Signal, Shutdown, Leave, Edit, StartupRun, StartupReturns, RunReturns, Fire

\* Sync settles a job without losing track of an entry.
LEMMA SettleEntries ==
  ASSUME TypeOK, EntriesAreRegistered, NEW j \in Jobs, SettleJob(j)
  PROVE  EntriesAreRegistered'
<1> USE DEF TypeOK, EntriesAreRegistered
<1>1. CASE Remove(j)
  BY <1>1 DEF Remove
<1>2. CASE LeaveAlone(j) \/ RefuseSchedule(j)
  BY <1>2 DEF LeaveAlone, RefuseSchedule
<1>3. CASE Reschedule(j)
  <2>1. registered[j] \in [id : Ids, cron : Crons]
    BY <1>3 DEF Reschedule, CronChanged
  <2>2. registered'[j] = [id |-> registered[j].id, cron |-> loaded[j].cron]
    BY <1>3, <2>1 DEF Reschedule
  <2>3. \A k \in Jobs : k # j => registered'[k] = registered[k]
    BY <1>3 DEF Reschedule
  <2>4. entries'[registered[j].id] = [job |-> j, cron |-> loaded[j].cron]
    BY <1>3, <2>1 DEF Reschedule
  <2>5. \A i \in Ids : i # registered[j].id => entries'[i] = entries[i]
    BY <1>3 DEF Reschedule
  <2>6. ASSUME NEW i \in Ids, entries'[i] # None, i # registered[j].id
        PROVE  registered'[entries'[i].job] = [id |-> i, cron |-> entries'[i].cron]
    <3>1. entries[i] \in [job : Jobs, cron : Crons]
      BY <2>5, <2>6
    <3>2. registered[entries[i].job] = [id |-> i, cron |-> entries[i].cron]
      BY <2>5, <2>6
    <3>3. entries[i].job # j
      BY <2>6, <3>2
    <3> QED
      BY <2>3, <2>5, <2>6, <3>1, <3>2, <3>3
  <2> QED
    BY <2>2, <2>4, <2>6
<1>4. CASE RefuseReschedule(j)
  BY <1>4 DEF RefuseReschedule
<1>5. CASE Schedule(j)
  <2>1. PICK i \in Ids :
          /\ FreshId(i)
          /\ entries' = [entries EXCEPT ![i] = [job |-> j, cron |-> loaded[j].cron]]
          /\ registered' = [registered EXCEPT ![j] = [id |-> i, cron |-> loaded[j].cron]]
    BY <1>5 DEF Schedule
  <2>2. ASSUME NEW k \in Ids, entries'[k] # None, k # i
        PROVE  registered'[entries'[k].job] = [id |-> k, cron |-> entries'[k].cron]
    <3>1. entries'[k] = entries[k] /\ entries[k] \in [job : Jobs, cron : Crons]
      BY <2>1, <2>2
    <3>2. registered[entries[k].job] = [id |-> k, cron |-> entries[k].cron]
      BY <2>2, <3>1
    <3>3. entries[k].job # j
      BY <1>5, <3>1, <3>2, SchedulerAssumption DEF Schedule
    <3> QED
      BY <2>1, <3>1, <3>2, <3>3
  <2>3. entries'[i] = [job |-> j, cron |-> loaded[j].cron]
    BY <2>1
  <2>4. registered'[j] = [id |-> i, cron |-> loaded[j].cron]
    BY <2>1
  <2> QED
    BY <2>2, <2>3, <2>4
<1> QED
  BY <1>1, <1>2, <1>3, <1>4, <1>5 DEF SettleJob

\* No step makes the service lose track of an entry.
LEMMA NextEntries ==
  ASSUME TypeOK, EntriesAreRegistered, [Next]_vars
  PROVE  EntriesAreRegistered'
<1>1. CASE \E j \in Jobs : SettleJob(j)
  BY <1>1, SettleEntries
<1>2. CASE Exit \/ Crash
  BY <1>2 DEF Exit, Crash, Down, NoMemory, EntriesAreRegistered
<1>3. CASE UNCHANGED <<registered, entries>>
  BY <1>3 DEF EntriesAreRegistered
<1> QED
  BY <1>1, <1>2, <1>3, ScheduleChanges

-----------------------------------------------------------------------------
(* What is running *)

\* Which runs a step of Sync may cut off: those of one entry, if any.
LEMMA SettleRuns ==
  ASSUME TypeOK, NEW j \in Jobs, SettleJob(j)
  PROVE  execs' = execs \/ \E i \in Ids : execs' = CancelRuns(i)
  BY DEF TypeOK, SettleJob, Remove, LeaveAlone, Reschedule, RefuseReschedule, Schedule,
         RefuseSchedule, CronChanged

\* A run is cancelled, or as it was.
LEMMA CancelledRun ==
  ASSUME TypeOK, NEW i \in Ids \cup {None}, NEW e \in Execs, CancelRuns(i)[e] # None
  PROVE  /\ execs[e] # None
         /\ CancelRuns(i)[e].job = execs[e].job
         /\ CancelRuns(i)[e].id = execs[e].id
         /\ CancelRuns(i)[e].live => execs[e].live /\ execs[e].id # i
<1>1. execs[e] # None
  BY DEF CancelRuns
<1>2. execs[e] \in [job : Jobs, id : Ids \cup {None}, live : BOOLEAN]
  BY <1>1 DEF TypeOK
<1>3. CASE execs[e].id = i
  <2>1. CancelRuns(i)[e] = [execs[e] EXCEPT !.live = FALSE]
    BY <1>1, <1>3 DEF CancelRuns
  <2> QED
    BY <1>1, <1>2, <2>1
<1>4. CASE execs[e].id # i
  BY <1>1, <1>4 DEF CancelRuns
<1> QED
  BY <1>3, <1>4

\* A step of Sync cuts off the runs of the entries it removes or replaces.
LEMMA SettleLive ==
  ASSUME TypeOK, LiveRunsAreScheduled, NEW j \in Jobs, SettleJob(j)
  PROVE  LiveRunsAreScheduled'
<1>1. ASSUME NEW i \in Ids, execs' = CancelRuns(i), \A k \in Ids : k # i => entries'[k] = entries[k]
      PROVE  LiveRunsAreScheduled'
  <2> SUFFICES ASSUME NEW e \in Execs, execs'[e] # None, execs'[e].live, execs'[e].id # None
               PROVE  entries'[execs'[e].id] # None /\ entries'[execs'[e].id].job = execs'[e].job
    BY DEF LiveRunsAreScheduled
  <2>1. /\ execs[e] # None /\ execs[e].live
        /\ execs'[e].job = execs[e].job /\ execs'[e].id = execs[e].id /\ execs[e].id # i
    BY <1>1, CancelledRun
  <2>2. execs[e].id \in Ids
    BY <2>1 DEF TypeOK
  <2> QED
    BY <1>1, <2>1, <2>2 DEF LiveRunsAreScheduled
<1>2. CASE Remove(j) \/ Reschedule(j)
  <2>1. registered[j].id \in Ids
    BY <1>2 DEF TypeOK, Remove, Reschedule, CronChanged
  <2> QED
    BY <1>1, <1>2, <2>1 DEF TypeOK, Remove, Reschedule
<1>3. CASE RefuseReschedule(j)
  <2>1. registered[j].id \in Ids
    BY <1>3 DEF TypeOK, RefuseReschedule, CronChanged
  <2> QED
    BY <1>1, <1>3, <2>1 DEF TypeOK, RefuseReschedule, LiveRunsAreScheduled
<1>4. CASE Schedule(j)
  BY <1>4 DEF TypeOK, Schedule, FreshId, LiveRunsAreScheduled
<1>5. CASE LeaveAlone(j) \/ RefuseSchedule(j)
  BY <1>5 DEF LeaveAlone, RefuseSchedule, LiveRunsAreScheduled
<1> QED
  BY <1>2, <1>3, <1>4, <1>5 DEF SettleJob

\* A run that keeps its context keeps its entry, whatever the step.
LEMMA NextLive ==
  ASSUME TypeOK, LiveRunsAreScheduled, [Next]_vars
  PROVE  LiveRunsAreScheduled'
<1>1. CASE \E j \in Jobs : SettleJob(j)
  BY <1>1, SettleLive
<1>2. CASE Exit \/ Crash
  BY <1>2 DEF Exit, Crash, Down, NoMemory, LiveRunsAreScheduled
<1>3. CASE Signal
  <2>1. execs' = CancelRuns(None) /\ entries' = entries
    BY <1>3 DEF Signal
  <2> QED
    BY <2>1, CancelledRun DEF LiveRunsAreScheduled
<1>4. CASE Shutdown
  <2>1. \A e \in Execs : execs'[e] # None => ~execs'[e].live
    BY <1>4 DEF Shutdown, TypeOK
  <2> QED
    BY <2>1 DEF LiveRunsAreScheduled
<1>5. ASSUME NEW e \in Execs, StartupRun(e) PROVE LiveRunsAreScheduled'
  BY <1>5 DEF StartupRun, TypeOK, LiveRunsAreScheduled
<1>6. ASSUME NEW e \in Execs, StartupReturns(e) \/ RunReturns(e) PROVE LiveRunsAreScheduled'
  BY <1>6 DEF StartupReturns, RunReturns, TypeOK, LiveRunsAreScheduled
<1>7. ASSUME NEW e \in Execs, NEW i \in Ids, Fire(i, e) PROVE LiveRunsAreScheduled'
  BY <1>7 DEF Fire, TypeOK, LiveRunsAreScheduled
<1>8. CASE UNCHANGED <<entries, execs>>
  BY <1>8 DEF LiveRunsAreScheduled
<1> QED
  BY <1>1, <1>2, <1>3, <1>4, <1>5, <1>6, <1>7, <1>8 DEF Next, vars, process, syncing, Seed,
     LoadAll, SyncReturns, Booted, StartupSkips, Start, Leave, Edit

-----------------------------------------------------------------------------
(* Whose runs there are, and how many of an entry *)

\* Runs are cancelled, or not touched: the number of live runs does not grow.
LEMMA FewerRuns ==
  ASSUME TypeOK, RunsOfMain, OneLiveRunPerEntry, main' = main, pos' = pos, enabled' = enabled,
         execs' = execs \/ \E i \in Ids \cup {None} : execs' = CancelRuns(i)
  PROVE  RunsOfMain' /\ OneLiveRunPerEntry'
<1>1. CASE execs' = execs
  BY <1>1 DEF RunsOfMain, OneLiveRunPerEntry
<1>2. ASSUME NEW i \in Ids \cup {None}, execs' = CancelRuns(i)
      PROVE  RunsOfMain' /\ OneLiveRunPerEntry'
  <2>1. \A e \in Execs : execs'[e] # None =>
          /\ execs[e] # None /\ execs'[e].id = execs[e].id
          /\ execs'[e].live => execs[e].live
    BY <1>2, CancelledRun
  <2>2. RunsOfMain'
    BY <2>1 DEF RunsOfMain
  <2>3. OneLiveRunPerEntry'
    BY <2>1 DEF OneLiveRunPerEntry
  <2> QED
    BY <2>2, <2>3
<1> QED
  BY <1>1, <1>2

\* Whose runs there are follows from the phase, and gocron starts no second run
\* of an entry while one has its context.
LEMMA NextRuns ==
  ASSUME TypeOK, RunsOfMain, OneLiveRunPerEntry, [Next]_vars
  PROVE  RunsOfMain' /\ OneLiveRunPerEntry'
<1> USE DEF process, syncing
<1>1. ASSUME NEW j \in Jobs, SettleJob(j) PROVE RunsOfMain' /\ OneLiveRunPerEntry'
  <2>1. main' = main /\ pos' = pos /\ enabled' = enabled
    BY <1>1 DEF SettleJob, Remove, LeaveAlone, Reschedule, RefuseReschedule, Schedule,
                RefuseSchedule, Settling
  <2> QED
    BY <1>1, <2>1, SettleRuns, FewerRuns
<1>2. CASE Signal
  BY <1>2, FewerRuns DEF Signal
<1>3. CASE Seed
  BY <1>3 DEF Seed, RunsOfMain, OneLiveRunPerEntry
<1>4. CASE LoadAll \/ SyncReturns \/ UNCHANGED vars \/ \E j \in Jobs : Edit(j)
  BY <1>4, FewerRuns DEF LoadAll, SyncReturns, Edit, vars
<1>5. CASE Booted
  BY <1>5 DEF Booted, RunsOfMain, OneLiveRunPerEntry
<1>6. CASE StartupSkips
  <2>1. \A e \in Execs : execs[e] = None
    BY <1>6 DEF StartupSkips, RunsOfMain
  <2> QED
    BY <1>6, <2>1 DEF StartupSkips, RunsOfMain, OneLiveRunPerEntry
<1>7. CASE Start
  <2>1. pos \in Nat /\ Len(StartupOrder) \in Nat
    BY SchedulerAssumption DEF TypeOK
  <2>2. ~(pos <= Len(StartupOrder))
    BY <1>7, <2>1 DEF Start
  <2>3. \A e \in Execs : execs[e] = None
    BY <1>7, <2>2 DEF Start, RunsOfMain
  <2> QED
    BY <1>7, <2>3 DEF Start, RunsOfMain, OneLiveRunPerEntry
<1>8. CASE Shutdown
  <2>1. \A e \in Execs : execs'[e] # None =>
          execs[e] # None /\ ~execs'[e].live /\ execs'[e].id = execs[e].id
    BY <1>8 DEF Shutdown, TypeOK
  <2> QED
    BY <1>8, <2>1 DEF Shutdown, RunsOfMain, OneLiveRunPerEntry
<1>14. CASE Leave
  BY <1>14 DEF Leave, RunsOfMain, OneLiveRunPerEntry
<1>9. CASE Exit \/ Crash
  BY <1>9 DEF Exit, Crash, Down, NoMemory, RunsOfMain, OneLiveRunPerEntry
<1>10. ASSUME NEW e \in Execs, StartupRun(e) PROVE RunsOfMain' /\ OneLiveRunPerEntry'
  BY <1>10, SchedulerAssumption DEF StartupRun, TypeOK, RunsOfMain, OneLiveRunPerEntry
<1>11. ASSUME NEW e \in Execs, StartupReturns(e) PROVE RunsOfMain' /\ OneLiveRunPerEntry'
  <2>1. \A f \in Execs : execs'[f] = None
    BY <1>11 DEF StartupReturns, TypeOK, RunsOfMain
  <2> QED
    BY <1>11, <2>1 DEF StartupReturns, RunsOfMain, OneLiveRunPerEntry
<1>12. ASSUME NEW e \in Execs, RunReturns(e) PROVE RunsOfMain' /\ OneLiveRunPerEntry'
  <2>1. \A f \in Execs : execs'[f] # None => execs'[f] = execs[f]
    BY <1>12 DEF RunReturns, TypeOK
  <2> QED
    BY <1>12, <2>1 DEF RunReturns, RunsOfMain, OneLiveRunPerEntry
<1>13. ASSUME NEW e \in Execs, NEW i \in Ids, Fire(i, e)
       PROVE  RunsOfMain' /\ OneLiveRunPerEntry'
  <2>1. /\ execs'[e].id = i
        /\ \A f \in Execs : f # e => execs'[f] = execs[f]
    BY <1>13 DEF Fire, TypeOK
  <2>2. RunsOfMain'
    BY <1>13, <2>1 DEF Fire, RunsOfMain
  <2>3. OneLiveRunPerEntry'
    BY <1>13, <2>1 DEF Fire, OneLiveRunPerEntry
  <2> QED
    BY <2>2, <2>3
<1> QED
  BY <1>1, <1>2, <1>3, <1>4, <1>5, <1>6, <1>7, <1>8, <1>9, <1>10, <1>11, <1>12, <1>13, <1>14 DEF Next

-----------------------------------------------------------------------------
(* The theorems *)

\* The invariant holds in every reachable state.
LEMMA Invariance == Spec => []Inv
<1>1. Init => Inv
  BY InitTypeOK DEF Init, Inv, EntriesAreRegistered, LiveRunsAreScheduled, RunsOfMain,
                    OneLiveRunPerEntry
<1>2. Inv /\ [Next]_vars => Inv'
  BY NextTypeOK, NextEntries, NextLive, NextRuns DEF Inv
<1> QED
  BY <1>1, <1>2, PTL DEF Spec

\* The variables keep to their types; startup runs never go past the job list.
THEOREM Typing == Spec => []TypeOK
<1>1. Inv => TypeOK
  BY DEF Inv
<1> QED
  BY <1>1, Invariance, PTL

\* The service never loses track of anything gocron has scheduled, though Sync
\* works on rows read earlier and gocron may refuse an update half way.
THEOREM NothingLost == Spec => []EntriesAreRegistered
<1>1. Inv => EntriesAreRegistered
  BY DEF Inv
<1> QED
  BY <1>1, Invariance, PTL

\* A run of a job that was disabled or rescheduled has lost its context.
THEOREM LiveScheduled == Spec => []LiveRunsAreScheduled
<1>1. Inv => LiveRunsAreScheduled
  BY DEF Inv
<1> QED
  BY <1>1, Invariance, PTL

\* No job works twice at a time: two live runs of it would belong to the one entry
\* that is registered for it.
THEOREM NoOverlap == Spec => []OneLiveRunPerJob
<1>1. Inv => OneLiveRunPerJob
  <2> SUFFICES ASSUME Inv, NEW e \in Execs, NEW f \in Execs, e # f, execs[e] # None,
                      execs[f] # None, execs[e].job = execs[f].job
               PROVE  ~(execs[e].live /\ execs[f].live)
    BY DEF OneLiveRunPerJob
  <2> SUFFICES ASSUME execs[e].live, execs[f].live PROVE FALSE
    OBVIOUS
  <2>1. main \in {"serving", "stopping", "closing"}
    BY DEF Inv, TypeOK, RunsOfMain
  <2>2. execs[e].id \in Ids /\ execs[f].id \in Ids
    BY <2>1 DEF Inv, RunsOfMain
  <2>3. /\ entries[execs[e].id] # None /\ entries[execs[e].id].job = execs[e].job
        /\ entries[execs[f].id] # None /\ entries[execs[f].id].job = execs[e].job
    BY <2>2, SchedulerAssumption DEF Inv, LiveRunsAreScheduled
  <2>4. ASSUME NEW i \in Ids, entries[i] # None PROVE registered[entries[i].job].id = i
    <3>1. registered[entries[i].job] = [id |-> i, cron |-> entries[i].cron]
      BY <2>4 DEF Inv, EntriesAreRegistered
    <3> QED
      BY <3>1
  <2>5. execs[e].id = execs[f].id
    BY <2>2, <2>3, <2>4
  <2> QED
    BY <2>2, <2>5 DEF Inv, OneLiveRunPerEntry
<1> QED
  BY <1>1, Invariance, PTL

-----------------------------------------------------------------------------
(* What Sync achieves *)

\* What the service has registered, gocron schedules.
RegistrationsAreScheduled ==
  \A j \in Jobs : registered[j] # None =>
    entries[registered[j].id] = [job |-> j, cron |-> registered[j].cron]

\* What Sync has settled is registered as the row wants it.
SettledAsWanted ==
  sync = "loaded" =>
    \A j \in Jobs \ todo :
      IF Wanted(j) THEN registered[j] # None /\ registered[j].cron = loaded[j].cron
                   ELSE registered[j] = None

ReconciledInv == RegistrationsAreScheduled /\ SettledAsWanted

\* A registration is for one job, and so is what is done to it.
LEMMA SettleReconciled ==
  ASSUME ValidCrons = Crons, TypeOK, ReconciledInv, NEW j \in Jobs, SettleJob(j)
  PROVE  ReconciledInv'
<1>1. /\ UNCHANGED <<sync, loaded>> /\ todo' = todo \ {j}
      /\ \A k \in Jobs : Wanted(k)' <=> Wanted(k)
  BY DEF SettleJob, Remove, LeaveAlone, Reschedule, RefuseReschedule, Schedule, RefuseSchedule,
         Settling, Wanted
<1>2. Wanted(j) => loaded[j].cron \in ValidCrons
  BY DEF TypeOK, Wanted, Rows
<1>3. ASSUME NEW k \in Jobs, registered[k] # None
      PROVE  /\ registered[k] \in [id : Ids, cron : Crons]
             /\ entries[registered[k].id] = [job |-> k, cron |-> registered[k].cron]
  BY <1>3 DEF TypeOK, ReconciledInv, RegistrationsAreScheduled
<1>4. ASSUME \A k \in Jobs : k # j => registered'[k] = registered[k],
             \A k \in Jobs : k # j /\ registered[k] # None =>
               entries'[registered[k].id] = entries[registered[k].id],
             IF Wanted(j) THEN registered'[j] # None /\ registered'[j].cron = loaded[j].cron
                          ELSE registered'[j] = None,
             registered'[j] # None =>
               entries'[registered'[j].id] = [job |-> j, cron |-> registered'[j].cron]
      PROVE  ReconciledInv'
  <2>1. RegistrationsAreScheduled'
    BY <1>3, <1>4 DEF RegistrationsAreScheduled
  <2>2. SettledAsWanted'
    BY <1>1, <1>4 DEF SettledAsWanted, ReconciledInv
  <2> QED
    BY <2>1, <2>2 DEF ReconciledInv
<1>5. ASSUME registered[j] # None
      PROVE  \A k \in Jobs : k # j /\ registered[k] # None => registered[k].id # registered[j].id
  <2>1. ASSUME NEW k \in Jobs, registered[k] # None
        PROVE  entries[registered[k].id].job = k
    <3>1. entries[registered[k].id] = [job |-> k, cron |-> registered[k].cron]
      BY <1>3, <2>1
    <3> QED
      BY ONLY <3>1
  <2> QED
    BY <1>5, <2>1
<1>6. CASE Remove(j)
  <2>1. /\ registered[j] # None /\ ~Wanted(j)
        /\ entries' = [entries EXCEPT ![registered[j].id] = None]
        /\ registered' = [registered EXCEPT ![j] = None]
    BY <1>6 DEF Remove
  <2>2. registered'[j] = None /\ \A k \in Jobs : k # j => registered'[k] = registered[k]
    BY <2>1 DEF TypeOK
  <2>3. \A k \in Jobs : k # j /\ registered[k] # None =>
          entries'[registered[k].id] = entries[registered[k].id]
    BY <1>3, <1>5, <2>1 DEF TypeOK
  <2> QED
    BY <1>4, <2>1, <2>2, <2>3
<1>7. CASE LeaveAlone(j)
  <2>1. UNCHANGED <<registered, entries>>
    BY <1>7 DEF LeaveAlone
  <2>2. IF Wanted(j) THEN registered[j] # None /\ registered[j].cron = loaded[j].cron
                     ELSE registered[j] = None
    BY <1>7 DEF LeaveAlone
  <2> QED
    BY <1>3, <1>4, <2>1, <2>2
<1>8. CASE Reschedule(j)
  <2>1. /\ registered[j] # None /\ Wanted(j)
        /\ entries' = [entries EXCEPT ![registered[j].id] = [job |-> j, cron |-> loaded[j].cron]]
        /\ registered' = [registered EXCEPT ![j].cron = loaded[j].cron]
    BY <1>8 DEF Reschedule, CronChanged
  <2>2. registered[j] \in [id : Ids, cron : Crons]
    BY <1>3, <2>1
  <2>3. /\ registered'[j] = [id |-> registered[j].id, cron |-> loaded[j].cron]
        /\ \A k \in Jobs : k # j => registered'[k] = registered[k]
    BY <2>1, <2>2 DEF TypeOK
  <2>4. \A k \in Jobs : k # j /\ registered[k] # None =>
          entries'[registered[k].id] = entries[registered[k].id]
    BY <1>3, <1>5, <2>1 DEF TypeOK
  <2>5. entries'[registered[j].id] = [job |-> j, cron |-> loaded[j].cron]
    BY <2>1, <2>2 DEF TypeOK
  <2>6. registered'[j] # None
    <3>1. loaded[j].cron \in Crons
      BY <1>2, <2>1
    <3> QED
      BY <2>2, <2>3, <3>1, SchedulerAssumption
  <2>7. registered'[j].id = registered[j].id /\ registered'[j].cron = loaded[j].cron
    BY <2>3
  <2> QED
    BY <1>4, <2>1, <2>3, <2>4, <2>5, <2>6, <2>7
<1>9. CASE Schedule(j)
  <2>1. registered[j] = None /\ Wanted(j)
    BY <1>9 DEF Schedule
  <2>2. PICK i \in Ids :
          /\ FreshId(i)
          /\ entries' = [entries EXCEPT ![i] = [job |-> j, cron |-> loaded[j].cron]]
          /\ registered' = [registered EXCEPT ![j] = [id |-> i, cron |-> loaded[j].cron]]
    BY <1>9 DEF Schedule
  <2>3. /\ registered'[j] = [id |-> i, cron |-> loaded[j].cron]
        /\ \A k \in Jobs : k # j => registered'[k] = registered[k]
    BY <2>2 DEF TypeOK
  <2>4. \A k \in Jobs : k # j /\ registered[k] # None =>
          entries'[registered[k].id] = entries[registered[k].id]
    BY <1>3, <2>2 DEF TypeOK, FreshId
  <2>5. entries'[i] = [job |-> j, cron |-> loaded[j].cron]
    BY <2>2 DEF TypeOK
  <2>6. registered'[j] # None
    <3>1. loaded[j].cron \in Crons
      BY <1>2, <2>1
    <3> QED
      BY <2>3, <3>1, SchedulerAssumption
  <2>7. registered'[j].id = i /\ registered'[j].cron = loaded[j].cron
    BY <2>3
  <2> QED
    BY <1>4, <2>1, <2>3, <2>4, <2>5, <2>6, <2>7
<1>10. ~RefuseReschedule(j) /\ ~RefuseSchedule(j)
  BY <1>2 DEF RefuseReschedule, RefuseSchedule, CronChanged
<1> QED
  BY <1>6, <1>7, <1>8, <1>9, <1>10 DEF SettleJob

\* Every step keeps settled jobs as their rows say.
LEMMA NextReconciled ==
  ASSUME ValidCrons = Crons, TypeOK, ReconciledInv, [Next]_vars
  PROVE  ReconciledInv'
<1>1. CASE \E j \in Jobs : SettleJob(j)
  BY <1>1, SettleReconciled
<1>2. CASE Exit \/ Crash
  BY <1>2 DEF Exit, Crash, Down, NoMemory, ReconciledInv, RegistrationsAreScheduled, SettledAsWanted
<1>3. CASE LoadAll
  BY <1>3 DEF LoadAll, ReconciledInv, RegistrationsAreScheduled, SettledAsWanted
<1>4. CASE SyncReturns \/ Booted
  BY <1>4 DEF SyncReturns, Booted, ReconciledInv, RegistrationsAreScheduled, SettledAsWanted
<1>5. CASE UNCHANGED <<registered, entries, sync, loaded, todo>>
  BY <1>5 DEF ReconciledInv, RegistrationsAreScheduled, SettledAsWanted, Wanted
<1> QED
  BY <1>1, <1>2, <1>3, <1>4, <1>5
  DEF Next, vars, process, syncing, Seed, StartupSkips, Start, Signal, Shutdown, Leave, Edit,
      StartupRun, StartupReturns, RunReturns, Fire

\* If gocron accepts every expression the table may hold, Sync does what it is for,
\* whatever it finds: each job it has settled is scheduled exactly as its row says.
THEOREM ValidRowsReconcile ==
  ASSUME ValidCrons = Crons
  PROVE  Spec => []SyncReconciles
<1>1. Init => ReconciledInv
  BY DEF Init, ReconciledInv, RegistrationsAreScheduled, SettledAsWanted
<1>2. Inv /\ ReconciledInv /\ [Next]_vars => ReconciledInv'
  BY NextReconciled DEF Inv
<1>3. Inv /\ ReconciledInv => SyncReconciles
  <2> SUFFICES ASSUME Inv, ReconciledInv, sync = "loaded", NEW j \in Jobs \ todo
               PROVE  IF Wanted(j)
                        THEN loaded[j].cron \in ValidCrons => Scheduled(j, loaded[j].cron)
                        ELSE \A c \in Crons : ~Scheduled(j, c)
    BY DEF SyncReconciles
  <2>1. CASE Wanted(j)
    <3>1. registered[j] # None /\ registered[j].cron = loaded[j].cron
      BY <2>1 DEF ReconciledInv, SettledAsWanted
    <3>2. /\ registered[j].id \in Ids
          /\ entries[registered[j].id] = [job |-> j, cron |-> loaded[j].cron]
      BY <3>1 DEF Inv, TypeOK, ReconciledInv, RegistrationsAreScheduled
    <3> QED
      BY <2>1, <3>2 DEF Scheduled
  <2>2. CASE ~Wanted(j)
    <3>1. registered[j] = None
      BY <2>2 DEF ReconciledInv, SettledAsWanted
    <3>2. ASSUME NEW c \in Crons, NEW i \in Ids, entries[i] = [job |-> j, cron |-> c]
          PROVE  FALSE
      <4>1. entries[i] # None
        BY <3>2, SchedulerAssumption
      <4>2. registered[j] = [id |-> i, cron |-> c]
        BY <3>2, <4>1 DEF Inv, EntriesAreRegistered
      <4> QED
        BY <3>1, <3>2, <4>2, SchedulerAssumption
    <3> QED
      BY <2>2, <3>2 DEF Scheduled
  <2> QED
    BY <2>1, <2>2
<1> QED
  BY <1>1, <1>2, <1>3, Invariance, PTL DEF Spec

-----------------------------------------------------------------------------
(* The scheduler with the executions of its jobs *)

\* An execution that is under way has the run around it that has called it.
JobsHaveRuns ==
  /\ pc \in [Execs -> Busy \cup {"idle", "skipped", "succeeded", "failed"}]
  /\ commit \in [Execs -> {"none", "sent", "applied", "rolledback"}]
  /\ \A e \in Execs : pc[e] \in Busy =>
       execs[e] # None /\ execs[e].job = SyncJob /\ e \in called

\* Shutdown takes the context of every run, and nothing starts after it.
NoneLiveAfterShutdown ==
  main \in {"stopping", "closing"} => \A e \in Execs : ~Live(e)

\* What Scheduler guarantees.
Given == Inv /\ OneLiveRunPerJob

WorkerInv == JobsHaveRuns /\ NoneLiveAfterShutdown

-----------------------------------------------------------------------------
(* The worker is a scheduler *)

\* Whatever the jobs do, the process takes the steps of Scheduler.
LEMMA SchedulerStep == [WorkerNext]_workerVars => [Next]_vars
  BY DEF WorkerNext, workerVars, Manage, Launch, CallJob, Return, Work, Die, Next, SettleJob

\* So it has the invariants of Scheduler.
LEMMA SchedulerHolds == WorkerSpec => []Given
<1>1. WorkerInit => Init
  BY DEF WorkerInit
<1> QED
  BY <1>1, SchedulerStep, Invariance, NoOverlap, PTL DEF WorkerSpec, Spec, Given

-----------------------------------------------------------------------------
(* Steps of the process, as the runs see them *)

\* Managing the schedule takes contexts away; it neither gives one nor ends a run.
LEMMA ManageRuns ==
  ASSUME Given, Manage, NEW e \in Execs
  PROVE  \/ execs'[e] = execs[e]
         \/ /\ execs[e] # None
            /\ execs'[e] # None
            /\ execs'[e].job = execs[e].job
            /\ ~execs'[e].live
<1> USE SchedulerAssumption DEF Given, Inv, TypeOK
<1>1. CASE UNCHANGED execs
  BY <1>1
<1>2. ASSUME NEW i, execs' = CancelRuns(i)
      PROVE  \/ execs'[e] = execs[e]
             \/ /\ execs[e] # None
                /\ execs'[e] # None
                /\ execs'[e].job = execs[e].job
                /\ ~execs'[e].live
  BY <1>2 DEF CancelRuns
<1>3. CASE Shutdown
  BY <1>3 DEF Shutdown
<1>4. CASE Exit
  BY <1>4 DEF Exit, Down, NoMemory
<1>5. CASE \E j \in Jobs : SettleJob(j)
  BY <1>1, <1>2, <1>5 DEF SettleJob, Remove, LeaveAlone, Reschedule, RefuseReschedule, Schedule,
     RefuseSchedule
<1> QED
  BY <1>1, <1>2, <1>3, <1>4, <1>5 DEF Manage, Seed, LoadAll, SyncReturns, Booted, StartupSkips,
     Start, Signal, Leave, Edit

\* A run takes a slot that is empty.
LEMMA LaunchRuns ==
  ASSUME Given, NEW e \in Execs, Launch(e)
  PROVE  execs[e] = None /\ \A f \in Execs : f # e => execs'[f] = execs[f]
  BY DEF Given, Inv, TypeOK, Launch, StartupRun, Fire

\* A run that returns leaves its slot empty.
LEMMA ReturnRuns ==
  ASSUME Given, NEW e \in Execs, Return(e)
  PROVE  execs'[e] = None /\ \A f \in Execs : f # e => execs'[f] = execs[f]
  BY DEF Given, Inv, TypeOK, Return, StartupReturns, RunReturns

-----------------------------------------------------------------------------
(* The invariant of the executions *)

\* The steps of the job leave its run in place; only CallJob puts one under way.
LEMMA NextJobs ==
  ASSUME Given, JobsHaveRuns, [WorkerNext]_workerVars
  PROVE  JobsHaveRuns'
<1> USE DEF JobsHaveRuns
<1>1. CASE Manage
  BY <1>1, ManageRuns DEF Manage, benchmark
<1>2. ASSUME NEW e \in Execs, Launch(e) PROVE JobsHaveRuns'
  BY <1>2, LaunchRuns DEF Launch, benchmark
<1>3. ASSUME NEW e \in Execs, CallJob(e) PROVE JobsHaveRuns'
  BY <1>3 DEF CallJob, Live, vars, Sync!ReadSource, Busy
<1>4. ASSUME NEW e \in Execs, Return(e) PROVE JobsHaveRuns'
  BY <1>4, ReturnRuns DEF Return, benchmark
<1>5. CASE Work
  BY <1>5 DEF Work, vars, Busy, Sync!Busy, Sync!Outside, Sync!Replace, Sync!Answer, Sync!ApplyCommit,
     Sync!RollBack, Sync!ApplySet, Sync!RefuseSet, Sync!Advance, Sync!Compare, Sync!Reject,
     Sync!SendCommit, Sync!SendSet, Sync!Succeed, Sync!Fail, Sync!Ends
<1>6. CASE Die
  BY <1>6 DEF Die, Crash, Down, NoMemory, Sync!Crash, Busy, Sync!Busy
<1>7. CASE UNCHANGED workerVars
  BY <1>7 DEF workerVars, vars, benchmark
<1> QED
  BY <1>1, <1>2, <1>3, <1>4, <1>5, <1>6, <1>7 DEF WorkerNext

\* Once Shutdown has begun gocron fires nothing any more.
LEMMA NextNoneLive ==
  ASSUME Given, NoneLiveAfterShutdown, [WorkerNext]_workerVars
  PROVE  NoneLiveAfterShutdown'
<1> USE DEF NoneLiveAfterShutdown, Live, Given, Inv, TypeOK
<1>1. CASE Shutdown
  BY <1>1 DEF Shutdown
<1>2. CASE Manage /\ ~Shutdown
  <2>1. main' \in {"stopping", "closing"} => main \in {"stopping", "closing"}
    BY <1>2 DEF Manage, Seed, LoadAll, SyncReturns, Booted, StartupSkips, Start, Signal, Leave,
       Exit, Down, Edit, SettleJob, Remove, LeaveAlone, Reschedule, RefuseReschedule, Schedule,
       RefuseSchedule, Settling, process
  <2> HIDE DEF Given, Inv, TypeOK
  <2> QED
    BY <1>2, <2>1, ManageRuns
<1>3. ASSUME NEW e \in Execs, Launch(e) PROVE NoneLiveAfterShutdown'
  BY <1>3 DEF Launch, StartupRun, Fire, process
<1>4. ASSUME NEW e \in Execs, Return(e) PROVE NoneLiveAfterShutdown'
  BY <1>4 DEF Return, StartupReturns, RunReturns, process
<1>5. CASE Die
  BY <1>5 DEF Die, Crash, Down
<1>6. CASE UNCHANGED vars
  BY <1>6 DEF vars, process
<1> QED
  BY <1>1, <1>2, <1>3, <1>4, <1>5, <1>6 DEF WorkerNext, workerVars, CallJob, Work

\* The invariant holds in every reachable state.
LEMMA WorkerInvariance == WorkerSpec => []WorkerInv
<1>1. WorkerInit => WorkerInv
  BY DEF WorkerInit, Init, WorkerInv, JobsHaveRuns, NoneLiveAfterShutdown, Sync!Init, Busy
<1>2. Given /\ WorkerInv /\ [WorkerNext]_workerVars => WorkerInv'
  BY NextJobs, NextNoneLive DEF WorkerInv
<1> QED
  BY <1>1, <1>2, SchedulerHolds, PTL DEF WorkerSpec

-----------------------------------------------------------------------------
(* The refinement *)

\* At first no execution is under way.
LEMMA SyncInitial == WorkerInit => Sync!Init
  BY DEF WorkerInit

\* A context is lost by an execution that is under way, or nothing changes for it.
LEMMA CancelOrStutter ==
  ASSUME Given, JobsHaveRuns, UNCHANGED benchmark,
         \A e \in Execs : pc[e] \in Busy /\ Live(e)' => Live(e)
  PROVE  [Sync!Next]_Sync!vars
<1>1. CASE \E e \in Execs : pc[e] \in Busy /\ Live(e) /\ ~Live(e)'
  <2>1. PICK e \in Execs : pc[e] \in Busy /\ Live(e) /\ ~Live(e)'
    BY <1>1
  <2>2. \A f \in Execs : f # e /\ pc[f] \in Busy => ~Live(f)
    BY <2>1 DEF Given, OneLiveRunPerJob, JobsHaveRuns, Live
  <2>3. ctx' = [ctx EXCEPT ![e] = "canceled"]
    BY <2>1, <2>2 DEF ctx, benchmark
  <2>4. Sync!Cancel(e)
    BY <2>1, <2>3 DEF Sync!Cancel, Sync!store, benchmark, ctx, Busy, Sync!Busy
  <2> QED
    BY <2>4 DEF Sync!Next
<1>2. CASE \A e \in Execs : pc[e] \in Busy /\ Live(e) => Live(e)'
  <2>1. UNCHANGED ctx
    BY <1>2 DEF ctx, benchmark
  <2> QED
    BY <2>1 DEF Sync!vars, Sync!store, benchmark
<1> QED
  BY <1>1, <1>2

\* Every step of the worker is a step of the sync, or none.
LEMMA SyncStep ==
  ASSUME Given, WorkerInv, [WorkerNext]_workerVars
  PROVE  [Sync!Next]_Sync!vars
<1>0. JobsHaveRuns
  BY DEF WorkerInv
<1>1. CASE Manage
  <2>1. \A e \in Execs : Live(e)' => Live(e)
    BY <1>1, ManageRuns DEF Live
  <2> QED
    BY <1>0, <1>1, <2>1, CancelOrStutter DEF Manage
<1>2. ASSUME NEW e \in Execs, Launch(e) PROVE [Sync!Next]_Sync!vars
  <2>1. \A f \in Execs : pc[f] \in Busy => f # e
    BY <1>0, <1>2, LaunchRuns DEF JobsHaveRuns
  <2>2. \A f \in Execs : pc[f] \in Busy /\ Live(f)' => Live(f)
    BY <1>2, <2>1, LaunchRuns DEF Live
  <2> QED
    BY <1>0, <1>2, <2>2, CancelOrStutter DEF Launch
<1>3. ASSUME NEW e \in Execs, CallJob(e) PROVE [Sync!Next]_Sync!vars
  <2>1. \A f \in Execs : pc[f] \in Busy => ~Live(f)
    BY <1>0, <1>3 DEF CallJob, JobsHaveRuns, Live, Given, OneLiveRunPerJob
  <2>2. Sync!Begin(e)
    BY <1>3, <2>1 DEF CallJob, Sync!Begin, ctx, Busy, Sync!Busy
  <2> QED
    BY <2>2 DEF Sync!Next
<1>4. ASSUME NEW e \in Execs, Return(e) PROVE [Sync!Next]_Sync!vars
  <2>1. \A f \in Execs : pc[f] \in Busy /\ Live(f)' => Live(f)
    BY <1>4, ReturnRuns DEF Live, Return
  <2> QED
    BY <1>0, <1>4, <2>1, CancelOrStutter DEF Return
<1>5. CASE Work
  BY <1>5 DEF Work, Sync!Next
<1>6. CASE Die
  BY <1>6 DEF Die, Sync!Next
<1>7. CASE UNCHANGED workerVars
  <2>1. UNCHANGED <<execs, benchmark>>
    BY <1>7 DEF workerVars, vars
  <2>2. \A e \in Execs : Live(e)' = Live(e)
    BY <2>1 DEF Live
  <2> QED
    BY <1>0, <2>1, <2>2, CancelOrStutter
<1> QED
  BY <1>1, <1>2, <1>3, <1>4, <1>5, <1>6, <1>7 DEF WorkerNext

\* What main and gocron start through Runner.Run are the executions of BenchmarkSync:
\* its results hold of the whole worker, for any jobs, edits, faults and restarts.
THEOREM WorkerImplementsSync == WorkerSpec => SyncSpec
  BY SyncInitial, SyncStep, SchedulerHolds, WorkerInvariance, PTL
     DEF WorkerSpec, SyncSpec, Sync!Spec

-----------------------------------------------------------------------------
(* Who writes *)

\* Only a live execution sends a COMMIT.
LEMMA OnlyLiveWrites ==
  ASSUME Given, WorkerInv, [WorkerNext]_workerVars, NEW e \in Execs,
         commit[e] # "sent", commit'[e] = "sent"
  PROVE  UNCHANGED vars /\ Live(e) /\ execs[e] # None /\ execs[e].job = SyncJob
<1>1. CASE UNCHANGED commit
  BY <1>1
<1>2. CASE Work
  <2>1. PICK f \in Execs : Sync!SendCommit(f)
    BY <1>2 DEF WorkerInv, JobsHaveRuns, Work, Sync!Outside, Sync!Replace,
       Sync!Answer, Sync!ApplyCommit, Sync!RollBack, Sync!ApplySet, Sync!RefuseSet, Sync!Advance,
       Sync!Compare, Sync!Reject, Sync!SendSet, Sync!Succeed, Sync!Fail
  <2>2. e = f
    BY <2>1 DEF Sync!SendCommit
  <2> QED
    BY <1>2, <2>1, <2>2 DEF Work, Sync!SendCommit, ctx, WorkerInv, JobsHaveRuns, Busy
<1>3. ASSUME NEW f \in Execs, CallJob(f) PROVE FALSE
  BY <1>3 DEF CallJob, Sync!ReadSource
<1> QED
  BY <1>1, <1>2, <1>3 DEF WorkerNext, workerVars, benchmark, Manage, Launch, Return, Die, Sync!Crash

\* Once Sync has removed the job or Shutdown has begun, the tables are no longer
\* written, though executions may still be under way.
THEOREM WritesAreScheduled == WorkerSpec => OnlyScheduledRunsWrite
<1>1. ASSUME Given, WorkerInv, [WorkerNext]_workerVars, NEW e \in Execs,
             commit[e] # "sent", commit'[e] = "sent"
      PROVE  main = "startup" \/ (main = "serving" /\ registered[SyncJob] # None)
  <2>1. Live(e) /\ execs[e] # None /\ execs[e].job = SyncJob
    BY <1>1, OnlyLiveWrites
  <2>2. main \in {"startup", "serving"}
    BY <1>1, <2>1 DEF Given, Inv, TypeOK, RunsOfMain, WorkerInv, NoneLiveAfterShutdown
  <2>3. CASE main = "serving"
    <3>1. execs[e].id \in Ids
      BY <1>1, <2>1, <2>3 DEF Given, Inv, RunsOfMain
    <3>2. entries[execs[e].id] # None /\ entries[execs[e].id].job = SyncJob
      BY <1>1, <2>1, <3>1, SchedulerAssumption DEF Given, Inv, LiveRunsAreScheduled, Live
    <3>3. registered[SyncJob] = [id |-> execs[e].id, cron |-> entries[execs[e].id].cron]
      BY <1>1, <3>1, <3>2 DEF Given, Inv, EntriesAreRegistered
    <3> QED
      BY <1>1, <2>3, <3>1, <3>2, <3>3, SchedulerAssumption DEF Given, Inv, TypeOK
  <2> QED
    BY <2>2, <2>3
<1>2. ASSUME Given, WorkerInv, [WorkerNext]_workerVars
      PROVE  [\A e \in Execs :
                commit[e] # "sent" /\ commit'[e] = "sent" =>
                  \/ main = "startup"
                  \/ main = "serving" /\ registered[SyncJob] # None]_workerVars
  BY <1>1, <1>2
<1> QED
  BY <1>2, SchedulerHolds, WorkerInvariance, PTL DEF WorkerSpec, OnlyScheduledRunsWrite
==============================================================================
