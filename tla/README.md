# refleks-worker: specification and verification

TLA+ modules for the worker in `src/`, configurations that model-check them
with TLC, and theorems about them checked by TLAPS. `PROJECT.json` lists the
components, the runs, the mutants that show each property can fail, the source
lines each definition stands for, the hazards and the theorems.

    tlc -workers 2 -config MCScheduler.cfg MCScheduler.tla
    tlapm StandaloneProofs.tla

## 1. Inventory

| Component | State | Operations | Hard part |
|---|---|---|---|
| Process lifecycle (`cmd/worker/main.go`) | phase, `enabledSet`, the signal context | seed, initial Sync, startup runs, Start, Shutdown (30 s), Close of the pool | startup runs against scheduled runs; SIGTERM at any time; crash and restart |
| Scheduler service (`scheduler/scheduler.go`) | `registered`: job → gocron id and cron | Sync, EnabledJobs, RunNow | keeps a second copy of what gocron schedules; the table changes under it; a call to gocron fails half way |
| Job config store (`jobconfig/store.go`) | table `worker_job_config` | Seed, LoadAll | operators edit the table at any time |
| Job runner (`worker/runner.go`) | the run's contexts | Run, finishRun | job, run row and caller must agree though every reply may be lost |
| State store (`state/store.go`) | tables `worker_job_runs`, `worker_job_state` | StartRun, FinishRun, GetJSON, SetJSON | none of them is in the job's transaction |
| Benchmark sync (`jobs/benchmarksync/service.go`) | benchmark tables, fingerprint, source file | Run, readSource, parseBenchmarks, enrichBenchmarks, syncToDatabase | two commits; file replaced at any time; constraints that see old rows; scenarios shared with the API |
| Rank and scenario merge (`rank_and_scenario_merge.go`, `source_difficulty_json.go`, `progress_parser.go`) | none | merge, parse | off-by-one, dropped values |
| Leaderboard refresh (`jobs/leaderboard/service.go`) | two leaderboard tables | one transaction: truncate, rebuild, twice | locks against the sync; two snapshots |
| Scenario statistics (`jobs/scenariostats/service.go`) | columns of `scenarios` | stream runs, group, summarise, update | grouping loop; histogram bounds; stale snapshot |
| Schema (`schema/schema.go`) | all tables | Ensure | its constraints decide which syncs succeed |
| Run sync config (`runsyncconfig/store.go`) | table `run_sync_config` | Seed | one statement for each key, against operators and starts that break off |
| Configuration (`config/config.go`, `config/env.go`) | the environment of the process | Load | precedence of process and `.env`; what is let through unchecked |
| Postgres client (`postgres/client.go`) | the pool | NewClient, Ping, Close | Close waits for connections that are lent |
| Refleks parser (`refleks/parser.go`) | none | Parse | damaged files, limits, what the checksum covers |

The components meet in Postgres and in the contexts they hand down. gocron
fires an entry, `taskFunc` calls `Runner.Run` on the entry's context, the
runner writes the run row, calls the job on a context with the job timeout and
closes the row on a context of its own. Removing or updating an entry, and
Shutdown, cancel the contexts of its runs. The API and the operators write the
same database.

What makes each part correct:

- lifecycle and scheduler: one live run per job; what is scheduled is known to
  the service and agrees with the table; it converges without a restart;
- runner and state store: the ledger claims a success only if the job's
  transaction is committed; rows are closed at most once; calls end;
- benchmark sync: the tables hold one valid content, whole, never an older one
  than before; the fingerprint names it; a failed sync leaves nothing behind;
- merge, statistics, leaderboards: they equal their declarative definitions,
  every sample is counted once, and refreshes do not block each other for ever;
- configuration: which text wins is clear, and what Load accepts can be run with;
- run sync config: operators have the last word; parser: a file that passes is
  the file that was written.

## 2. Modules

| Module | Models |
|---|---|
| `RunLedger` | what `worker_job_runs` promises to its readers (abstract) |
| `JobRunner` | `Runner.Run`, `finishRun`, `StartRun`, `FinishRun` for overlapping runs |
| `Scheduler` | `Service.Sync`, `Seed`, `LoadAll`, the life of the process, gocron as used |
| `Worker` | Scheduler, `Runner.Run` and BenchmarkSync composed |
| `SchedulerProofs` | the invariant and the safety of Scheduler, what a Sync achieves; Worker implements BenchmarkSync, and a disabled sync writes nothing more |
| `AtomicCatalogue` | what the benchmark tables promise to the API (abstract) |
| `BenchmarkSync` | `benchmarksync.Service.Run`: file, tables, fingerprint, executions that are cut off |
| `BenchmarkSyncProofs` | its invariant, its safety and the refinement of `AtomicCatalogue` |
| `CatalogueTx` | `parseBenchmarks` and `syncToDatabase` statement by statement, `ensureScenario` against the API |
| `CatalogueTxProofs` | the tables are the image of the last file committed; refusals have one of three reasons; no scenario is missed twice |
| `LeaderboardRank` | the two ranking queries as operators |
| `Leaderboard` | `leaderboard.Service.Run` statement by statement, its locks against the sync |
| `LeaderboardProofs` | both leaderboards are rankings of what is there, agree with each other, and no run demotes its player |
| `ScenarioStats` | `scenariostats.Service.Run`: snapshot, grouping loop, updates, overlap |
| `ScenarioStatsProofs` | the loop groups as a group-by does; statistics are one snapshot and never get older |
| `Distribution` | `buildMetricSummary`, `percentileCont` |
| `RankMerge` | ranks, thresholds, grouping and links of one difficulty |
| `RunSyncConfig` | seeding of `run_sync_config` |
| `Settings` | `config.Load`, `.env`, and what the constructors ask of the result |
| `Refleks` | `refleks.Parse` |
| `RefleksProofs` | what the parser accepts is what was written |
| `StandaloneProofs` | the safety of JobRunner and its refinement of `RunLedger`; what holds of RunSyncConfig, Settings, RankMerge and Distribution |
| `Lemmas` | numbers, sequences, loops, finite sets and sums, for the proofs |
| `MC*` | instances for TLC; `MCStandalone` holds the five that run on their own |

### JobRunner

`pc[r]` is where a call of Run stands, `stmt[r]` its ledger statement and the
answer, `row[r]` the row, `work[r]` the transaction of the job. StartRun,
Started and StartFailed are lines 38-41 of `runner.go`; JobSucceeds, JobSkips
and JobFails are the two branches after `job.Run`; Finished and FinishFailed
are the return of `finishRun`. Postgres is four actions of its own
(ApplyInsert, ApplyUpdate, RefuseStatement, Decide): a statement may be applied
after the caller has given up or the process is gone. The job is any of the
three: one transaction, success reported after its COMMIT is acknowledged,
failure possible at any point.

### Scheduler

`registered` is the map of the service, `entries` and `execs` are gocron's jobs
and their runs, `config` is the table. Sync is LoadAll, then one step for each
job (Remove, LeaveAlone, Reschedule, RefuseReschedule, Schedule,
RefuseSchedule), then SyncReturns; edits, firing and signals come in between.
The code removes before it adds; jobs do not share state, so the order between
two jobs is left open. gocron is external: LimitModeReschedule skips a run
while one of the entry is under way; RemoveJob, Update and Shutdown cancel the
context of the entry's runs; Update removes the entry before it sets up the new
definition, so a refused Update may leave none.

Shutdown cancels the runs and waits; after 30 seconds it gives up (Leave), and
`run` returns through its deferred calls, of which Close of the pool waits for
every connection still lent (Exit). Crash may happen at any time.

### Worker

EXTENDS Scheduler and takes BenchmarkSync as an instance. A run of the sync job
has the same slot in both: the context of the execution (`ctx`) is that of the
run gocron or main has started. Runner.Run is three steps: Launch begins the run
with StartRun, CallJob calls the job, which reads the file, and Return ends it
once the job has ended. The guard of BenchmarkSync!Begin, that the earlier
executions have ended or lost their context, is not part of Worker; that it
holds all the same is SyncSpec.

### BenchmarkSync

Contents of the file are told apart by their hash; `history` is the sequence of
contents the file has had, `catalogue` the version the tables hold. An
execution reads (ReadSource, Begin), compares (Compare), prepares and sends its
COMMIT (SendCommit), sends SetJSON (SendSet), succeeds. Fail cuts it off
anywhere, Crash all of them at once; what they have sent may still be applied.
How often this happens is not bounded. The next execution begins only when the
earlier ones have ended or lost their context: `SchedulerProofs` shows that for
what the worker starts. Assumed: Postgres settles what a cancelled
execution has sent before the next one, which has to fetch every difficulty
from kovaaks first, sends its COMMIT. `interrupted` is a history variable.

### CatalogueTx

`tables` is the committed state, `draft` what the transaction sees, `at` the
next statement. A difficulty row stands for the ranks, categories and
subcategories that hang on it. They have fresh ids, so no UNIQUE constraint can
refuse them; the types of their columns can, and so they are part of what is
`Storable`. `Unfit` are the names and data that parseBenchmarks lets pass and no
row can hold: a dateAdded that is no date (parseDate, `service.go:273`), a
scenarioCount above the range of INT, a text with a NUL or too long for its
index. Each statement that writes has a twin that is refused (RefuseNames,
RefuseBenchmark, RefuseDifficulty, RefuseScenario); it ends the sync as
"refused", while Abort is what may befall any of them. The two UNIQUE constraints
and the cascades are those of `schema.go`. ensureScenario is one statement in two
steps, because its snapshot is older than its INSERT; the API's transactions on
`scenarios` are external, and nobody deletes a scenario. `missed` is a history
variable: the scenarios for which ensureScenario has found no row.

### Leaderboard, LeaderboardRank

`runs`, `links` and `boards` are the committed tables, `refresh` and `sync` the
two open transactions. Each statement of the refresh is an action with a
snapshot of its own. Locks follow from the stages: the refresh holds the
benchmark leaderboard from its TRUNCATE on (HoldsBoard), the sync holds the
difficulty rows from its DELETE on (RowsLocked) and needs the leaderboard for
the cascade (SyncCascades), the refresh needs the rows for its foreign keys
(CheckDifficulties). When both wait, Postgres picks a victim (BreakDeadlock).
The sync replaces all difficulties, one here, under fresh ids. Runs are a set,
because runs that agree in everything the queries read give the same rows.
Scenarios and players are not deleted.

### ScenarioStats, Distribution

The loop over the joined rows takes one step a row: `todo` are the rows not
read yet, `loop` holds the scenario at hand and the updates that are complete,
`Scan` and `Flush` are its body and its closure. A summary is the set of runs it
is made from; what becomes of their values is `Distribution`, where a sample is
a function from values to occurrences and quantiles are in hundredths. The rounding of
floats is left out, and with it the clamps of the bin index, which exact
arithmetic never needs. An execution that was cancelled with its COMMIT under
way is orphaned and may still be applied.

### RankMerge

The source file and Kovaak's answer are built up entry by entry; the code's
functions are operators over them, their loops recursive functions over the
rounds. `KeptOf` is a loop that skips what is not wanted, `Take` one subcategory
of the walk, with int arithmetic that wraps at MaxInt. The tokens of the JSON decoder are
abstracted to the entries they spell.

### Settings, RunSyncConfig, Refleks

`process` is the environment the worker is started with, `dotenv` the lines of
the file; `Environment` is what os.Getenv and os.LookupEnv see after the file
has been read twice, `Setting` what a reader of it returns, `Accepted` whether
Load returns no error. A text is one of six kinds, as far as the code tells
texts apart; blanks around a text are trimmed wherever it is used. `DatabaseURL`
are the variables whose texts make up the URL: DATABASE_URL alone, or host, port
and sslmode of POSTGRES_*, of which Load reads the port as an integer and the
other two not at all. `Connects` is what pgxpool.ParseConfig asks of them, so a
URL that Load accepts need not connect. The PG* variables that pgx itself reads
are left out.

`RunSyncConfig` seeds key by key, in any order (a Go map), and may stop between
any two; `said` is a history variable, the last word of an operator.

In `Refleks` the operators that read are those of the code, over a reader that
holds what is left and what is complete. Numbers, tags and bytes are one symbol
each, whatever their width, and the checksum is ideal. What the client writes
(Encoded), how files are damaged (Damage) and how a client fails (Miswrite) is
external.

## 3. Runs

| Run | Instance | Shows |
|---|---|---|
| `runner` | 2 runs | SuccessIsDurable, NilMeansRecorded, StaleRowsHaveACause; refinement of RunLedger; RunsEnd |
| `scheduler` | 2 jobs, 3 crons, one refused by gocron, 2 edits, 3 runs at a time | EntriesAreRegistered, OneLiveRunPerJob, LiveRunsAreScheduled |
| `scheduler_valid` | 1 job, 2 valid crons, 2 edits | SyncReconciles; Converges, SignalEnds |
| `scheduler_refused` | as `scheduler`, 2 crons, one refused | *violation* of SyncReconciles, see 6 |
| `sync` | 2 executions, 3 versions of 3 contents | PrintMatchesCatalogue; refinement of AtomicCatalogue; Converges |
| `sync_unchanged` | the same | *violation* of UnchangedMeansSynced, see 6 |
| `catalogue_tx` | 13 files, 2 scenarios and a name no row can hold | TablesAreImage, RefusalsExplained; NoScenarioFailsTwice |
| `catalogue_acceptance` | the same | *violation* of AcceptanceIsDeterministic, see 6 |
| `leaderboard` | 3 of 8 runs, 2 players, 2 scenarios, maxRank 1, 2 syncs, 1 fault | DifficultiesStay, CompositeKeepsUp, NoDemotionByOwnRun; Converges |
| `stats` | 2 scenarios, 2 runs of 4 kinds, 2 executions, 2 faults | OneSnapshot, NeverOlder; Converges |
| `worker` | 1 job, 2 crons, 1 edit, 2 runs at a time, 1 content | refinement of BenchmarkSync (SyncSpec); OnlyScheduledRunsWrite; Delivers |
| `standalone` | see below | EveryValueCounted, QuantilesSplit; ScenariosFillGroups, PanicsOnlyOnOverflow, OrderIsKept; FirstTextWins, AcceptedSettingsServe; OperatorsDecide; AcceptedIsWritten |

A run with a liveness property uses the specification with fairness and no
symmetry; the safety properties are checked in the same exploration.

Bounds. Two runs suffice for the ledger because a run shares nothing with
another except through a wrong UPDATE, which two show. Two jobs and three gocron
runs allow a cancelled run, its successor and a run of the other job at once;
two edits allow disable and enable, or change and change back. Two executions
allow a cancelled one and its successor; slots are reused once they are settled,
so their number does not bound the syncs, and only the versions are bounded. Three
versions allow a file to be set back after an interrupted sync. The thirteen
files add, drop, rename, reorder, move, exchange and repeat difficulties, hold
none, or hold a value no row can, in the name or the date of a benchmark, in a
difficulty or in a link. Two players and two
scenarios give ties, composites of one and of two scores and rows beyond
maxRank; the eight runs to be uploaded include worse, later, zero and uncounted
ones, and three of them are what a demotion takes; two syncs give a first one,
with nothing to delete, and one that deletes. In `stats` two runs fall in one
scenario, in both, or leave one without any, and two faults leave a COMMIT
orphaned and cut off its successor. Scores are not negative, see the hazards. In
`worker` one edit disables, reschedules or deletes the job while its run is
anywhere, and two runs at a time are a cancelled one and its successor, as a
SIGTERM, a crash and a restart give them too. The file either is there or not:
its changes are left to `sync`, which `worker` shows to be what is started.

`standalone` has five modules that share no state: one moves while the others
are as they begin. Distribution: 5 batches of 1 or 99 of 4 values, 32 bins;
batches of 99 make the first and last percentile fall inside a sample, so that
there are outliers on both sides. RankMerge: 4 groups, 3 scenarios, 4 counts,
one of which overflows, 3 members of rankColors; groups are empty, filled, cut
short and left over, and ranks and groups come from different documents, so one
of them is built up at a time. Settings: a variable of each kind and
all that goes into the URL, at most four set (MaxAssigned), in the process, in two
lines of `.env` or both, comments and overlong lines included; four is what a
composed URL with one bad part takes.
RunSyncConfig: the four keys. Refleks: one content and
others that differ from it in one part, plain, blank, doubled, at
their limits and above them, plain or compressed, with any one symbol replaced,
lost or added, or cut short before they are sealed.

Fairness. `JobRunner`: timers fire, a job whose context has ended returns, and
finishRun returns once it may; nothing is asked of Postgres or of a job whose
context is live. `Scheduler`: worker-config-sync keeps firing, a Sync that has
begun goes on, main goes on (its waits end: Shutdown by its timeout), and a run
whose context has ended returns, which is `RunsEnd` of JobRunner; a run with a
live context owes nothing, for StartRun has no timeout, nor do operators and
other entries. `BenchmarkSync`: the job keeps being called and Postgres answers;
Converges says what happens once nothing is cut off any more (`<>[][~Fault]`).
`Worker`: the same of the composition, and that gocron fires the entry of the
sync, Runner calls the job, and a run whose job or context has ended returns.
`Leaderboard`: the refresh keeps being called, a sync that has begun goes on,
Postgres breaks deadlocks and serves the waiters of a table lock in turn, hence
strong fairness of the two actions that wait for one. `ScenarioStats`: the job
keeps being called and Postgres answers. Deadlock is checked where the system
runs for ever; the runs of `JobRunner` get used up.

## 4. Proofs

Of `JobRunner`, `StandaloneProofs` proves, for any set of runs, Typing, SuccessDurable,
NilRecorded, StaleCaused and ImplementsLedger, from no assumption. None of the
properties is inductive: that a row says "success" is written by Postgres long
after the runner has read the COMMIT's acknowledgement, so the invariant `Inv`
records for each run what is known from its program counter and from its
statement in flight (NotBegun, InsertPending, Working, Judged, RowAgrees,
Earned, GaveUp). A step of one run keeps that run consistent (StepConsistent)
and leaves the others alone (OthersSame, SameConsistent); LedgerStep maps
ApplyInsert to Open, ApplyUpdate to Close and every other step to a stutter.

`SchedulerProofs` proves Typing, NothingLost, LiveScheduled and NoOverlap for
any jobs, ids, rows and number of runs, from `SchedulerAssumption`: the startup
order lists jobs, gocron accepts some of the expressions, the seeded one is an
expression, and `None` is no id, registration or run. EntriesAreRegistered and LiveRunsAreScheduled are
part of the invariant as they stand. OneLiveRunPerJob is not inductive. Two live
runs of one job would both belong to an entry of that job, and the service has
registered one only; so it is enough that no entry has two live runs
(OneLiveRunPerEntry), and that runs without an entry are the startup runs of
main, one at a time and gone before gocron starts (RunsOfMain).
ValidRowsReconcile proves SyncReconciles under the further assumption that gocron
accepts every expression; without it the statement is false (see 6). It needs the
converse of EntriesAreRegistered: what is registered is scheduled
(RegistrationsAreScheduled), which only a refused Update can break.

It also proves, of `Worker`, WorkerImplementsSync and WritesAreScheduled, from
`WorkerAssumption` (the sync is one of the jobs) and those of the two parts.
Every step of Worker is one of BenchmarkSync or a stutter. Losing the context in
Scheduler, by an edit, SIGTERM or Shutdown, is Cancel of the executions
concerned, one at most by NoOverlap; a CallJob is Begin because a second live
run of the sync cannot be there. That is OneLiveRunPerJob again, so the proof
takes the invariant of Scheduler along and adds that busy executions
belong to runs of the sync that have been called (JobsHaveRuns) and that no run
is live once Shutdown has begun (NoneLiveAfterShutdown). A COMMIT is sent by a live run;
by LiveRunsAreScheduled its entry is scheduled, by EntriesAreRegistered the job
is then registered, and before main serves it can only be a startup run.

`BenchmarkSyncProofs` proves Typing, PrintFollowsTables and ImplementsCatalogue
for any contents and any number of executions, from `BenchmarkSyncAssumption`:
valid contents are contents, `None` is none, and MaxVersions is not zero. The invariant says that at most one execution still has its
context (Alone) and has read the newest version of all (Newest); that COMMIT and
SetJSON belong to their stages (Staged); that what is still in flight, though its
execution may be long gone, is the only thing in flight and does not set the
tables back (InFlight); that the execution in charge has Postgres to itself
between its two commits (InCharge); and that tables and fingerprint agree unless
a fingerprint is due (Agreement). The refinement follows from InFlight: applying a
COMMIT is Publish, or a stutter when the same version was already there.

`LeaderboardProofs` proves DifficultiesResolve, LeaderboardTyping,
CompositesKeepUp and NobodyDemoted, for any runs, players, scenarios and any
maxRank, from `DomainAssumption` and `MaxRankAssumption`. A sync deletes
difficulties while the refresh may hold rows about them, and its cascade cannot
reach rows that are not committed. What saves them is the lock: while the refresh
holds the leaderboard, the sync gets past its cascade only if there was nothing
to delete, and so nothing for the refresh to read (CascadeIsVoid). The others
speak of rankings. A place is one more than the number of rows ahead
(RowNumberCounts), so who has a row at least as good in the place of every row
that was his keeps his place (PlaceIsKept, ScenarioPlaces, DifficultyPlaces). A
new run of a player replaces at most one of the runs his composite is made of,
by a better one (BestsAfterRun), or adds one (CompositeGrows). CompositeKeepsUp
is not inductive: the scenario leaderboard is ranked first, the composites are
summed from runs read later, and runs are uploaded in between; the invariant is
that each row shown is backed by a run that is there (Backed), which later runs
do not undo (StaysBacked). It asks that no score is negative, as the run does: a
negative score would take away from a composite.

`ScenarioStatsProofs` proves ScenarioStatsTyping, StatsAreOneSnapshot and
StatsNeverGetOlder, for any scenarios, runs and executions, from
`UploadAssumption`, `BoundsAssumption`. What an execution holds was read in one snapshot, the
first so many of the uploads; the invariant names their number for each execution
and for the tables, and says of the loop which rows of the snapshot have gone
into complete updates, which into the scenario at hand, and that rows come
sorted by scenario, so that no scenario is met twice. NeverOlder needs that the
snapshots of executions are in the order in which they can still be applied, an
orphaned COMMIT before that of its successor.

`CatalogueTxProofs` proves TablesAlwaysImage, RefusalsAlwaysExplained and
ScenariosFailOnce, from `FilesAssumption`: files are sequences, and a difficulty
links a scenario once. TablesAreImage says nothing of
a transaction under way, so ImageInv states what each table holds when the
transaction has come to statement `at` (DraftIs): the rows of the file written so
far and the rows of the old tables not deleted yet, whose benchmarks are those
not cleared yet. Each statement has a lemma that takes DraftIs at one place to
DraftIs at the next (RemovedDraft to LinkedDraft); LinkedDraft needs that no
kovaaks id occurs twice in the draft (UniqueKids), or the upsert of a link could
replace an old one. At the COMMIT nothing old is left (CommittedDraft).
RefusalsAlwaysExplained uses the same picture of the draft: what is in the way of
an INSERT is either an old row of a benchmark that is not cleared yet, and so
listed later, or a row of this file, or a value the statement itself is to write
(ValuesRefused); and a file that gets to its COMMIT had neither row in its way
(Apart) and has had every value stored (Stored, StoredAtCommit). For
ScenariosFailOnce, a scenario that was missed once is committed, and a snapshot
taken afterwards shows it (MissedInv).

`StandaloneProofs` also takes the parts that run on their own.

- OperatorsAlwaysDecide, for any keys, from `RunSyncConfigAssumption` (the two
  marks are not values). That no key is missing once the worker is up follows
  from what a start has seeded and not left (SeedsOneByOne).
- FirstTextAlwaysWins and AcceptedAlwaysServe, for any variables and lines. The
  lines are read one by one (LoadIsLineByLine), and after each of them a variable
  has the first text so far that is not empty (Won, WonGrows). Reading the file a
  second time finds nothing left to set, so a good DATABASE_URL of the process
  is the one Load returns. That the worker connects is stated up to the texts Load
  does not look at, which the theorem names.
- ScenariosAlwaysFillGroups, PanicsAreOverflows and OrderAlwaysKept, for any two
  documents, from `MergeAssumption`: counts are ints that are not negative, the
  answer has fewer entries than there are ints, and the three kinds of color
  differ. After k subcategories the walk stands at the running total of the
  counts, or at the end (WalkedTo, TakeStep), and has panicked only if position
  and count together are above MaxInt (EndIs). A loop that skips lists those kept
  (Lists, KeptAreListed), two of them in a row those kept twice (ListOfList), and
  the links list the first scenario of each name (LinksInOrder).
- EveryValueAlwaysCounted and QuantilesAlwaysSplit, for any sample of finitely
  many values and any number of bins. An index below the size has one value in
  the sorted sample (SortedIs, SortedGrows); a quantile lies between its
  neighbours (PercentileIs), the first percentile not above the last
  (BoundsInOrder), so every value is below, above or in one bin (BinIs), and sums
  over the three add up (SumOfParts).

`RefleksProofs` proves AcceptedAlwaysWritten for any contents, limits and symbols,
from `RefleksAssumption` and `ContentsAssumption`: the client writes fields of the
right kinds, numbers are one symbol, and no file name is as long as the magic number
of zstd (4 GiB). What the reader does is compared with what the encoder writes.
A reader that has before it an encoding and any rest, but for a part q cut off the
end (`Facing`), fails if what it reads does not fit the limits, may fail
if q is not empty, and else has kept what was written and has the rest before it,
but for q (`Passed`). Symbols, counts and strings come first (SymbolsPassed,
CountPassed, StringPassed), then the entry of each section (StatPassed, CellPassed,
RowPassed, PointPassed, FieldPassed), the loops over them (SectionPassed, Collected;
AllMeaning, since a later stat replaces an earlier one with its key), the
sections and the file (ContentPassed). As the file must end where the reader
does, what parses has nothing cut off and nothing added (ParsedRight); and a
payload taken for compressed that is not, or the reverse, does not parse, for
the magic number is above the limit of the file name (ParsedWrong). The invariant,
FileMeant, says of a file that passes the checksum that its payload is as written,
whatever the header says of its compression, or that the header is right and the
client failed while it wrote: something is cut off or added (Meant).

`Lemmas` has what several of these need. A recursive function is what its rounds
make it: a function that satisfies the rounds exists (LoopExists) and is the only
one (LoopUnique). Sums over finite sets do not depend on the order
(SumRemove). Both go by induction on numbers, with a set in the place of a
predicate, from the well-foundedness of `<` (SetInduction, SubsetInduction).

Each refinement is stated by an instance of the abstract module with its
mapping: `RunLedger` in `JobRunner`, `AtomicCatalogue` in `BenchmarkSync`,
`BenchmarkSync` in `Worker`.

Every invariant and every action property a passing run checks is so stated by
a theorem. Only model-checked: liveness (RunsEnd, SignalEnds, Delivers and every
Converges), which the prover does not cover; and the three properties that are
violated (6), which there is nothing to prove of.

## 5. Not modelled

enrichBenchmarks is a step that succeeds or fails: it asks kovaaks for one
difficulty after the other, retries nothing and fails as a whole. Connecting, pinging and the DDL of `schema.Ensure` keep no state that a
later step depends on; a failure there is a Crash of `Scheduler`. The pool of
connections is external. Of the configuration, the variables that are only
logged and the composing of the source path are left out, and of the database
URL how its parts are escaped. Log lines, messages, details, durations and timestamps are left out. In
`Scheduler` rows that name no job of the worker are left out (Sync ignores
them). In `Worker` the run rows are left to `JobRunner`, and the other two jobs
are like any job.

Known and without a property, because the other side of it is not in the
repository: what gocron answers to a Sync that Shutdown overtakes (here it goes
no further); a deadlock between the sync, which keeps its new scenarios locked
until it commits, and an API transaction that adds several in another order; the
ACCESS EXCLUSIVE lock on `runs` that every start asks for (`schema.go:206`); and
which rank a threshold belongs to when the one before it is dropped
(`progress_parser.go:175`). The set of enabled jobs is taken once before the
startup runs; a job disabled during one of them still runs, as in `Scheduler`.

## 6. What the checks found

- `scheduler_refused`: a refused cron expression, set back to the old one,
  leaves an enabled job unscheduled, because the registration still carries the
  old expression while gocron has dropped the entry.
- `sync_unchanged`: tables and fingerprint are committed separately. Cut off in
  between, with the file then set back to its previous content, the job reports
  "benchmark source file unchanged" while the tables hold the other content.
- `catalogue_acceptance`: a difficulty that moves to a benchmark listed earlier
  collides with its old row; the sync of that file fails every time.

Read off the code, with no property of their own:

- every refresh moves `updated_at` of every scenario, though the repository's
  README has it reflect the last real change;
- when the 1st and 99th percentile are equal, the single bin counts the outliers
  too and none is reported as an outlier (`Bins`, `LowerCount`);
- ranks are trimmed, and dropped when name or color is blank or the color is no
  string, though the README has them preserved as written (`MergedRanks`);
- a variable of the process that holds blanks only hides its line in `.env`, and
  the default is taken (`SetUnlessSet`, `IsBlank`); a DATABASE_URL in `.env`
  beats POSTGRES_* of the process (`DatabaseURL`);
- the checks of Load that a text is not empty cannot fail, for the default has
  taken its place (`Accepted`); nor can a negative take in the merge, for
  parseBenchmarks refuses negative counts (`Accepted` of `CatalogueTx` comes
  first);
- a dateAdded that is no date, a scenarioCount above 2^31-1 or a name with a NUL
  passes parseBenchmarks and fails the sync of that file every time (`Unfit`);
- of POSTGRES_PORT Load checks that it is an integer, of POSTGRES_HOST and
  POSTGRES_SSLMODE nothing; port 0 or 70000, or an unknown mode, is refused by the
  database client at the start (`Connects`);
- no cron expression of the environment is checked by Load (`Schedules`). If gocron
  refuses that of the config sync, the start fails; one of a job is in the table by
  then, is refused in every Sync, and correcting the variable changes nothing;
- playedAt of a run file is not covered by the checksum (`AcceptedIsWritten`).

## 7. Plan

1. `Worker` with all three jobs, so that the locks of `Leaderboard` are taken by
   runs the scheduler starts, and with the run rows of `JobRunner`.
2. That the refresh of `Leaderboard` and the executions of `ScenarioStats` do not
   overlap while live is taken from OneLiveRunPerJob; as for the sync, it should
   become a refinement.
