----------------------------- MODULE CatalogueTx -----------------------------
(***************************************************************************)
(* The transaction of benchmarksync: parseBenchmarks and syncToDatabase,   *)
(* statement by statement, on the benchmark tables of schema.go with their *)
(* UNIQUE and CASCADE constraints, while the API (which is not part of the *)
(* repository) adds rows to the table scenarios it shares with the worker. *)
(*                                                                         *)
(* A row of benchmark_difficulties stands for its ranks, categories and    *)
(* subcategories as well: they hang on its new id, so no UNIQUE constraint *)
(* can refuse them, but the types of their columns can.  A benchmark is    *)
(* identified by its name, a difficulty by its kovaaks id.  The other      *)
(* columns of a row are one value, its data.  Left out: rank thresholds,   *)
(* timestamps.  Assumed: nobody deletes a scenario.                        *)
(***************************************************************************)
EXTENDS Naturals, Sequences

CONSTANTS
  Files,      \* source files: sequences of benchmarks, each with a sequence of
              \* difficulties, each with the sequence of its scenario links
  Scenarios,  \* scenario names
  Unfit,      \* the names and data parseBenchmarks lets pass and no row can hold:
              \* a date parseDate refuses, a scenarioCount above the range of INT, a
              \* text with a NUL or too long for its unique index
  None

IsSeq(s) == Len(s) \in Nat /\ DOMAIN s = 1..Len(s)

\* collectScenarioLinks links a scenario once (RankMerge!OrderIsKept).
ASSUME FilesAssumption ==
  /\ None \notin Files
  /\ \A f \in Files :
       /\ IsSeq(f)
       /\ \A b \in DOMAIN f :
            /\ IsSeq(f[b].difficulties)
            /\ \A d \in DOMAIN f[b].difficulties :
                 LET links == f[b].difficulties[d].links
                 IN IsSeq(links) /\ \A l, m \in DOMAIN links : links[l] = links[m] => l = m

VARIABLES
  tables,     \* the benchmark tables as committed
  scenarios,  \* scenario names as committed
  draft,      \* the tables as the transaction sees them
  own,        \* scenario names the transaction has inserted
  pending,    \* scenario names the API has inserted but not committed
  file,       \* the file of the current or last sync
  at,         \* the next statement and the benchmark, difficulty, link it is for
  visible,    \* whether the statement's snapshot shows the scenario
  outcome,    \* how the last sync ended
  synced,     \* history: the file of the last sync that committed
  missed      \* history: the scenarios a sync has found no row for

tx == <<draft, own, file, at, visible, outcome>>
vars == <<tables, scenarios, pending, synced, missed, tx>>

Empty == [benchmarks |-> {}, difficulties |-> {}, links |-> {}]

Names(f) == {f[b].name : b \in DOMAIN f}

Difficulties(f) ==
  UNION {{[kid |-> f[b].difficulties[d].kid, benchmark |-> f[b].name,
           name |-> f[b].difficulties[d].name, sort |-> d - 1,
           data |-> f[b].difficulties[d].data]
          : d \in DOMAIN f[b].difficulties} : b \in DOMAIN f}

\* The rows that stand for file f, whatever was there before.
Image(f) ==
  [benchmarks |-> {[name |-> f[b].name, data |-> f[b].data] : b \in DOMAIN f},
   difficulties |-> Difficulties(f),
   links |->
     UNION {UNION {
       LET links == f[b].difficulties[d].links IN
       {[kid |-> f[b].difficulties[d].kid, scenario |-> links[l], sort |-> l - 1]
        : l \in DOMAIN links} : d \in DOMAIN f[b].difficulties} : b \in DOMAIN f}]

At(stage, b, d, l) == [stage |-> stage, b |-> b, d |-> d, l |-> l]

Idle == At("idle", 0, 0, 0)

Init ==
  /\ tables = Empty
  /\ scenarios \in SUBSET (Scenarios \ Unfit)
  /\ draft = Empty
  /\ own = {}
  /\ pending = {}
  /\ file = None
  /\ at = Idle
  /\ visible = FALSE
  /\ outcome = "none"
  /\ synced = None
  /\ missed = {}

-----------------------------------------------------------------------------
(* The order of the statements *)

Benchmark == file[at.b]
Difficulty == Benchmark.difficulties[at.d]
Scenario == Difficulty.links[at.l]

AfterBenchmark ==
  IF at.b < Len(file) THEN At("upserting", at.b + 1, 0, 0)
                      ELSE At("committing", 0, 0, 0)

AfterDifficulty ==
  IF at.d < Len(Benchmark.difficulties) THEN At("inserting", at.b, at.d + 1, 0)
                                        ELSE AfterBenchmark

AfterLink ==
  IF at.l < Len(Difficulty.links) THEN At("ensuring", at.b, at.d, at.l + 1)
                                  ELSE AfterDifficulty

-----------------------------------------------------------------------------
(* The sync *)

\* parseBenchmarks: names and kovaaks ids are unique in the file.
Accepted(f) ==
  /\ f # <<>>
  /\ \A b, c \in DOMAIN f : f[b].name = f[c].name => b = c
  /\ \A x, y \in Difficulties(f) : x.kid = y.kid => x = y

Begin ==
  /\ at = Idle
  /\ \E f \in Files :
       /\ file' = f
       /\ IF Accepted(f)
            THEN /\ at' = At("deleting", 0, 0, 0)
                 /\ draft' = tables
                 /\ outcome' = "none"
            ELSE outcome' = "invalid" /\ UNCHANGED <<at, draft>>
  /\ own' = {}
  /\ UNCHANGED <<tables, scenarios, pending, visible, synced, missed>>

Ends(how) ==
  /\ at' = Idle
  /\ draft' = Empty
  /\ own' = {}
  /\ visible' = FALSE
  /\ outcome' = how
  /\ UNCHANGED file

\* Postgres or parseDate refuses what the statement is to write: the transaction is
\* rolled back, and would be again.
Refuse == Ends("refused") /\ UNCHANGED <<tables, scenarios, pending, synced, missed>>

\* A row can hold the benchmark or difficulty x, and what hangs on it.
Storable(x) == {x.name, x.data} \cap Unfit = {}

\* Deleting difficulties cascades to everything that hangs on them.
Without(t, difficulties) ==
  [t EXCEPT !.difficulties = @ \ difficulties,
            !.links = {link \in @ : \A d \in difficulties : link.kid # d.kid}]

\* Variant: the benchmarks that are no longer listed stay.
KeepRemoved ==
  /\ at.stage = "deleting"
  /\ at' = AfterBenchmark
  /\ UNCHANGED <<tables, scenarios, pending, synced, missed, draft, own, file, visible,
                 outcome>>

DeleteRemoved ==
  /\ at.stage = "deleting"
  /\ draft' =
       [Without(draft, {d \in draft.difficulties : d.benchmark \notin Names(file)})
        EXCEPT !.benchmarks = {b \in @ : b.name \in Names(file)}]
  /\ at' = AfterBenchmark
  /\ UNCHANGED <<tables, scenarios, pending, synced, missed, own, file, visible, outcome>>

\* The names are the parameter of that DELETE: a text with a NUL is refused here, one
\* that is too long for the index only when it is inserted.
RefuseNames ==
  /\ at.stage = "deleting"
  /\ Names(file) \cap Unfit # {}
  /\ Refuse

UpsertBenchmark ==
  /\ at.stage = "upserting"
  /\ Storable(Benchmark)
  /\ draft' =
       [draft EXCEPT !.benchmarks =
          {b \in @ : b.name # Benchmark.name}
          \cup {[name |-> Benchmark.name, data |-> Benchmark.data]}]
  /\ at' = [at EXCEPT !.stage = "clearing"]
  /\ UNCHANGED <<tables, scenarios, pending, synced, missed, own, file, visible, outcome>>

RefuseBenchmark ==
  /\ at.stage = "upserting"
  /\ ~Storable(Benchmark)
  /\ Refuse

ClearHierarchy ==
  /\ at.stage = "clearing"
  /\ draft' = Without(draft, {d \in draft.difficulties :
                                d.benchmark = Benchmark.name})
  /\ at' = AfterDifficulty
  /\ UNCHANGED <<tables, scenarios, pending, synced, missed, own, file, visible, outcome>>

NewDifficulty ==
  [kid |-> Difficulty.kid, benchmark |-> Benchmark.name, name |-> Difficulty.name,
   sort |-> at.d - 1, data |-> Difficulty.data]

\* UNIQUE (kovaaks_benchmark_id) and UNIQUE (benchmark_id, difficulty_name)
Collides ==
  \E d \in draft.difficulties :
    \/ d.kid = NewDifficulty.kid
    \/ d.benchmark = NewDifficulty.benchmark /\ d.name = NewDifficulty.name

\* Variant: a row with the same kovaaks id is taken over (upsert).
InsertOrTakeOver ==
  /\ at.stage = "inserting"
  /\ Storable(Difficulty)
  /\ draft' = [draft EXCEPT !.difficulties =
                 {d \in @ : d.kid # Difficulty.kid} \cup {NewDifficulty}]
  /\ at' = AfterLink
  /\ UNCHANGED <<tables, scenarios, pending, synced, missed, own, file, visible, outcome>>

InsertDifficulty ==
  /\ at.stage = "inserting"
  /\ ~Collides
  /\ Storable(Difficulty)
  /\ draft' = [draft EXCEPT !.difficulties = @ \cup {NewDifficulty}]
  /\ at' = AfterLink
  /\ UNCHANGED <<tables, scenarios, pending, synced, missed, own, file, visible, outcome>>

RefuseDifficulty ==
  /\ at.stage = "inserting"
  /\ Collides \/ ~Storable(Difficulty)
  /\ Refuse

\* Variant: the statement is the INSERT alone; only a row of its own is returned.
EnsureWithoutSelect ==
  /\ at.stage = "ensuring"
  /\ visible' = (Scenario \in own)
  /\ at' = [at EXCEPT !.stage = "linking"]
  /\ UNCHANGED <<tables, scenarios, pending, synced, missed, draft, own, file, outcome>>

\* ensureScenario is one statement: it takes its snapshot when it begins ...
EnsureScenario ==
  /\ at.stage = "ensuring"
  /\ visible' = (Scenario \in scenarios \cup own)
  /\ at' = [at EXCEPT !.stage = "linking"]
  /\ UNCHANGED <<tables, scenarios, pending, synced, missed, draft, own, file, outcome>>

\* ... and inserts on what is there by then.  It waits for the API's uncommitted
\* row; ON CONFLICT DO NOTHING and the SELECT on the snapshot may both be empty.
ScenarioNotFound ==
  /\ at.stage = "linking"
  /\ Scenario \notin pending
  /\ ~visible
  /\ Scenario \in scenarios
  /\ missed' = missed \cup {Scenario}
  /\ Ends("norows")
  /\ UNCHANGED <<tables, scenarios, pending, synced>>

RefuseScenario ==
  /\ at.stage = "linking"
  /\ Scenario \in Unfit
  /\ Refuse

InsertLink ==
  /\ at.stage = "linking"
  /\ Scenario \notin pending
  /\ Scenario \notin Unfit
  /\ visible \/ Scenario \notin scenarios
  /\ own' = IF visible THEN own ELSE own \cup {Scenario}
  /\ draft' =
       [draft EXCEPT !.links =
          {link \in @ : link.kid # Difficulty.kid \/ link.scenario # Scenario}
          \cup {[kid |-> Difficulty.kid, scenario |-> Scenario, sort |-> at.l - 1]}]
  /\ at' = AfterLink
  /\ UNCHANGED <<tables, scenarios, pending, synced, missed, file, visible, outcome>>

Commit ==
  /\ at.stage = "committing"
  /\ tables' = draft
  /\ scenarios' = scenarios \cup own
  /\ synced' = file
  /\ Ends("committed")
  /\ UNCHANGED <<pending, missed>>

\* Cancelled, timed out, connection lost, process dead: the deferred Rollback, or
\* Postgres, drops the transaction.
Abort ==
  /\ at # Idle
  /\ Ends("aborted")
  /\ UNCHANGED <<tables, scenarios, pending, synced, missed>>

-----------------------------------------------------------------------------
(* The API: a first run of a scenario is uploaded *)

ApiInserts(name) ==
  /\ name \notin scenarios \cup own \cup pending \cup Unfit
  /\ pending' = pending \cup {name}
  /\ UNCHANGED <<tables, scenarios, synced, missed, tx>>

ApiEnds(name) ==
  /\ name \in pending
  /\ pending' = pending \ {name}
  /\ scenarios' \in {scenarios, scenarios \cup {name}}
  /\ UNCHANGED <<tables, synced, missed, tx>>

-----------------------------------------------------------------------------
Next ==
  \/ Begin \/ DeleteRemoved \/ RefuseNames
  \/ UpsertBenchmark \/ RefuseBenchmark \/ ClearHierarchy
  \/ InsertDifficulty \/ RefuseDifficulty
  \/ EnsureScenario \/ ScenarioNotFound \/ RefuseScenario \/ InsertLink
  \/ Commit \/ Abort
  \/ \E name \in Scenarios : ApiInserts(name) \/ ApiEnds(name)

Spec == Init /\ [][Next]_vars

-----------------------------------------------------------------------------
(* Properties *)

\* After any sequence of syncs, completed or broken off at any statement, the
\* tables are exactly the image of the last file whose sync committed: nothing of
\* an earlier file is left over, nothing of a failed sync shows.
TablesAreImage == tables = IF synced = None THEN Empty ELSE Image(synced)

\* ensureScenario finds no row for a scenario at most once in the life of the tables:
\* whoever has inserted it meanwhile, the syncs that follow see it and get past it.
NoScenarioFailsTwice ==
  [][outcome # "norows" /\ outcome' = "norows" => Scenario \notin missed]_vars

\* A difficulty of the file is still stored under a benchmark that is listed later
\* than the one it has moved to.
MovesUp(f, t) ==
  \E b, c \in DOMAIN f :
    /\ b < c
    /\ \E d \in DOMAIN f[b].difficulties, old \in t.difficulties :
         /\ old.kid = f[b].difficulties[d].kid
         /\ old.benchmark = f[c].name

RepeatsName(f) ==
  \E x, y \in Difficulties(f) :
    x # y /\ x.benchmark = y.benchmark /\ x.name = y.name

\* Every row of the file can be stored.
Fits(f) ==
  \A b \in DOMAIN f :
    /\ Storable(f[b])
    /\ \A d \in DOMAIN f[b].difficulties :
         LET links == f[b].difficulties[d].links
         IN Storable(f[b].difficulties[d]) /\ \A l \in DOMAIN links : links[l] \notin Unfit

\* Exactly which files parseBenchmarks accepts and the transaction refuses: one that
\* uses a difficulty name twice in a benchmark, one that moves a difficulty up to a
\* benchmark listed earlier, and one with a value no row can hold.
RefusalsExplained ==
  /\ outcome = "refused" => MovesUp(file, tables) \/ RepeatsName(file) \/ ~Fits(file)
  /\ at.stage = "committing" =>
       ~MovesUp(file, tables) /\ ~RepeatsName(file) /\ Fits(file)

\* Whether the tables accept a file depends on the file alone.
AcceptanceIsDeterministic == outcome = "refused" => RepeatsName(file) \/ ~Fits(file)
=============================================================================
