---------------------------- MODULE MCStandalone -----------------------------
(* The parts that nothing else of the worker runs beside, in one run: the
   distribution of a metric, the merge of a difficulty, the settings, the
   seeding of run_sync_config and the .refleks parser.  One of them moves while
   the others are as they begin. *)
EXTENDS Distribution, RankMerge, Settings, RunSyncConfig, Refleks

\* Values that leave bins empty, in batches large enough to keep the first and
\* the last percentile away from the extremes.
MCValues == {0, 1, 4, 10}

MCBatches == {1, 99}

\* Two names that differ in case only, one of them padded, and another one.
MCNames == {[key |-> "a", spelling |-> "low", padded |-> FALSE],
            [key |-> "a", spelling |-> "UP", padded |-> TRUE],
            [key |-> "b", spelling |-> "low", padded |-> FALSE]}

MCThresholds == {<<1>>, <<Junk, 0, 2, -1>>}

\* The last one overflows wherever it does not stand first.
MCCounts == {0, 1, 2, MaxInt}

\* One variable of each kind, and all that goes into the URL of the database.
MCNamed == {"WORKER_JOB_TIMEOUT", "LEADERBOARD_MAX_RANK", "CONFIG_SYNC_CRON", "LEADERBOARD_CRON",
            "DATABASE_URL", "POSTGRES_HOST", "POSTGRES_PORT", "POSTGRES_DB", "POSTGRES_USER",
            "POSTGRES_SSLMODE"}

MCTexts == [key \in MCNamed |->
  CASE key = "WORKER_JOB_TIMEOUT" -> {"", " ", "some", "zero", "junk"}
    [] key = "DATABASE_URL" -> {"", "some", "junk"}
    [] key = "POSTGRES_PORT" -> {"zero", "junk"}
    [] key = "LEADERBOARD_MAX_RANK" -> {"zero"}
    [] key \in {"POSTGRES_DB", "POSTGRES_USER"} -> {"some"}
    [] OTHER -> {"junk"}]

\* Bound: variables set in the process and lines of .env together.
MaxAssigned == 4

Assigned == Cardinality({key \in Keys : process[key] # Unset}) + Len(dotenv)

MCSettings == {"sync_enabled", "store_runs_enabled", "store_non_anon_only",
               "store_with_mouse_trace_only"}

MCTrueByDefault == {"sync_enabled", "store_runs_enabled"}

\* Strings and numbers that tell every field from its neighbours.
MCEnv == [i \in DOMAIN Fields |->
  IF Fields[i] # "string" THEN <<i % 5>> ELSE IF i \in {1, 8} THEN <<2, 3>> ELSE <<>>]

MCContent ==
  [name |-> <<0, 5>>, stats |-> <<[key |-> <<2>>, tag |-> 2, value |-> <<3>>]>>,
   events |-> <<>>, trace |-> <<>>, env |-> MCEnv]

MCStats == {[key |-> <<2>>, tag |-> 1, value |-> <<3, 3>>],
            [key |-> <<2>>, tag |-> 4, value |-> <<1>>],
            [key |-> <<>>, tag |-> 4, value |-> <<7>>],
            [key |-> <<4, 4, 4>>, tag |-> 3, value |-> <<6>>]}

\* A plain file; names, stats, events, traces and strings that are blank, doubled,
\* at their limits and above them.
MCContents ==
  {MCContent} \cup
  {[MCContent EXCEPT !.name = name] : name \in {<<>>, <<0, 0>>, <<1, 2, 3>>}} \cup
  {[MCContent EXCEPT !.stats = stats] :
     stats \in {<<a, b>> : a, b \in MCStats} \cup {<<>>} \cup {<<a, a, a>> : a \in MCStats}} \cup
  {[MCContent EXCEPT !.events = events] :
     events \in {<< <<>>, << <<1>>, <<2, 2, 2>> >> >>, << << <<>>, <<>>, <<>> >> >>,
                 << <<>>, <<>>, <<>> >>}} \cup
  {[MCContent EXCEPT !.trace = trace] :
     trace \in {<< <<1, 2, 3, 4>> >>, << <<1, 1, 1, 1>>, <<4, 3, 2, 1>> >>}} \cup
  {[MCContent EXCEPT !.env[5] = <<1, 1, 1, 1>>]}

DistributionIdle == DistributionInit /\ UNCHANGED distributionVars
MergeIdle == MergeInit /\ UNCHANGED mergeVars
SettingsIdle == SettingsInit /\ UNCHANGED settingsVars
RunSyncIdle == RunSyncInit /\ UNCHANGED runSyncVars
RefleksIdle == RefleksInit /\ UNCHANGED refleksVars

MCInit == DistributionInit /\ MergeInit /\ SettingsInit /\ RunSyncInit /\ RefleksInit

\* Ranks come from one document, groups and links from the others: one of these
\* is built up at a time.
MCMergeNext ==
  \/ AddRank /\ categories = <<>> /\ progress = <<>>
  \/ (AddCategory \/ AddSubcategory \/ AddEntry) /\ rankColors = <<>>

MCSettingsNext == Assigned < MaxAssigned /\ SettingsNext

MCNext ==
  \/ MergeIdle /\ SettingsIdle /\ RunSyncIdle /\ RefleksIdle /\ UploadRuns
  \/ DistributionIdle /\ SettingsIdle /\ RunSyncIdle /\ RefleksIdle /\ MCMergeNext
  \/ DistributionIdle /\ MergeIdle /\ RunSyncIdle /\ RefleksIdle /\ MCSettingsNext
  \/ DistributionIdle /\ MergeIdle /\ SettingsIdle /\ RefleksIdle /\ RunSyncNext
  \/ DistributionIdle /\ MergeIdle /\ SettingsIdle /\ RunSyncIdle /\ RefleksNext

MCSpec == MCInit /\ [][MCNext]_<<distributionVars, mergeVars, settingsVars, runSyncVars, refleksVars>>
==============================================================================
