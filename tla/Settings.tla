------------------------------ MODULE Settings -------------------------------
(***************************************************************************)
(* config.Load: the settings of the worker from the variables of the       *)
(* process and from the file .env, and what the constructors called with   *)
(* them ask for.                                                           *)
(*                                                                         *)
(* A text is abstracted to what the code tells apart: "" and " " (blanks   *)
(* only), "some" and "other" (what the setting asks for), "zero" (a number *)
(* out of its range: not above zero, or no port) and "junk" (not well-     *)
(* formed; for a host, what no URL can hold).  Blanks around a text are    *)
(* trimmed everywhere.  Left out: the PG* variables that pgx itself reads. *)
(***************************************************************************)
EXTENDS Naturals, Sequences, SequencesExt

CONSTANTS Named,      \* the variables somebody sets
          Texts,      \* the texts each of them is set to
          MaxLines    \* bound: lines of .env

Unset == "unset"

Ignored == [key |-> "#", value |-> ""]    \* a comment, a line without =
TooLong == [key |-> "...", value |-> ""]  \* a line the Scanner cannot hold

Checked == {"LOG_LEVEL", "WORKER_JOB_TIMEOUT", "WORKER_RUN_ON_STARTUP", "LEADERBOARD_MAX_RANK",
            "WORKER_TIMEZONE"}

Crons == {"LEADERBOARD_CRON", "SCENARIO_STATS_CRON", "BENCHMARK_SYNC_CRON", "CONFIG_SYNC_CRON"}

Unchecked == Crons \cup {"BENCHMARK_SYNC_SOURCE_DIR", "BENCHMARK_SYNC_SOURCE_FILE"}

Connection == {"DATABASE_URL", "POSTGRES_HOST", "POSTGRES_PORT", "POSTGRES_DB", "POSTGRES_USER",
               "POSTGRES_PASSWORD", "POSTGRES_SSLMODE"}

Keys == Checked \cup Unchecked \cup Connection

ASSUME SettingsAssumption ==
  /\ Named \subseteq Keys
  /\ \A key \in Named : Texts[key] \subseteq {"", " ", "some", "other", "zero", "junk"}

VARIABLES process,   \* the environment the process is started with
          dotenv     \* the lines of .env

settingsVars == <<process, dotenv>>

-----------------------------------------------------------------------------
(* .env *)

\* The assignments somebody writes; export and quotes are stripped, so that " "
\* stands for quoted blanks.
Line == UNION {{[key |-> key, value |-> text] : text \in Texts[key]} : key \in Named}

\* Variant: a variable that exists, if only as "", is not set.
SetUnlessThere(env, line) ==
  IF line = Ignored \/ env[line.key] # Unset THEN env
  ELSE [env EXCEPT ![line.key] = line.value]

\* os.Getenv gives "" also for a variable that is not set.
SetUnlessSet(env, line) ==
  IF line = Ignored \/ env[line.key] \notin {Unset, ""} THEN env
  ELSE [env EXCEPT ![line.key] = line.value]

\* The Scanner stops at a line that is too long, without a word.
Scanned ==
  LET tooLong == {i \in DOMAIN dotenv : dotenv[i] = TooLong}
  IN IF tooLong = {} THEN dotenv ELSE SubSeq(dotenv, 1, Min(tooLong) - 1)

LoadDotEnv(env) ==
  LET after[n \in 0..Len(Scanned)] ==
        IF n = 0 THEN env ELSE SetUnlessSet(after[n - 1], Scanned[n])
  IN after[Len(Scanned)]

\* ensureEnvLoaded reads the file twice, by two names.
Environment == LoadDotEnv(LoadDotEnv(process))

-----------------------------------------------------------------------------
(* Load *)

IsBlank(text) == text \in {Unset, "", " "}

Default == "default"

\* envOrDefault, envInt, envBool, envDuration
Setting(key) == IF IsBlank(Environment[key]) THEN Default ELSE Environment[key]

Proper(key) == Setting(key) \in {Default, "some", "other"}

\* strconv, time and parseLogLevel; of a port Load only asks that it is an integer.
WellFormed(key) ==
  \/ Proper(key)
  \/ /\ Setting(key) = "zero"
     /\ key \in {"WORKER_JOB_TIMEOUT", "LEADERBOARD_MAX_RANK", "POSTGRES_PORT",
                 "WORKER_RUN_ON_STARTUP"}

\* loadDatabaseURL: the variables whose texts make up the URL, none if there is an
\* error.  Database, user and password are escaped: any text of theirs will do, but
\* the first two have no default.
DatabaseURL ==
  IF ~IsBlank(Environment["DATABASE_URL"]) THEN {"DATABASE_URL"}
  ELSE IF /\ WellFormed("POSTGRES_PORT")
          /\ ~IsBlank(Environment["POSTGRES_DB"])
          /\ ~IsBlank(Environment["POSTGRES_USER"])
       THEN {"POSTGRES_HOST", "POSTGRES_PORT", "POSTGRES_SSLMODE"}
       ELSE {}

\* Variant: a timeout of zero is let through.
AcceptedWithZeroTimeout ==
  /\ \A key \in Checked : WellFormed(key)
  /\ Setting("LEADERBOARD_MAX_RANK") # "zero"
  /\ DatabaseURL # {}

\* Load returns no error.  No text it refuses for being empty can be empty:
\* the default has taken its place.
Accepted ==
  /\ \A key \in Checked : WellFormed(key)
  /\ Setting("WORKER_JOB_TIMEOUT") # "zero"
  /\ Setting("LEADERBOARD_MAX_RANK") # "zero"
  /\ DatabaseURL # {}

-----------------------------------------------------------------------------
(* What is built from them *)

\* Runner.Run sets a deadline for the job.
RunsAreBounded == Setting("WORKER_JOB_TIMEOUT") # "zero"

\* leaderboard.NewService
RanksAreBounded == Setting("LEADERBOARD_MAX_RANK") # "zero"

\* postgres.NewClient: pgxpool.ParseConfig refuses a URL with a host that cannot be
\* parsed, a port outside 1..65535 or an sslmode it does not know.
Connects == DatabaseURL # {} /\ \A key \in DatabaseURL : Proper(key)

\* gocron parses the expression: that of the config sync when the scheduler is made
\* (a failed start), those of the jobs when Sync schedules their seeded rows (logged).
Schedules(cron) == ~IsBlank(Setting(cron)) /\ Proper(cron)

\* benchmarksync.NewService and Config.BenchmarkSyncPath
HasSource == ~IsBlank(Setting("BENCHMARK_SYNC_SOURCE_FILE"))

-----------------------------------------------------------------------------
SettingsInit ==
  /\ process = [key \in Keys |-> Unset]
  /\ dotenv = <<>>

SetVariable ==
  /\ \E key \in Named : \E text \in Texts[key] :
       process[key] = Unset /\ process' = [process EXCEPT ![key] = text]
  /\ UNCHANGED dotenv

AddLine ==
  /\ Len(dotenv) < MaxLines
  /\ \E line \in Line \cup {Ignored, TooLong} :
       dotenv' = Append(dotenv, line)
  /\ UNCHANGED process

SettingsNext == SetVariable \/ AddLine

SettingsSpec == SettingsInit /\ [][SettingsNext]_settingsVars

-----------------------------------------------------------------------------
(* Properties *)

\* Each variable has the first text that is not empty, the process before the
\* lines of .env in their order, up to a line that is too long; reading the file
\* twice changes nothing.
FirstTextWins ==
  \A key \in Named :
    LET readable == {i \in DOMAIN dotenv : \A j \in 1..i : dotenv[j] # TooLong}
        telling == {i \in readable : dotenv[i].key = key /\ dotenv[i].value # ""}
        text(t) == IF t = Unset THEN "" ELSE t
    IN text(Environment[key]) =
         IF text(process[key]) # "" THEN process[key]
         ELSE IF telling # {} THEN dotenv[Min(telling)].value ELSE ""

\* With settings Load accepts every run has a deadline, ranks are limited and there is
\* a source; the worker connects and every cron schedules, unless the database client
\* or gocron refuses a text that Load has let pass unseen.  An empty one is never the
\* reason, a default or an error of Load's has come first; and a good URL the process
\* is started with connects whatever .env and the other variables say.
AcceptedSettingsServe ==
  Accepted => /\ RunsAreBounded
              /\ RanksAreBounded
              /\ HasSource
              /\ Connects \/ \E key \in DatabaseURL : ~Proper(key)
              /\ process["DATABASE_URL"] \in {"some", "other"} => Connects
              /\ \A cron \in Crons : Schedules(cron) \/ ~Proper(cron)
=============================================================================
