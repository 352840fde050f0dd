--------------------------- MODULE StandaloneProofs ---------------------------
(***************************************************************************)
(* What TLAPS proves about the parts that need no other part of the worker *)
(* beside them.  For any runs that overlap, the runner claims no success   *)
(* that is not committed, and implements RunLedger.  For any keys and any  *)
(* number of starts that break off, seeding run_sync_config never          *)
(* overrules an operator and leaves no key out.  For any variables and any *)
(* file .env, each setting has the first text that is not empty, and what  *)
(* Load accepts serves.  For any two documents, the merge of a difficulty  *)
(* neither loses nor doubles nor moves a scenario, a rank or a link, and   *)
(* panics on an overflow only.  For any sample, the histogram counts every *)
(* value once and the quantiles split it.                                  *)
(***************************************************************************)
EXTENDS JobRunner, RunSyncConfig, Settings, RankMerge, Distribution, Lemmas

-----------------------------------------------------------------------------
(* The runner and its ledger *)

\* The inductive invariant: what is known of a run r from where it stands.

\* Before StartRun nothing of the run exists.
NotBegun(r) ==
  pc[r] = "idle" =>
    /\ stmt[r] = "none"
    /\ row[r] = "none"
    /\ work[r] = "none"
    /\ verdict[r] = "none"

\* The INSERT is sent once, and before the job is called.
InsertPending(r) ==
  /\ pc[r] = "starting" =>
       stmt[r] \in {"insert", "ok", "error"} /\ work[r] = "none" /\ verdict[r] = "none"
  /\ stmt[r] = "insert" => row[r] = "none" /\ verdict[r] = "none"

\* The job works on an open row.
Working(r) ==
  pc[r] = "working" => row[r] = "running" /\ stmt[r] = "none" /\ verdict[r] = "none"

\* There is a verdict exactly from the job's return on.
Judged(r) ==
  /\ pc[r] = "finishing" => verdict[r] # "none" /\ stmt[r] # "none"
  /\ verdict[r] # "none" => pc[r] \in {"finishing", "returned", "crashed"}
  /\ stmt[r] \in {"update", "lost"} => verdict[r] # "none"

\* The row agrees with the verdict and with the answer to the last statement.
RowAgrees(r) ==
  /\ verdict[r] = "none" => row[r] \in {"none", "running"}
  /\ verdict[r] # "none" => row[r] \in {"running", verdict[r]}
  /\ stmt[r] = "update" => row[r] = "running"
  /\ stmt[r] = "ok" => row[r] = IF verdict[r] = "none" THEN "running" ELSE verdict[r]

\* Success stands on an applied COMMIT, a nil result on a closed row.
Earned(r) ==
  /\ verdict[r] = "success" => work[r] = "applied"
  /\ result[r] = "nil" => verdict[r] \in {"success", "skipped"} /\ row[r] = verdict[r]
  /\ result[r] # "none" => pc[r] = "returned"

GaveUp(r) ==
  pc[r] = "returned" /\ verdict[r] # "none" /\ row[r] = "running" => FinishGivesUp(r)

Consistent(r) ==
  /\ NotBegun(r)
  /\ InsertPending(r)
  /\ Working(r)
  /\ Judged(r)
  /\ RowAgrees(r)
  /\ Earned(r)
  /\ GaveUp(r)

Inv == TypeOK /\ \A r \in Runs : Consistent(r)
-----------------------------------------------------------------------------
\* Nothing has begun: the initial values are of the right types.
LEMMA InitTypeOK == Init => TypeOK
  BY DEF Init, TypeOK, Active

\* Every step writes values of the right types.
LEMMA NextTypeOK == TypeOK /\ [Next]_vars => TypeOK'
<1> SUFFICES ASSUME TypeOK, [Next]_vars PROVE TypeOK'
  OBVIOUS
<1> USE DEF TypeOK, Active
<1>1. ASSUME NEW r \in Runs, StartRun(r) PROVE TypeOK'
  BY <1>1 DEF StartRun
<1>2. ASSUME NEW r \in Runs, Started(r) PROVE TypeOK'
  BY <1>2 DEF Started
<1>3. ASSUME NEW r \in Runs, StartFailed(r) PROVE TypeOK'
  BY <1>3 DEF StartFailed
<1>4. ASSUME NEW r \in Runs, SendCommit(r) PROVE TypeOK'
  BY <1>4 DEF SendCommit
<1>5. ASSUME NEW r \in Runs, JobSucceeds(r) PROVE TypeOK'
  BY <1>5 DEF JobSucceeds, JobReturns
<1>6. ASSUME NEW r \in Runs, JobSkips(r) PROVE TypeOK'
  BY <1>6 DEF JobSkips, JobReturns
<1>7. ASSUME NEW r \in Runs, JobFails(r) PROVE TypeOK'
  BY <1>7 DEF JobFails, JobReturns
<1>8. ASSUME NEW r \in Runs, Finished(r) PROVE TypeOK'
  BY <1>8 DEF Finished
<1>9. ASSUME NEW r \in Runs, FinishFailed(r) PROVE TypeOK'
  BY <1>9 DEF FinishFailed, FinishGivesUp
<1>10. ASSUME NEW r \in Runs, Cancel(r) PROVE TypeOK'
  BY <1>10 DEF Cancel
<1>11. ASSUME NEW r \in Runs, Deadline(r) PROVE TypeOK'
  BY <1>11 DEF Deadline
<1>12. ASSUME NEW r \in Runs, FinalizeExpires(r) PROVE TypeOK'
  BY <1>12 DEF FinalizeExpires
<1>13. ASSUME NEW r \in Runs, ApplyInsert(r) PROVE TypeOK'
  BY <1>13 DEF ApplyInsert
<1>14. ASSUME NEW r \in Runs, ApplyUpdate(r) PROVE TypeOK'
  BY <1>14 DEF ApplyUpdate
<1>15. ASSUME NEW r \in Runs, RefuseStatement(r) PROVE TypeOK'
  BY <1>15 DEF RefuseStatement
<1>16. ASSUME NEW r \in Runs, LoseConnection(r) PROVE TypeOK'
  BY <1>16 DEF LoseConnection
<1>17. ASSUME NEW r \in Runs, Decide(r) PROVE TypeOK'
  BY <1>17 DEF Decide
<1>18. CASE Crash
  BY <1>18 DEF Crash
<1>19. CASE UNCHANGED vars
  BY <1>19 DEF vars
<1> QED
  BY <1>1, <1>2, <1>3, <1>4, <1>5, <1>6, <1>7, <1>8, <1>9, <1>10, <1>11, <1>12,
     <1>13, <1>14, <1>15, <1>16, <1>17, <1>18, <1>19 DEF Next, RunStep

\* The variables keep to the states listed in TypeOK, whatever Run, finishRun and
\* Postgres write.
THEOREM Typing == Spec => []TypeOK
  BY InitTypeOK, NextTypeOK, PTL DEF Spec

-----------------------------------------------------------------------------
(* The runner: its invariant is inductive *)

\* What a step leaves to a run it does not touch.
Same(r) ==
  /\ pc'[r] = pc[r]
  /\ finalize'[r] = finalize[r]
  /\ stmt'[r] = stmt[r]
  /\ row'[r] = row[r]
  /\ work'[r] = work[r]
  /\ verdict'[r] = verdict[r]
  /\ result'[r] = result[r]

\* A run whose state does not change stays consistent.
LEMMA SameConsistent ==
  ASSUME TypeOK, TypeOK', NEW q \in Runs, Consistent(q), Same(q)
  PROVE  Consistent(q)'
  BY DEF TypeOK, Consistent, Same, NotBegun, InsertPending, Working, Judged, RowAgrees,
         Earned, GaveUp, FinishGivesUp

\* The runs a step of run r leaves alone.
LEMMA OthersSame ==
  ASSUME TypeOK, NEW r \in Runs, NEW q \in Runs, q # r, RunStep(r)
  PROVE  Same(q)
  BY DEF TypeOK, RunStep, Same, StartRun, Started, StartFailed, SendCommit, JobSucceeds,
         JobSkips, JobFails, JobReturns, Finished, FinishFailed, Cancel, Deadline,
         FinalizeExpires, ApplyInsert, ApplyUpdate, RefuseStatement,
         LoseConnection, Decide

\* Runs that have not begun are consistent.
LEMMA InitConsistent == Init => \A r \in Runs : Consistent(r)
  BY DEF Init, Consistent, NotBegun, InsertPending, Working, Judged, RowAgrees,
         Earned, GaveUp

\* A step of run r keeps r consistent.
LEMMA StepConsistent ==
  ASSUME TypeOK, NEW r \in Runs, Consistent(r), RunStep(r)
  PROVE  Consistent(r)'
<1> USE DEF TypeOK, Active, Consistent, NotBegun, InsertPending, Working, Judged,
            RowAgrees, Earned, GaveUp, FinishGivesUp
<1>1. CASE StartRun(r)
  BY <1>1 DEF StartRun
<1>2. CASE Started(r)
  BY <1>2 DEF Started
<1>3. CASE StartFailed(r)
  BY <1>3 DEF StartFailed
<1>4. CASE SendCommit(r)
  BY <1>4 DEF SendCommit
<1>5. CASE JobSucceeds(r)
  BY <1>5 DEF JobSucceeds, JobReturns
<1>6. CASE JobSkips(r)
  BY <1>6 DEF JobSkips, JobReturns
<1>7. CASE JobFails(r)
  BY <1>7 DEF JobFails, JobReturns
<1>8. CASE Finished(r)
  BY <1>8 DEF Finished
<1>9. CASE FinishFailed(r)
  BY <1>9 DEF FinishFailed
<1>10. CASE Cancel(r)
  BY <1>10 DEF Cancel
<1>11. CASE Deadline(r)
  BY <1>11 DEF Deadline
<1>12. CASE FinalizeExpires(r)
  BY <1>12 DEF FinalizeExpires
<1>13. CASE ApplyInsert(r)
  BY <1>13 DEF ApplyInsert
<1>14. CASE ApplyUpdate(r)
  BY <1>14 DEF ApplyUpdate
<1>15. CASE RefuseStatement(r)
  BY <1>15 DEF RefuseStatement
<1>16. CASE LoseConnection(r)
  BY <1>16 DEF LoseConnection
<1>17. CASE Decide(r)
  BY <1>17 DEF Decide
<1> QED
  BY <1>1, <1>2, <1>3, <1>4, <1>5, <1>6, <1>7, <1>8, <1>9, <1>10, <1>11, <1>12,
     <1>13, <1>14, <1>15, <1>16, <1>17 DEF RunStep

\* A crash only moves the runs under way to "crashed".
LEMMA CrashConsistent ==
  ASSUME TypeOK, NEW r \in Runs, Consistent(r), Crash
  PROVE  Consistent(r)'
  BY DEF Crash, TypeOK, Active, Consistent, NotBegun, InsertPending, Working, Judged,
         RowAgrees, Earned, GaveUp, FinishGivesUp

\* The invariant holds before the first run.
LEMMA InitInv == Init => Inv
  BY InitTypeOK, InitConsistent DEF Inv

\* Every step keeps every run consistent: its own, and those it leaves alone.
LEMMA NextInv == Inv /\ [Next]_vars => Inv'
<1> SUFFICES ASSUME Inv, [Next]_vars PROVE Inv'
  OBVIOUS
<1>1. TypeOK /\ TypeOK'
  BY NextTypeOK DEF Inv
<1>2. ASSUME NEW q \in Runs PROVE Consistent(q)'
  <2>0. Consistent(q)
    BY DEF Inv
  <2>1. CASE Crash
    BY <1>1, <2>0, <2>1, CrashConsistent
  <2>2. CASE UNCHANGED vars
    BY <1>1, <2>0, <2>2, SameConsistent DEF vars, Same
  <2>3. CASE Next /\ ~Crash
    <3>1. PICK r \in Runs : RunStep(r)
      BY <2>3 DEF Next
    <3>2. CASE q = r
      BY <1>1, <2>0, <3>1, <3>2, StepConsistent
    <3>3. CASE q # r
      <4>1. Same(q)
        BY <1>1, <3>1, <3>3, OthersSame
      <4> QED
        BY <1>1, <2>0, <4>1, SameConsistent
    <3> QED
      BY <3>2, <3>3
  <2> QED
    BY <2>1, <2>2, <2>3
<1> QED
  BY <1>1, <1>2 DEF Inv

\* The inductive invariant holds in every reachable state.
LEMMA Invariance == Spec => []Inv
  BY InitInv, NextInv, PTL DEF Spec

-----------------------------------------------------------------------------
(* The runner: safety *)

\* Whatever is lost, delayed or cut off, a run recorded as a success has its
\* transaction committed.
THEOREM SuccessDurable == Spec => []SuccessIsDurable
<1>1. Inv => SuccessIsDurable
  BY DEF Inv, Consistent, RowAgrees, Earned, SuccessIsDurable
<1> QED
  BY <1>1, Invariance, PTL

\* Run returns nil only for runs whose row is closed.
THEOREM NilRecorded == Spec => []NilMeansRecorded
<1>1. Inv => NilMeansRecorded
  BY DEF Inv, Consistent, Earned, NilMeansRecorded
<1> QED
  BY <1>1, Invariance, PTL

\* Cancelling a run never leaves its row open.
THEOREM StaleCaused == Spec => []StaleRowsHaveACause
<1>1. Inv => StaleRowsHaveACause
  BY DEF Inv, Consistent, GaveUp, FinishGivesUp, StaleRowsHaveACause
<1> QED
  BY <1>1, Invariance, PTL

-----------------------------------------------------------------------------
(* The runner: it implements RunLedger *)

\* A step of the runner opens a row, closes an open one, or leaves the ledger.
LEMMA LedgerStep == Inv /\ [Next]_vars => [Ledger!LedgerNext]_row
<1> SUFFICES ASSUME Inv, [Next]_vars, row' # row PROVE Ledger!LedgerNext
  OBVIOUS
<1> USE DEF Inv, TypeOK
<1>1. ASSUME NEW r \in Runs, ApplyInsert(r) PROVE Ledger!Open(r)
  BY <1>1 DEF ApplyInsert, Consistent, InsertPending, Ledger!Open
<1>2. ASSUME NEW r \in Runs, ApplyUpdate(r)
      PROVE  verdict[r] \in Ledger!FinalStatuses /\ Ledger!Close(r, verdict[r])
  BY <1>2 DEF ApplyUpdate, Consistent, Judged, RowAgrees, Ledger!Close,
              Ledger!FinalStatuses
<1>3. \E r \in Runs : ApplyInsert(r) \/ ApplyUpdate(r)
  BY DEF Next, RunStep, vars, StartRun, Started, StartFailed, SendCommit, JobSucceeds,
         JobSkips, JobFails, JobReturns, Finished, FinishFailed, Cancel, Deadline,
         FinalizeExpires, RefuseStatement, LoseConnection, Decide, Crash
<1> QED
  BY <1>1, <1>2, <1>3 DEF Ledger!LedgerNext

\* The run log is a ledger: rows are opened once, closed at most once, and a closed
\* row never changes, however the statements of the runs overlap.
THEOREM ImplementsLedger == Spec => LedgerSpec
<1>1. Init => Ledger!LedgerInit
  BY DEF Init, Ledger!LedgerInit
<1> QED
  BY <1>1, LedgerStep, Invariance, PTL DEF Spec, LedgerSpec, Ledger!LedgerSpec

-----------------------------------------------------------------------------
(* Seeding run_sync_config *)

\* A start that is under way has seeded the keys it has not left.
SeedsOneByOne ==
  /\ worker \in {"down", "seeding", "up"}
  /\ left \subseteq Settings
  /\ worker # "seeding" => left = {}
  /\ worker = "seeding" =>
       \A key \in Settings \ left : said[key] # Gone => rows[key] # None

SeedingInv ==
  /\ rows \in [Settings -> BOOLEAN \cup {None}]
  /\ said \in [Settings -> BOOLEAN \cup {None, Gone}]
  /\ SeedsOneByOne
  /\ OperatorsDecide

\* Every key has a default.
LEMMA DefaultsAreBoolean == \A key \in Settings : Defaults[key] \in BOOLEAN
BY DEF Defaults

\* Every step of the worker and of operators keeps the invariant of seeding.
LEMMA SeedingStep == SeedingInv /\ [RunSyncNext]_runSyncVars => SeedingInv'
<1> SUFFICES ASSUME SeedingInv, [RunSyncNext]_runSyncVars PROVE SeedingInv'
  OBVIOUS
<1> USE RunSyncConfigAssumption, DefaultsAreBoolean DEF SeedingInv, SeedsOneByOne, OperatorsDecide
<1>1. CASE StartSeeding
  BY <1>1 DEF StartSeeding, Defaults
<1>2. CASE Seeded
  BY <1>2 DEF Seeded, Defaults
<1>3. CASE Stops
  BY <1>3 DEF Stops, Defaults
<1>4. CASE Operate
  BY <1>4 DEF Operate, Defaults
<1>5. ASSUME NEW key \in left, SeedKey(key)
      PROVE  SeedingInv'
  BY <1>5 DEF SeedKey, Defaults
<1>6. CASE UNCHANGED runSyncVars
  BY <1>6 DEF runSyncVars, Defaults
<1> QED
  BY <1>1, <1>2, <1>3, <1>4, <1>5, <1>6 DEF RunSyncNext

\* Whatever operators do, and wherever a start of the worker breaks off, seeding
\* respects their last word and leaves no key without a value.
THEOREM OperatorsAlwaysDecide == RunSyncSpec => []OperatorsDecide
<1>1. RunSyncInit => SeedingInv
  BY RunSyncConfigAssumption DEF RunSyncInit, SeedingInv, SeedsOneByOne, OperatorsDecide
<1>2. SeedingInv => OperatorsDecide
  BY DEF SeedingInv
<1> QED
  BY <1>1, <1>2, SeedingStep, PTL DEF RunSyncSpec

-----------------------------------------------------------------------------
(* Settings: the lines of .env *)

AnyText == {"", " ", "some", "other", "zero", "junk"}

Entry == [key : Keys, value : AnyText] \cup {Ignored, TooLong}

Readable == Entry \ {TooLong}

Environments == [Keys -> AnyText \cup {Unset}]

SettingsTyped ==
  /\ process \in Environments
  /\ dotenv \in Seq(Entry)

\* Variables and lines of .env keep to their types.
LEMMA SettingsTyping == SettingsSpec => []SettingsTyped
<1>1. SettingsInit => SettingsTyped
  BY DEF SettingsInit, SettingsTyped, Environments
<1>2. SettingsTyped /\ [SettingsNext]_settingsVars => SettingsTyped'
  <2> SUFFICES ASSUME SettingsTyped, [SettingsNext]_settingsVars PROVE SettingsTyped'
    OBVIOUS
  <2>1. CASE UNCHANGED settingsVars
    BY <2>1 DEF settingsVars, SettingsTyped
  <2>2. CASE SetVariable
    <3>1. PICK key \in Named : \E text \in Texts[key] : process' = [process EXCEPT ![key] = text]
      BY <2>2 DEF SetVariable
    <3>2. Texts[key] \subseteq AnyText /\ key \in Keys
      BY SettingsAssumption DEF AnyText
    <3> QED
      BY <2>2, <3>1, <3>2 DEF SetVariable, SettingsTyped, Environments
  <2>3. CASE AddLine
    <3>1. PICK line \in Line \cup {Ignored, TooLong} : dotenv' = Append(dotenv, line)
      BY <2>3 DEF AddLine
    <3>2. line \in Entry
      <4>1. CASE line \in Line
        <5>1. PICK key \in Named : \E text \in Texts[key] : line = [key |-> key, value |-> text]
          BY <4>1 DEF Line
        <5>2. key \in Keys /\ Texts[key] \subseteq AnyText
          BY SettingsAssumption DEF AnyText
        <5> QED
          BY <5>1, <5>2 DEF Entry
      <4> QED
        BY <3>1, <4>1 DEF Entry
    <3> QED
      BY <2>3, <3>1, <3>2 DEF AddLine, SettingsTyped
  <2> QED
    BY <2>1, <2>2, <2>3 DEF SettingsNext
<1> QED
  BY <1>1, <1>2, PTL DEF SettingsSpec

\* What is read are the lines before the first one that is too long.
LEMMA ScannedLines ==
  ASSUME SettingsTyped
  PROVE  /\ Scanned \in Seq(Entry) /\ Len(Scanned) \in Nat
         /\ \A i \in DOMAIN dotenv :
              i \in 1..Len(Scanned) <=> \A j \in 1..i : dotenv[j] # TooLong
         /\ \A i \in 1..Len(Scanned) : i \in DOMAIN dotenv /\ Scanned[i] = dotenv[i]
<1> DEFINE tooLong == {i \in DOMAIN dotenv : dotenv[i] = TooLong}
<1>1. dotenv \in Seq(Entry) /\ DOMAIN dotenv = 1..Len(dotenv) /\ Len(dotenv) \in Nat
  BY DEF SettingsTyped
<1>2. CASE tooLong = {}
  <2>1. Scanned = dotenv
    BY <1>2 DEF Scanned
  <2> QED
    BY <1>1, <1>2, <2>1
<1>3. CASE tooLong # {}
  <2> DEFINE first == Min(tooLong)
  <2>1. first \in tooLong /\ \A i \in tooLong : first <= i
    <3>1. tooLong \subseteq Nat
      BY <1>1
    <3> QED
      BY <1>3, <3>1, MinOfNumbers
  <2>2. Scanned = SubSeq(dotenv, 1, first - 1)
    BY <1>3 DEF Scanned
  <2>3. first \in 1..Len(dotenv)
    BY <1>1, <2>1
  <2>4. ASSUME NEW i \in DOMAIN dotenv
        PROVE  i < first <=> \A j \in 1..i : dotenv[j] # TooLong
    <3>1. \A j \in 1..i : j \in DOMAIN dotenv
      BY <1>1
    <3>2. dotenv[first] = TooLong /\ first \in Nat /\ first >= 1
      BY <1>1, <2>1
    <3> HIDE DEF first
    <3>3. CASE i < first
      BY <1>1, <2>1, <3>1, <3>3
    <3>4. CASE ~(i < first)
      <4>1. first \in 1..i
        BY <1>1, <3>2, <3>4
      <4> QED
        BY <3>2, <3>4, <4>1
    <3> QED
      BY <3>3, <3>4
  <2> HIDE DEF first
  <2>5. /\ Len(Scanned) = first - 1 /\ Scanned \in Seq(Entry)
        /\ \A i \in 1..first - 1 : Scanned[i] = dotenv[i]
    BY <1>1, <2>2, <2>3
  <2> QED
    BY <1>1, <2>3, <2>4, <2>5
<1> QED
  BY <1>2, <1>3

\* The environment after n lines, as a function of what it was after n - 1.
AfterLine(env, g, n) == IF n = 0 THEN env ELSE SetUnlessSet(g[n - 1], Scanned[n])

\* loadDotEnv is what is left after the last line.
LEMMA LoadIsLineByLine ==
  ASSUME Len(Scanned) \in Nat, NEW env
  PROVE  \E g : /\ \A n \in 0..Len(Scanned) : g[n] = AfterLine(env, g, n)
                /\ LoadDotEnv(env) = g[Len(Scanned)]
<1>0. PICK N : N = Len(Scanned)
  OBVIOUS
<1> DEFINE IsLoad(g) == g = [n \in 0..N |-> AfterLine(env, g, n)]
           upTo(g, k) == \A n \in 0..N : n <= k => g[n] = AfterLine(env, g, n)
           T == {k \in Nat : \E g : g = [n \in 0..N |-> g[n]] /\ upTo(g, k)}
<1>1. 0 \in T
  <2> DEFINE g == [n \in 0..N |-> env]
  <2>1. upTo(g, 0)
    BY <1>0 DEF AfterLine
  <2>2. g = [n \in 0..N |-> g[n]]
    OBVIOUS
  <2> QED
    BY <2>1, <2>2
<1>2. ASSUME NEW k \in Nat, k \in T
      PROVE  k + 1 \in T
  <2>1. PICK g : g = [n \in 0..N |-> g[n]] /\ upTo(g, k)
    BY <1>2
  <2> DEFINE h == [n \in 0..N |-> AfterLine(env, g, n)]
  <2>2. \A n \in 0..N : n <= k => h[n] = g[n]
    BY <2>1
  <2>3. ASSUME NEW n \in 0..N, n <= k + 1
        PROVE  h[n] = AfterLine(env, h, n)
    <3>1. CASE n = 0
      BY <3>1 DEF AfterLine
    <3>2. CASE n # 0
      <4>1. n - 1 \in 0..N /\ n - 1 <= k
        BY <1>0, <2>3, <3>2
      <4>2. h[n - 1] = g[n - 1]
        BY <2>2, <4>1
      <4> QED
        BY <3>2, <4>2 DEF AfterLine
    <3> QED
      BY <3>1, <3>2
  <2>4. h = [n \in 0..N |-> h[n]]
    OBVIOUS
  <2>5. upTo(h, k + 1)
    BY <2>3
  <2> HIDE DEF h
  <2>6. \E f : f = [n \in 0..N |-> f[n]] /\ upTo(f, k + 1)
    <3> HIDE DEF upTo
    <3> QED
      BY <2>4, <2>5
  <2>7. k + 1 \in Nat
    OBVIOUS
  <2> HIDE DEF upTo
  <2> QED
    BY <2>6, <2>7
<1>3. N \in T
  <2> HIDE DEF T
  <2>1. Nat \subseteq T
    BY <1>1, <1>2, SetInduction
  <2> QED
    BY <1>0, <2>1
<1>4. \E g : IsLoad(g)
  <2>1. PICK g : g = [n \in 0..N |-> g[n]] /\ upTo(g, N)
    BY <1>3
  <2>2. \A n \in 0..N : g[n] = AfterLine(env, g, n)
    BY <1>0, <2>1
  <2>3. IsLoad(g)
    BY <2>1, <2>2
  <2> QED
    BY <2>3
<1>5. LoadDotEnv(env) = (CHOOSE g : IsLoad(g))[N]
  BY <1>0 DEF LoadDotEnv, AfterLine
<1>6. PICK g : IsLoad(g) /\ g = CHOOSE f : IsLoad(f)
  BY <1>4
<1>7. \A n \in 0..N : g[n] = AfterLine(env, g, n)
  BY <1>6
<1>8. LoadDotEnv(env) = g[N]
  BY <1>5, <1>6
<1> QED
  BY <1>0, <1>7, <1>8

\* The first n lines that say something about the variable.
Telling(key, n) == {i \in 1..n : Scanned[i].key = key /\ Scanned[i].value # ""}

Text(t) == IF t = Unset THEN "" ELSE t

\* The text a variable should have after n lines.
Won(env, key, n) ==
  IF Text(env[key]) # "" THEN env[key]
  ELSE IF Telling(key, n) # {} THEN Scanned[Min(Telling(key, n))].value
  ELSE ""

\* A line more says something about the variable or not.
LEMMA TellingGrows ==
  ASSUME NEW n \in Nat, NEW key
  PROVE  IF Scanned[n + 1].key = key /\ Scanned[n + 1].value # ""
         THEN Telling(key, n + 1) = Telling(key, n) \cup {n + 1}
         ELSE Telling(key, n + 1) = Telling(key, n)
<1>1. 1..(n + 1) = 1..n \cup {n + 1}
  OBVIOUS
<1> QED
  BY <1>1 DEF Telling

\* The first line that says something stays the first.
LEMMA FirstStaysFirst ==
  ASSUME NEW n \in Nat, NEW key, Telling(key, n) # {}
  PROVE  /\ Telling(key, n + 1) # {} /\ Min(Telling(key, n + 1)) = Min(Telling(key, n))
         /\ Min(Telling(key, n)) \in Telling(key, n)
<1> DEFINE first == Min(Telling(key, n))
<1>0. Telling(key, n) \subseteq 1..n
  BY DEF Telling
<1>1. Telling(key, n) \subseteq 1..n /\ Telling(key, n) \subseteq Nat
  <2>1. 1..n \subseteq Nat
    OBVIOUS
  <2> QED
    BY <1>0, <2>1
<1>2. first \in Telling(key, n) /\ \A i \in Telling(key, n) : first <= i
  BY <1>1, MinOfNumbers
<1>3. Telling(key, n + 1) \in {Telling(key, n), Telling(key, n) \cup {n + 1}}
  BY TellingGrows
<1> HIDE DEF first
<1>4. /\ first \in Telling(key, n + 1) /\ Telling(key, n + 1) \subseteq Nat
      /\ \A i \in Telling(key, n + 1) : first <= i
  <2>1. first <= n + 1 /\ n + 1 \in Nat
    BY <1>1, <1>2
  <2> QED
    BY <1>1, <1>2, <1>3, <2>1
<1>5. Min(Telling(key, n + 1)) = first
  BY <1>4, MinIs
<1> QED
  BY <1>2, <1>4, <1>5 DEF first

\* What a line does to the text of a variable.
LEMMA LineText ==
  ASSUME NEW line \in Readable, NEW env \in Environments, NEW key \in Keys
  PROVE  /\ SetUnlessSet(env, line) \in Environments
         /\ Text(SetUnlessSet(env, line)[key]) =
              IF Text(env[key]) # "" \/ line.key # key THEN Text(env[key]) ELSE line.value
<1>1. CASE line = Ignored
  <2>1. SetUnlessSet(env, line) = env
    BY <1>1 DEF SetUnlessSet
  <2>2. line.key # key
    BY <1>1 DEF Ignored, Keys, Checked, Crons, Unchecked, Connection
  <2> QED
    BY <2>1, <2>2
<1>2. CASE line # Ignored
  <2>1. line.key \in Keys /\ line.value \in AnyText
    BY <1>2 DEF Entry, Readable
  <2>2. line.value # Unset
    BY <2>1 DEF AnyText, Unset
  <2>3. CASE env[line.key] \in {Unset, ""}
    <3>1. SetUnlessSet(env, line) = [env EXCEPT ![line.key] = line.value]
      BY <1>2, <2>3 DEF SetUnlessSet
    <3>2. SetUnlessSet(env, line) \in Environments
      BY <2>1, <3>1 DEF Environments
    <3>3. CASE line.key = key
      <4>1. SetUnlessSet(env, line)[key] = line.value
        BY <3>1, <3>3 DEF Environments
      <4> QED
        BY <2>2, <2>3, <3>2, <3>3, <4>1 DEF Text
    <3>4. CASE line.key # key
      <4>1. SetUnlessSet(env, line)[key] = env[key]
        BY <3>1, <3>4
      <4> QED
        BY <3>2, <3>4, <4>1
    <3> QED
      BY <3>3, <3>4
  <2>4. CASE env[line.key] \notin {Unset, ""}
    <3>1. SetUnlessSet(env, line) = env
      BY <2>4 DEF SetUnlessSet
    <3>2. line.key = key => Text(env[key]) # ""
      BY <2>4 DEF Text
    <3> QED
      BY <3>1, <3>2
  <2> QED
    BY <2>3, <2>4
<1> QED
  BY <1>1, <1>2

\* What a line does to the text the variable should have.
LEMMA WonGrows ==
  ASSUME NEW n \in Nat, NEW env, NEW key
  PROVE  Won(env, key, n + 1) =
           IF Won(env, key, n) # "" \/ Scanned[n + 1].key # key THEN Won(env, key, n)
           ELSE Scanned[n + 1].value
<1>1. CASE Text(env[key]) # ""
  <2>1. env[key] # ""
    BY <1>1 DEF Text, Unset
  <2> QED
    BY <1>1, <2>1 DEF Won
<1>2. CASE Text(env[key]) = "" /\ Telling(key, n) # {}
  <2>1. Scanned[Min(Telling(key, n))].value # ""
    BY <1>2, FirstStaysFirst DEF Telling
  <2> QED
    BY <1>2, <2>1, FirstStaysFirst DEF Won
<1>3. CASE Text(env[key]) = "" /\ Telling(key, n) = {}
  <2>1. Won(env, key, n) = ""
    BY <1>3 DEF Won
  <2>2. CASE Scanned[n + 1].key = key /\ Scanned[n + 1].value # ""
    <3>1. Telling(key, n + 1) = {n + 1}
      BY <1>3, <2>2, TellingGrows
    <3>2. Min({n + 1}) = n + 1
      BY MinIs
    <3> QED
      BY <1>3, <2>1, <2>2, <3>1, <3>2 DEF Won
  <2>3. CASE ~(Scanned[n + 1].key = key /\ Scanned[n + 1].value # "")
    <3>1. Telling(key, n + 1) = {}
      BY <1>3, <2>3, TellingGrows
    <3> QED
      BY <1>3, <2>1, <2>3, <3>1 DEF Won
  <2> QED
    BY <2>2, <2>3
<1> QED
  BY <1>1, <1>2, <1>3

\* Reading the file gives each variable the text it should have.
LEMMA LoadedText ==
  ASSUME SettingsTyped, NEW env \in Environments, NEW key \in Keys
  PROVE  /\ LoadDotEnv(env) \in Environments
         /\ Text(LoadDotEnv(env)[key]) = Won(env, key, Len(Scanned))
<1>1. /\ Len(Scanned) \in Nat
      /\ \A i \in 1..Len(Scanned) : Scanned[i] \in Readable
  <2>1. ASSUME NEW i \in 1..Len(Scanned) PROVE Scanned[i] \in Readable
    <3>1. Scanned \in Seq(Entry) /\ Len(Scanned) \in Nat
      BY ScannedLines
    <3>2. Scanned[i] \in Entry
      BY <3>1
    <3>3. i \in DOMAIN dotenv /\ Scanned[i] = dotenv[i]
      BY ScannedLines
    <3>4. dotenv[i] # TooLong
      <4>1. \A j \in 1..i : dotenv[j] # TooLong
        BY <3>3, ScannedLines
      <4>2. i \in 1..i
        BY <3>1
      <4> QED
        BY <4>1, <4>2
    <3> QED
      BY <3>2, <3>3, <3>4 DEF Readable
  <2> QED
    BY <2>1, ScannedLines
<1>2. PICK g : /\ \A n \in 0..Len(Scanned) : g[n] = AfterLine(env, g, n)
               /\ LoadDotEnv(env) = g[Len(Scanned)]
  BY <1>1, LoadIsLineByLine
<1> DEFINE Right(n) == /\ g[n] \in Environments
                       /\ Text(g[n][key]) = Won(env, key, n)
           T == {n \in Nat : n <= Len(Scanned) => Right(n)}
<1>3. 0 \in T
  <2>1. g[0] = env
    BY <1>1, <1>2 DEF AfterLine
  <2>2. Telling(key, 0) = {}
    BY DEF Telling
  <2>3. Text(env[key]) = Won(env, key, 0)
    BY <2>2 DEF Won, Text
  <2> QED
    BY <2>1, <2>3
<1>4. ASSUME NEW n \in Nat, n \in T PROVE n + 1 \in T
  <2> SUFFICES ASSUME n + 1 <= Len(Scanned) PROVE Right(n + 1)
    OBVIOUS
  <2>1. n + 1 \in 0..Len(Scanned) /\ n + 1 # 0 /\ (n + 1) - 1 = n /\ n <= Len(Scanned)
    BY <1>1
  <2>2. g[n + 1] = SetUnlessSet(g[n], Scanned[n + 1])
    BY <1>2, <2>1 DEF AfterLine
  <2>3. Right(n)
    BY <1>4, <2>1
  <2>4. Scanned[n + 1] \in Readable
    BY <1>1, <2>1
  <2>5. /\ g[n + 1] \in Environments
        /\ Text(g[n + 1][key]) =
             IF Text(g[n][key]) # "" \/ Scanned[n + 1].key # key THEN Text(g[n][key])
             ELSE Scanned[n + 1].value
    <3>1. PICK before : before = g[n]
      OBVIOUS
    <3>2. PICK line : line = Scanned[n + 1]
      OBVIOUS
    <3>3. before \in Environments /\ line \in Readable /\ g[n + 1] = SetUnlessSet(before, line)
      BY <2>2, <2>3, <2>4, <3>1, <3>2
    <3>4. /\ SetUnlessSet(before, line) \in Environments
          /\ Text(SetUnlessSet(before, line)[key]) =
               IF Text(before[key]) # "" \/ line.key # key THEN Text(before[key]) ELSE line.value
      BY <3>3, LineText
    <3> HIDE DEF T, Right
    <3> QED
      BY <3>1, <3>2, <3>3, <3>4
  <2>6. Text(g[n + 1][key]) = Won(env, key, n + 1)
    <3>1. Text(g[n][key]) = Won(env, key, n)
      BY <2>3
    <3>2. Won(env, key, n + 1) =
            IF Won(env, key, n) # "" \/ Scanned[n + 1].key # key THEN Won(env, key, n)
            ELSE Scanned[n + 1].value
      BY WonGrows
    <3> HIDE DEF Right, T
    <3> QED
      BY <2>5, <3>1, <3>2
  <2> QED
    BY <2>5, <2>6
<1>5. Len(Scanned) \in T
  <2> HIDE DEF T
  <2>1. Nat \subseteq T
    BY <1>3, <1>4, SetInduction
  <2> QED
    BY <1>1, <2>1
<1> QED
  BY <1>1, <1>2, <1>5

\* Reading it again changes no text.
LEMMA EnvironmentText ==
  ASSUME SettingsTyped, NEW key \in Keys
  PROVE  Text(Environment[key]) = Won(process, key, Len(Scanned))
<1> DEFINE once == LoadDotEnv(process)
<1>1. process \in Environments /\ Len(Scanned) \in Nat
  BY ScannedLines DEF SettingsTyped
<1>2. /\ once \in Environments
      /\ Text(once[key]) = Won(process, key, Len(Scanned))
  BY <1>1, LoadedText
<1> HIDE DEF once
<1>3. Text(LoadDotEnv(once)[key]) = Won(once, key, Len(Scanned))
  BY <1>2, LoadedText
<1>4. Won(once, key, Len(Scanned)) = Text(once[key])
  <2>1. CASE Text(once[key]) # ""
    BY <2>1 DEF Won, Text
  <2>2. CASE Text(once[key]) = ""
    <3>1. Telling(key, Len(Scanned)) # {} =>
            Scanned[Min(Telling(key, Len(Scanned)))].value # ""
      BY <1>1, FirstStaysFirst DEF Telling
    <3>2. Text(process[key]) # "" => process[key] # ""
      BY DEF Text, Unset
    <3>3. Telling(key, Len(Scanned)) = {}
      BY <1>2, <2>2, <3>1, <3>2 DEF Won
    <3> QED
      BY <2>2, <3>3 DEF Won
  <2> QED
    BY <2>1, <2>2
<1> QED
  BY <1>2, <1>3, <1>4 DEF Environment, once

\* Whatever variables the process is started with and whatever .env says, each
\* variable has the first text that is not empty.
THEOREM FirstTextAlwaysWins == SettingsSpec => []FirstTextWins
<1>1. ASSUME SettingsTyped, NEW key \in Named
      PROVE  LET readable == {i \in DOMAIN dotenv : \A j \in 1..i : dotenv[j] # TooLong}
                 telling == {i \in readable : dotenv[i].key = key /\ dotenv[i].value # ""}
             IN Text(Environment[key]) =
                  IF Text(process[key]) # "" THEN process[key]
                  ELSE IF telling # {} THEN dotenv[Min(telling)].value ELSE ""
  <2> DEFINE readable == {i \in DOMAIN dotenv : \A j \in 1..i : dotenv[j] # TooLong}
             telling == {i \in readable : dotenv[i].key = key /\ dotenv[i].value # ""}
  <2>1. key \in Keys
    BY SettingsAssumption
  <2>2. readable = 1..Len(Scanned) /\ \A i \in readable : dotenv[i] = Scanned[i]
    BY <1>1, ScannedLines
  <2>3. telling = Telling(key, Len(Scanned))
    <3> HIDE DEF readable
    <3> QED
      BY <2>2 DEF Telling
  <2>4. telling # {} => Min(telling) \in readable
    <3>1. Len(Scanned) \in Nat
      BY <1>1, ScannedLines
    <3>2. telling # {} => Min(telling) \in telling
      <4> HIDE DEF telling
      <4> QED
        BY <2>3, <3>1, FirstStaysFirst
    <3> QED
      BY <3>2
  <2>5. Text(Environment[key]) = Won(process, key, Len(Scanned))
    BY <1>1, <2>1, EnvironmentText
  <2> HIDE DEF readable, telling
  <2>6. telling # {} => dotenv[Min(telling)].value = Scanned[Min(Telling(key, Len(Scanned)))].value
    BY <2>2, <2>3, <2>4
  <2>7. Text(Environment[key]) =
          IF Text(process[key]) # "" THEN process[key]
          ELSE IF telling # {} THEN dotenv[Min(telling)].value ELSE ""
    BY <2>3, <2>5, <2>6 DEF Won
  <2> QED
    BY <2>7 DEF readable, telling
<1>2. SettingsTyped => FirstTextWins
  BY <1>1 DEF FirstTextWins, Text
<1> QED
  BY <1>2, SettingsTyping, PTL

\* With settings Load accepts, every run has a deadline, and the worker connects and
\* schedules, or a parser refuses a text that Load has not looked at.
THEOREM AcceptedAlwaysServe == SettingsSpec => []AcceptedSettingsServe
<1>1. \A key : ~IsBlank(Setting(key))
  BY DEF Setting, IsBlank, Default, Unset
<1>2. Accepted => RunsAreBounded /\ RanksAreBounded /\ HasSource
  BY <1>1 DEF Accepted, RunsAreBounded, RanksAreBounded, HasSource
<1>3. Accepted => Connects \/ \E key \in DatabaseURL : ~Proper(key)
  BY DEF Accepted, Connects
<1>4. \A cron \in Crons : Schedules(cron) \/ ~Proper(cron)
  BY <1>1 DEF Schedules
<1>5. ASSUME SettingsTyped, process["DATABASE_URL"] \in {"some", "other"}
      PROVE  Connects
  <2>1. "DATABASE_URL" \in Keys
    BY DEF Keys, Connection
  <2>2. Text(Environment["DATABASE_URL"]) = process["DATABASE_URL"]
    BY <1>5, <2>1, EnvironmentText DEF Won, Text, Unset
  <2>3. Environment["DATABASE_URL"] \in {"some", "other"}
    BY <1>5, <2>2 DEF Text
  <2>4. DatabaseURL = {"DATABASE_URL"} /\ Proper("DATABASE_URL")
    BY <2>3 DEF DatabaseURL, Proper, Setting, IsBlank, Unset
  <2> QED
    BY <2>4 DEF Connects
<1>6. SettingsTyped => AcceptedSettingsServe
  BY <1>2, <1>3, <1>4, <1>5 DEF AcceptedSettingsServe
<1> QED
  BY <1>6, SettingsTyping, PTL

-----------------------------------------------------------------------------
(* The merge of a difficulty: the lists its loops make *)

\* KeptOf, round by round.
LEMMA KeptRounds ==
  ASSUME NEW X, NEW s \in Seq(X), NEW kept
  PROVE  \E out \in [0..Len(s) -> Seq(X)] :
           /\ out[0] = <<>> /\ KeptOf(s, kept) = out[Len(s)]
           /\ \A n \in 1..Len(s) :
                out[n] = IF n \in kept THEN Append(out[n - 1], s[n]) ELSE out[n - 1]
<1>0. PICK N : N = Len(s)
  OBVIOUS
<1>1. N \in Nat
  BY <1>0
<1> DEFINE F == [n \in 1..N |-> [q \in Seq(X) |-> IF n \in kept THEN Append(q, s[n]) ELSE q]]
           IsKept(g) == g = [n \in 0..N |-> IF n = 0 THEN <<>>
                                            ELSE IF n \in kept THEN Append(g[n - 1], s[n])
                                            ELSE g[n - 1]]
<1>2. IsLoop(N, Seq(X), <<>>, F)
  BY <1>0, <1>1 DEF IsLoop
<1>3. PICK out \in [0..N -> Seq(X)] : out[0] = <<>> /\ \A n \in 1..N : out[n] = F[n][out[n - 1]]
  <2> HIDE DEF F
  <2> QED
    BY <1>2, LoopExists
<1>4. \A n \in 1..N : out[n] = IF n \in kept THEN Append(out[n - 1], s[n]) ELSE out[n - 1]
  <2>1. \A n \in 1..N : n - 1 \in 0..N
    BY <1>1
  <2> QED
    BY <1>3, <2>1
<1>5. IsKept(out)
  <2>1. ASSUME NEW n \in 0..N
        PROVE  out[n] = IF n = 0 THEN <<>>
                        ELSE IF n \in kept THEN Append(out[n - 1], s[n])
                        ELSE out[n - 1]
    <3>1. n = 0 \/ n \in 1..N
      BY <1>1
    <3>2. 0 \notin 1..N
      BY <1>1
    <3> QED
      BY <1>3, <1>4, <3>1, <3>2
  <2>2. out = [n \in 0..N |-> out[n]]
    BY <1>3
  <2> QED
    BY <2>1, <2>2
<1>6. PICK g : IsKept(g) /\ g = CHOOSE h : IsKept(h)
  BY <1>5
<1>7. g = out
  <2>1. \A n \in 0..N : g[n] = IF n = 0 THEN <<>>
                                ELSE IF n \in kept THEN Append(g[n - 1], s[n])
                                ELSE g[n - 1]
    BY <1>6
  <2>2. g = [n \in 0..N |-> g[n]]
    BY <1>6
  <2>3. \A n \in 1..N : g[n] = IF n \in kept THEN Append(g[n - 1], s[n]) ELSE g[n - 1]
    BY <1>1, <2>1
  <2>4. out = [n \in 0..N |-> out[n]] /\ g[0] = out[0]
    BY <1>1, <1>3, <2>1
  <2>5. SameLoop(N, g, out)
    BY ONLY <1>1, <1>4, <2>2, <2>3, <2>4 DEF SameLoop
  <2> QED
    BY <2>5, LoopUnique
<1>8. KeptOf(s, kept) = out[N]
  BY <1>0, <1>6, <1>7 DEF KeptOf
<1> QED
  BY <1>0, <1>3, <1>4, <1>8

\* The list is one of those kept, and has nothing else.
Lists(list, kept, entry) ==
  /\ IsListOf(list, kept, entry)
  /\ \A p \in 1..Len(list) : \E i \in kept : PlaceIn(kept, i) = p

\* Those kept have places from the first to the last.
LEMMA PlacesOf ==
  ASSUME NEW n \in Nat, NEW kept, kept \subseteq 1..n
  PROVE  /\ IsFiniteSet(kept) /\ Cardinality(kept) \in Nat
         /\ \A i \in kept : PlaceIn(kept, i) \in 1..Cardinality(kept)
<1>1. IsFiniteSet(kept) /\ Cardinality(kept) \in Nat
  <2>1. IsFiniteSet(1..n)
    BY FS_Interval
  <2> QED
    BY <2>1, FS_Subset, FS_CardinalityType
<1>2. ASSUME NEW i \in kept PROVE PlaceIn(kept, i) \in 1..Cardinality(kept)
  <2> DEFINE upTo == {j \in kept : j <= i}
  <2>1. upTo \in SUBSET kept /\ i \in upTo
    OBVIOUS
  <2> HIDE DEF upTo
  <2>2. IsFiniteSet(upTo) /\ Cardinality(upTo) <= Cardinality(kept)
    BY <1>1, <2>1, FS_Subset
  <2>3. Cardinality(upTo) \in Nat /\ Cardinality(upTo) # 0
    BY <2>1, <2>2, FS_CardinalityType, FS_EmptySet
  <2> QED
    BY <1>1, <2>2, <2>3 DEF PlaceIn, upTo
<1> QED
  BY <1>1, <1>2

WithNext(kept, n) == kept \cup {n + 1}

\* One more, after all others, has the next place.
LEMMA NextPlace ==
  ASSUME NEW n \in Nat, NEW kept, kept \subseteq 1..n
  PROVE  /\ Cardinality(WithNext(kept, n)) = Cardinality(kept) + 1
         /\ PlaceIn(WithNext(kept, n), n + 1) = Cardinality(kept) + 1
         /\ \A i \in kept : PlaceIn(WithNext(kept, n), i) = PlaceIn(kept, i)
<1>1. n + 1 \notin kept /\ \A i \in kept : i \in Nat /\ i <= n
  OBVIOUS
<1>2. Cardinality(kept \cup {n + 1}) = Cardinality(kept) + 1
  BY <1>1, PlacesOf, FS_AddElement
<1>3. {j \in kept \cup {n + 1} : j <= n + 1} = kept \cup {n + 1}
  <2>1. \A j \in kept \cup {n + 1} : j <= n + 1
    BY <1>1
  <2> QED
    BY <2>1
<1>4. \A i \in kept : {j \in kept \cup {n + 1} : j <= i} = {j \in kept : j <= i}
  BY <1>1
<1> QED
  BY <1>2, <1>3, <1>4 DEF PlaceIn, WithNext

\* A list goes on with the next one kept.
LEMMA ListGoesOn ==
  ASSUME NEW n \in Nat, NEW kept, kept \subseteq 1..n, NEW entry,
         NEW X, NEW list \in Seq(X), NEW x \in X, x = entry[n + 1], Lists(list, kept, entry)
  PROVE  Lists(Append(list, x), WithNext(kept, n), entry)
<1> DEFINE more == WithNext(kept, n)
<1>0. \A i : i \in more <=> i \in kept \/ i = n + 1
  BY DEF WithNext
<1>1. /\ Len(list) = Cardinality(kept) /\ Len(list) \in Nat
      /\ \A i \in kept : PlaceIn(kept, i) \in 1..Len(list) /\ list[PlaceIn(kept, i)] = entry[i]
      /\ \A p \in 1..Len(list) : \E i \in kept : PlaceIn(kept, i) = p
  BY PlacesOf DEF Lists, IsListOf
<1>2. /\ Cardinality(more) = Len(list) + 1 /\ PlaceIn(more, n + 1) = Len(list) + 1
      /\ \A i \in kept : PlaceIn(more, i) = PlaceIn(kept, i)
  <2>1. /\ Cardinality(WithNext(kept, n)) = Cardinality(kept) + 1
        /\ PlaceIn(WithNext(kept, n), n + 1) = Cardinality(kept) + 1
        /\ \A i \in kept : PlaceIn(WithNext(kept, n), i) = PlaceIn(kept, i)
    BY NextPlace
  <2> QED
    BY <1>1, <2>1
<1> HIDE DEF more
<1>3. /\ Len(Append(list, x)) = Len(list) + 1 /\ Append(list, x)[Len(list) + 1] = x
      /\ \A p \in 1..Len(list) : Append(list, x)[p] = list[p]
  OBVIOUS
<1>4. \A i \in more : Append(list, x)[PlaceIn(more, i)] = entry[i]
  BY <1>0, <1>1, <1>2, <1>3
<1>5. ASSUME NEW p \in 1..(Len(list) + 1) PROVE \E i \in more : PlaceIn(more, i) = p
  <2>1. CASE p = Len(list) + 1
    BY <1>0, <1>2, <2>1
  <2>2. CASE p # Len(list) + 1
    <3>1. p \in 1..Len(list)
      BY <1>1, <2>2
    <3> QED
      BY <1>0, <1>1, <1>2, <3>1
  <2> QED
    BY <2>1, <2>2
<1> QED
  BY <1>2, <1>3, <1>4, <1>5 DEF Lists, IsListOf, more

\* The list of none is empty.
LEMMA EmptyList == \A entry : Lists(<<>>, {}, entry)
BY FS_EmptySet DEF Lists, IsListOf

\* KeptOf lists those kept.
LEMMA KeptAreListed ==
  ASSUME NEW X, NEW s \in Seq(X), NEW kept, kept \subseteq 1..Len(s)
  PROVE  KeptOf(s, kept) \in Seq(X) /\ Lists(KeptOf(s, kept), kept, s)
<1>1. PICK out \in [0..Len(s) -> Seq(X)] :
           /\ out[0] = <<>> /\ KeptOf(s, kept) = out[Len(s)]
           /\ \A n \in 1..Len(s) :
                out[n] = IF n \in kept THEN Append(out[n - 1], s[n]) ELSE out[n - 1]
  BY KeptRounds
<1> DEFINE upTo(n) == kept \cap (1..n)
           T == {n \in 0..Len(s) : Lists(out[n], upTo(n), s)}
<1>0. Len(s) \in Nat
  OBVIOUS
<1>2. 0 \in T
  <2>1. upTo(0) = {}
    OBVIOUS
  <2> QED
    BY <1>0, <1>1, <2>1, EmptyList
<1>3. ASSUME NEW n \in 0..(Len(s) - 1), n \in T PROVE n + 1 \in T
  <2>1. n \in Nat /\ n + 1 \in 1..Len(s) /\ n + 1 \in 0..Len(s) /\ (n + 1) - 1 = n /\ n \in 0..Len(s)
    BY <1>0
  <2>2. out[n + 1] = IF n + 1 \in kept THEN Append(out[n], s[n + 1]) ELSE out[n]
    BY <1>1, <2>1
  <2>3. Lists(out[n], upTo(n), s) /\ upTo(n) \subseteq 1..n
    BY <1>3
  <2>4. upTo(n + 1) = IF n + 1 \in kept THEN WithNext(upTo(n), n) ELSE upTo(n)
    BY <2>1 DEF WithNext
  <2>5. CASE n + 1 \in kept
    <3> DEFINE list == out[n]
               x == s[n + 1]
    <3>1. list \in Seq(X) /\ x \in X
      BY <1>1, <2>1
    <3> HIDE DEF list, x, upTo
    <3>2. Lists(list, upTo(n), s)
      BY <2>3 DEF list
    <3>3. Lists(Append(list, x), WithNext(upTo(n), n), s)
      BY <2>1, <2>3, <3>1, <3>2, ListGoesOn DEF x
    <3> QED
      BY <2>1, <2>2, <2>4, <2>5, <3>3 DEF list, x
  <2>6. CASE n + 1 \notin kept
    BY <2>1, <2>2, <2>3, <2>4, <2>6
  <2> QED
    BY <2>5, <2>6
<1>4. Len(s) \in T
  <2>1. PICK N : N = Len(s)
    OBVIOUS
  <2>2. \A n \in 0..(N - 1) : n \in T => n + 1 \in T
    BY <1>3, <2>1
  <2> HIDE DEF T
  <2>3. 0..N \subseteq T /\ N \in Nat
    BY <1>0, <1>2, <2>1, <2>2, LoopInduction
  <2> QED
    BY <2>1, <2>3
<1>5. upTo(Len(s)) = kept
  OBVIOUS
<1> QED
  BY <1>0, <1>1, <1>4, <1>5

-----------------------------------------------------------------------------
(* The merge of a difficulty: the walk over the groups *)

Subcategory == [category : Nat, subcategory : Nat, count : 0..MaxInt]

MergeTyped ==
  /\ rankColors \in Seq(RankColors)
  /\ categories \in Seq(Seq(Counts))
  /\ progress \in Seq([name : Names \cup {Blank}, maxes : Thresholds])
  /\ Len(progress) <= MaxInt

\* The documents keep to their types.
LEMMA MergeTyping == MergeSpec => []MergeTyped
<1>1. MergeInit => MergeTyped
  BY MergeAssumption DEF MergeInit, MergeTyped
<1>2. MergeTyped /\ [MergeNext]_mergeVars => MergeTyped'
  <2> SUFFICES ASSUME MergeTyped, [MergeNext]_mergeVars PROVE MergeTyped'
    OBVIOUS
  <2>1. CASE UNCHANGED mergeVars
    BY <2>1 DEF mergeVars, MergeTyped
  <2>2. CASE AddRank
    BY <2>2 DEF AddRank, MergeTyped
  <2>3. CASE AddCategory
    <3>1. <<>> \in Seq(Counts)
      OBVIOUS
    <3> QED
      BY <2>3, <3>1 DEF AddCategory, MergeTyped
  <2>4. CASE AddSubcategory
    <3>1. PICK n \in Counts :
            categories' = [categories EXCEPT ![Len(categories)] = Append(@, n)]
      BY <2>4 DEF AddSubcategory
    <3>2. /\ categories \in Seq(Seq(Counts)) /\ Len(categories) \in DOMAIN categories
          /\ categories[Len(categories)] \in Seq(Counts)
      BY <2>4 DEF AddSubcategory, MergeTyped
    <3>3. Append(categories[Len(categories)], n) \in Seq(Counts)
      BY <3>2
    <3>4. categories' \in Seq(Seq(Counts))
      BY <3>1, <3>2, <3>3
    <3> QED
      BY <2>4, <3>4 DEF AddSubcategory, MergeTyped
  <2>5. CASE AddEntry
    <3>1. PICK e \in [name : Names \cup {Blank}, maxes : Thresholds] :
            progress' = Append(progress, e)
      BY <2>5 DEF AddEntry
    <3>2. Len(progress) < MaxEntries /\ UNCHANGED <<rankColors, categories>>
      BY <2>5 DEF AddEntry
    <3> QED
      BY <3>1, <3>2, MergeAssumption DEF MergeTyped
  <2> QED
    BY <2>1, <2>2, <2>3, <2>4, <2>5 DEF MergeNext
<1> QED
  BY <1>1, <1>2, PTL DEF MergeSpec

Reported == {ProgressScenarios[i] : i \in 1..Len(ProgressScenarios)}

\* Kovaak's scenarios that have a name are a sequence no longer than its answer.
LEMMA ReportedScenarios ==
  ASSUME MergeTyped
  PROVE  /\ ProgressScenarios \in Seq(Reported)
         /\ Len(ProgressScenarios) \in Nat /\ Len(ProgressScenarios) <= MaxInt
         /\ DOMAIN ProgressScenarios = 1..Len(ProgressScenarios)
<1> DEFINE Scenario == [name : Names \cup {Blank}, maxes : Thresholds]
           kept == {i \in DOMAIN progress : progress[i].name # Blank}
           named == KeptOf(progress, kept)
           scenario(i) == [name |-> Trim(named[i].name), thresholds |-> Normalized(named[i].maxes)]
<1>1. progress \in Seq(Scenario) /\ Len(progress) \in Nat /\ DOMAIN progress = 1..Len(progress)
  BY DEF MergeTyped
<1>2. kept \subseteq 1..Len(progress)
  BY <1>1
<1>3. named \in Seq(Scenario) /\ Lists(named, kept, progress)
  <2> HIDE DEF Scenario, kept
  <2> QED
    BY <1>1, <1>2, KeptAreListed
<1>4. Len(named) = Cardinality(kept) /\ Cardinality(kept) <= Len(progress) /\ Len(named) \in Nat
  <2>1. IsFiniteSet(1..Len(progress)) /\ Cardinality(1..Len(progress)) = Len(progress)
    BY <1>1, FS_Interval
  <2> HIDE DEF kept
  <2>2. Cardinality(kept) <= Len(progress)
    BY <1>2, <2>1, FS_Subset
  <2> QED
    BY <1>3, <2>2 DEF Lists, IsListOf
<1>5. DOMAIN named = 1..Len(named)
  BY <1>3
<1>6. ProgressScenarios = [i \in 1..Len(named) |-> scenario(i)]
  BY <1>5 DEF ProgressScenarios
<1> HIDE DEF named, kept, scenario
<1>7. Len(ProgressScenarios) = Len(named) /\ DOMAIN ProgressScenarios = 1..Len(named)
  BY <1>4, <1>6
<1>8. ProgressScenarios \in [1..Len(named) -> Reported]
  BY <1>6, <1>7 DEF Reported
<1>9. ProgressScenarios \in Seq(Reported)
  BY <1>4, <1>8
<1> QED
  <2>1. Len(progress) <= MaxInt /\ MaxInt \in Nat
    BY MergeAssumption DEF MergeTyped
  <2>2. Len(named) <= MaxInt
    BY <1>1, <1>4, <2>1
  <2> QED
    BY <1>4, <1>7, <1>9, <2>2

\* The subcategories are a sequence of places and counts.
LEMMA SubcategoriesTyped ==
  ASSUME MergeTyped
  PROVE  Subcategories \in Seq(Subcategory)
<1>0. PICK N : N = Len(categories)
  OBVIOUS
<1>1. N \in Nat
  BY <1>0 DEF MergeTyped
<1> DEFINE column(c) == [s \in DOMAIN categories[c] |->
                           [category |-> c, subcategory |-> s, count |-> categories[c][s]]]
           F == [c \in 1..N |-> [q \in Seq(Subcategory) |-> q \o column(c)]]
           IsUpTo(g) == g = [c \in 0..N |-> IF c = 0 THEN <<>> ELSE g[c - 1] \o column(c)]
<1>2. ASSUME NEW c \in 1..N PROVE column(c) \in Seq(Subcategory)
  <2>1. categories[c] \in Seq(Counts)
    BY <1>0 DEF MergeTyped
  <2>2. /\ Len(categories[c]) \in Nat /\ DOMAIN categories[c] = 1..Len(categories[c])
        /\ \A s \in DOMAIN categories[c] : categories[c][s] \in 0..MaxInt
    <3>1. \A s \in DOMAIN categories[c] : categories[c][s] \in Counts
      BY <2>1
    <3>2. Counts \subseteq 0..MaxInt
      BY MergeAssumption
    <3>3. \A s \in DOMAIN categories[c] : categories[c][s] \in 0..MaxInt
      BY <3>1, <3>2
    <3> QED
      BY <2>1, <3>3
  <2>3. column(c) \in [1..Len(categories[c]) -> Subcategory]
    BY <2>2 DEF Subcategory
  <2> QED
    BY <2>2, <2>3
<1> HIDE DEF column
<1>3. IsLoop(N, Seq(Subcategory), <<>>, F)
  BY <1>1, <1>2 DEF IsLoop
<1>4. PICK out \in [0..N -> Seq(Subcategory)] :
        out[0] = <<>> /\ \A c \in 1..N : out[c] = F[c][out[c - 1]]
  <2> HIDE DEF F
  <2> QED
    BY <1>3, LoopExists
<1>5. \A c \in 1..N : out[c] = out[c - 1] \o column(c)
  <2>1. \A c \in 1..N : c - 1 \in 0..N
    BY <1>1
  <2> QED
    BY <1>4, <2>1
<1>6. IsUpTo(out)
  <2>1. ASSUME NEW c \in 0..N PROVE out[c] = IF c = 0 THEN <<>> ELSE out[c - 1] \o column(c)
    <3>1. c = 0 \/ c \in 1..N
      BY <1>1
    <3>2. 0 \notin 1..N
      BY <1>1
    <3> QED
      BY <1>4, <1>5, <3>1, <3>2
  <2>2. out = [c \in 0..N |-> out[c]]
    BY <1>4
  <2> QED
    BY <2>1, <2>2
<1>7. PICK g : IsUpTo(g) /\ g = CHOOSE h : IsUpTo(h)
  BY <1>6
<1>8. g = out
  <2>1. \A c \in 0..N : g[c] = IF c = 0 THEN <<>> ELSE g[c - 1] \o column(c)
    BY <1>7
  <2>2. g = [c \in 0..N |-> g[c]]
    BY <1>7
  <2>3. ASSUME NEW c \in 1..N PROVE g[c] = g[c - 1] \o column(c)
    <3>1. c \in 0..N /\ c # 0
      BY <1>1
    <3> QED
      BY <2>1, <3>1
  <2>4. out = [c \in 0..N |-> out[c]] /\ g[0] = out[0]
    BY <1>1, <1>4, <2>1
  <2>5. SameLoop(N, g, out)
    BY ONLY <1>1, <1>5, <2>2, <2>3, <2>4 DEF SameLoop
  <2> QED
    BY <2>5, LoopUnique
<1>9. Subcategories = out[N]
  BY <1>0, <1>7, <1>8 DEF Subcategories, column
<1> QED
  BY <1>1, <1>4, <1>9

\* The running totals of the counts.
LEMMA AskedRounds ==
  ASSUME MergeTyped
  PROVE  /\ Asked \in [0..Len(Subcategories) -> Nat] /\ Asked[0] = 0
         /\ \A k \in 1..Len(Subcategories) : Asked[k] = Asked[k - 1] + Subcategories[k].count
<1>0. PICK N : N = Len(Subcategories)
  OBVIOUS
<1>1. N \in Nat
  BY <1>0, SubcategoriesTyped
<1> DEFINE count(k) == Subcategories[k].count
           F == [k \in 1..N |-> [q \in Nat |-> q + count(k)]]
           IsUpTo(g) == g = [k \in 0..N |-> IF k = 0 THEN 0 ELSE g[k - 1] + count(k)]
<1>2. ASSUME NEW k \in 1..N PROVE count(k) \in Nat
  <2>1. Subcategories[k] \in Subcategory
    BY <1>0, SubcategoriesTyped
  <2> QED
    BY <2>1, MergeAssumption DEF Subcategory
<1> HIDE DEF count
<1>3. IsLoop(N, Nat, 0, F)
  BY <1>1, <1>2 DEF IsLoop
<1>4. PICK out \in [0..N -> Nat] : out[0] = 0 /\ \A k \in 1..N : out[k] = F[k][out[k - 1]]
  <2> HIDE DEF F
  <2> QED
    BY <1>3, LoopExists
<1>5. \A k \in 1..N : out[k] = out[k - 1] + count(k)
  <2>1. \A k \in 1..N : k - 1 \in 0..N
    BY <1>1
  <2> QED
    BY <1>4, <2>1
<1>6. IsUpTo(out)
  <2>1. ASSUME NEW k \in 0..N PROVE out[k] = IF k = 0 THEN 0 ELSE out[k - 1] + count(k)
    <3>1. k = 0 \/ k \in 1..N
      BY <1>1
    <3>2. 0 \notin 1..N
      BY <1>1
    <3> QED
      BY <1>4, <1>5, <3>1, <3>2
  <2>2. out = [k \in 0..N |-> out[k]]
    BY <1>4
  <2> QED
    BY <2>1, <2>2
<1>7. PICK g : IsUpTo(g) /\ g = CHOOSE h : IsUpTo(h)
  BY <1>6
<1>8. g = out
  <2>1. \A k \in 0..N : g[k] = IF k = 0 THEN 0 ELSE g[k - 1] + count(k)
    BY <1>7
  <2>2. g = [k \in 0..N |-> g[k]]
    BY <1>7
  <2>3. \A k \in 1..N : g[k] = g[k - 1] + count(k)
    BY <1>1, <2>1
  <2>4. out = [k \in 0..N |-> out[k]] /\ g[0] = out[0]
    BY <1>1, <1>4, <2>1
  <2>5. SameLoop(N, g, out)
    BY ONLY <1>1, <1>5, <2>2, <2>3, <2>4 DEF SameLoop
  <2> QED
    BY <2>5, LoopUnique
<1>9. Asked = out
  BY <1>0, <1>7, <1>8 DEF Asked, count
<1> QED
  BY <1>0, <1>4, <1>5, <1>9 DEF count

\* They never fall.
LEMMA AskedGrows ==
  ASSUME MergeTyped, NEW k \in 0..Len(Subcategories)
  PROVE  \A j \in 0..k : Asked[j] <= Asked[k]
<1>0. PICK N : N = Len(Subcategories)
  OBVIOUS
<1>1. N \in Nat
  BY <1>0, SubcategoriesTyped
<1> DEFINE T == {n \in 0..N : \A j \in 0..n : Asked[j] <= Asked[n]}
<1>2. \A n \in 0..N : Asked[n] \in Nat
  BY <1>0, AskedRounds
<1>3. 0 \in T
  BY <1>1, <1>2
<1>4. ASSUME NEW n \in 0..(N - 1), n \in T PROVE n + 1 \in T
  <2>1. n \in 0..N /\ n + 1 \in 1..N /\ n + 1 \in 0..N /\ (n + 1) - 1 = n
    BY <1>1
  <2>2. Subcategories[n + 1].count \in Nat
    <3>1. Subcategories[n + 1] \in Subcategory
      BY <1>0, <2>1, SubcategoriesTyped
    <3> QED
      BY <3>1, MergeAssumption DEF Subcategory
  <2>3. Asked[n + 1] = Asked[n] + Subcategories[n + 1].count
    BY <1>0, <2>1, AskedRounds
  <2>4. Asked[n] <= Asked[n + 1]
    BY <1>2, <2>1, <2>2, <2>3
  <2>5. ASSUME NEW j \in 0..(n + 1) PROVE Asked[j] <= Asked[n + 1]
    <3>1. CASE j = n + 1
      BY <1>2, <2>1, <3>1
    <3>2. CASE j # n + 1
      <4>1. j \in 0..n /\ j \in 0..N
        BY <1>1, <2>1, <3>2
      <4>2. Asked[j] <= Asked[n]
        BY <1>4, <4>1
      <4> QED
        BY <1>2, <2>1, <2>4, <4>1, <4>2
    <3> QED
      BY <3>1, <3>2
  <2> QED
    BY <2>1, <2>5
<1>5. k \in T
  <2> HIDE DEF T
  <2>1. 0..N \subseteq T
    BY <1>1, <1>3, <1>4, LoopInduction
  <2> QED
    BY <1>0, <2>1
<1> QED
  BY <1>5
Group == [category : Nat, subcategory : Nat]

PlacedScenario == {Placed(def, group) : def \in Reported, group \in Group}

Reach == 0..Len(ProgressScenarios)

WalkState == [position : Reach, out : Seq(PlacedScenario), panicked : BOOLEAN]

\* Where a group ends: the position and the count added up, unless that overflows.
LEMMA EndIs ==
  ASSUME MergeTyped, NEW position \in Reach, NEW count \in 0..MaxInt
  PROVE  LET N == Len(ProgressScenarios) IN
         /\ position + count > MaxInt => End(position, count) < position
         /\ position + count <= MaxInt =>
              End(position, count) = IF position + count > N THEN N ELSE position + count
         /\ End(position, count) \in Int
<1> DEFINE N == Len(ProgressScenarios)
<1>1. N \in Nat /\ N <= MaxInt /\ MaxInt \in Nat /\ position \in 0..N
  BY ReportedScenarios, MergeAssumption DEF Reach
<1> HIDE DEF N
<1> QED
  BY <1>1 DEF End, Wrap, N

\* The scenarios of a group, each with its place.
LEMMA PlacedSlice ==
  ASSUME MergeTyped, NEW from \in Reach, NEW to \in Reach, from <= to, NEW group \in Group
  PROVE  LET slice == PlaceAll(SubSeq(ProgressScenarios, from + 1, to), group) IN
         /\ slice \in Seq(PlacedScenario) /\ Len(slice) = to - from
         /\ \A i \in 1..(to - from) : slice[i] = Placed(ProgressScenarios[from + i], group)
<1> DEFINE N == Len(ProgressScenarios)
           defs == SubSeq(ProgressScenarios, from + 1, to)
           slice == PlaceAll(defs, group)
<1>1. N \in Nat /\ from \in 0..N /\ to \in 0..N /\ ProgressScenarios \in Seq(Reported)
  BY ReportedScenarios DEF Reach
<1>2. /\ defs \in Seq(Reported) /\ Len(defs) = to - from
      /\ \A i \in 1..(to - from) : defs[i] = ProgressScenarios[from + i]
  BY <1>1
<1>3. DOMAIN defs = 1..(to - from) /\ \A i \in 1..(to - from) : defs[i] \in Reported
  <2>1. DOMAIN defs = 1..Len(defs) /\ \A i \in 1..Len(defs) : defs[i] \in Reported
    <3> HIDE DEF defs
    <3> QED
      BY ONLY <1>2
  <2> QED
    BY <1>2, <2>1
<1> HIDE DEF defs
<1>4. slice = [i \in 1..(to - from) |-> Placed(defs[i], group)]
  BY <1>3 DEF PlaceAll
<1>5. \A i \in 1..(to - from) : Placed(defs[i], group) \in PlacedScenario
  BY <1>3 DEF PlacedScenario
<1>6. slice \in [1..(to - from) -> PlacedScenario] /\ to - from \in Nat
  BY <1>1, <1>4, <1>5
<1>7. slice \in Seq(PlacedScenario) /\ Len(slice) = to - from
  BY <1>6
<1> QED
  BY <1>2, <1>4, <1>7 DEF defs

\* A round of the walk: it panics, or it goes on to the end of the group.
LEMMA TakeIs ==
  ASSUME MergeTyped, NEW w \in WalkState, NEW sub \in Subcategory
  PROVE  LET end == End(w.position, sub.count)
             group == [category |-> sub.category, subcategory |-> sub.subcategory]
         IN /\ Take(w, sub) \in WalkState
            /\ w.panicked \/ end < w.position => Take(w, sub).panicked
            /\ ~(w.panicked \/ end < w.position) =>
                 /\ end \in Reach
                 /\ Take(w, sub) =
                      [position |-> end, panicked |-> FALSE,
                       out |-> w.out \o PlaceAll(SubSeq(ProgressScenarios, w.position + 1, end),
                                                 group)]
<1> DEFINE end == End(w.position, sub.count)
           group == [category |-> sub.category, subcategory |-> sub.subcategory]
           slice == PlaceAll(SubSeq(ProgressScenarios, w.position + 1, end), group)
<1>1. /\ w.position \in Reach /\ w.out \in Seq(PlacedScenario) /\ w.panicked \in BOOLEAN
      /\ w = [position |-> w.position, out |-> w.out, panicked |-> w.panicked]
      /\ sub.count \in 0..MaxInt /\ group \in Group
  BY DEF WalkState, Subcategory, Group
<1>2. CASE w.panicked \/ end < w.position
  <2>1. Take(w, sub) = [w EXCEPT !.panicked = TRUE]
    BY <1>2 DEF Take
  <2> QED
    BY <1>1, <1>2, <2>1 DEF WalkState
<1>3. CASE ~(w.panicked \/ end < w.position)
  <2>1. end \in Reach /\ w.position <= end
    <3>1. /\ w.position + sub.count > MaxInt => end < w.position
          /\ w.position + sub.count <= MaxInt =>
               end = IF w.position + sub.count > Len(ProgressScenarios)
                     THEN Len(ProgressScenarios) ELSE w.position + sub.count
          /\ end \in Int
      BY <1>1, EndIs
    <3>2. Len(ProgressScenarios) \in Nat /\ MaxInt \in Nat
      BY ReportedScenarios, MergeAssumption
    <3> HIDE DEF end
    <3> QED
      BY <1>1, <1>3, <3>1, <3>2 DEF Reach
  <2>2. slice \in Seq(PlacedScenario)
    <3> HIDE DEF end, group
    <3> QED
      BY <1>1, <2>1, PlacedSlice
  <2>3. Take(w, sub) = [w EXCEPT !.out = @ \o slice, !.position = end]
    BY <1>3 DEF Take
  <2> HIDE DEF slice, end, group
  <2>4. w.out \o slice \in Seq(PlacedScenario)
    BY <1>1, <2>2
  <2>5. Take(w, sub) = [position |-> end, panicked |-> FALSE, out |-> w.out \o slice]
    BY <1>1, <1>3, <2>3
  <2>6. Take(w, sub) \in WalkState
    BY <2>1, <2>4, <2>5 DEF WalkState
  <2> QED
    BY <1>3, <2>1, <2>5, <2>6 DEF slice, end, group
<1> QED
  BY <1>2, <1>3

\* The walk, round by round.
LEMMA WalkRounds ==
  ASSUME MergeTyped
  PROVE  \E after \in [0..Len(Subcategories) -> WalkState] :
           /\ after[0] = [position |-> 0, out |-> <<>>, panicked |-> FALSE]
           /\ Walk = after[Len(Subcategories)]
           /\ \A k \in 1..Len(Subcategories) :
                after[k] = Take(after[k - 1], Subcategories[k])
<1>0. PICK N : N = Len(Subcategories)
  OBVIOUS
<1>1. N \in Nat
  BY <1>0, SubcategoriesTyped
<1> DEFINE start == [position |-> 0, out |-> <<>>, panicked |-> FALSE]
           F == [k \in 1..N |-> [w \in WalkState |-> Take(w, Subcategories[k])]]
           IsWalk(g) == g = [k \in 0..N |-> IF k = 0 THEN start
                                            ELSE Take(g[k - 1], Subcategories[k])]
<1>2. start \in WalkState
  <2>1. 0 \in Reach
    BY ReportedScenarios DEF Reach
  <2> QED
    BY <2>1 DEF WalkState
<1>3. IsLoop(N, WalkState, start, F)
  <2>1. ASSUME NEW k \in 1..N, NEW w \in WalkState PROVE Take(w, Subcategories[k]) \in WalkState
    <3>1. Subcategories[k] \in Subcategory
      BY <1>0, SubcategoriesTyped
    <3>2. PICK sub : sub = Subcategories[k]
      OBVIOUS
    <3>3. Take(w, sub) \in WalkState
      BY <3>1, <3>2, TakeIs
    <3> QED
      BY <3>2, <3>3
  <2> HIDE DEF start
  <2> QED
    BY <1>1, <1>2, <2>1 DEF IsLoop
<1>4. PICK out \in [0..N -> WalkState] :
        out[0] = start /\ \A k \in 1..N : out[k] = F[k][out[k - 1]]
  <2> HIDE DEF F, start
  <2> QED
    BY <1>3, LoopExists
<1> HIDE DEF start
<1>5. \A k \in 1..N : out[k] = Take(out[k - 1], Subcategories[k])
  <2>1. \A k \in 1..N : k - 1 \in 0..N
    BY <1>1
  <2> QED
    BY <1>4, <2>1
<1>6. IsWalk(out)
  <2>1. ASSUME NEW k \in 0..N
        PROVE  out[k] = IF k = 0 THEN start ELSE Take(out[k - 1], Subcategories[k])
    <3>1. k = 0 \/ k \in 1..N
      BY <1>1
    <3>2. 0 \notin 1..N
      BY <1>1
    <3> QED
      BY <1>4, <1>5, <3>1, <3>2
  <2>2. out = [k \in 0..N |-> out[k]]
    BY <1>4
  <2> QED
    BY <2>1, <2>2
<1>7. PICK g : IsWalk(g) /\ g = CHOOSE h : IsWalk(h)
  BY <1>6
<1>8. g = out
  <2>1. \A k \in 0..N : g[k] = IF k = 0 THEN start ELSE Take(g[k - 1], Subcategories[k])
    BY <1>7
  <2>2. g = [k \in 0..N |-> g[k]]
    BY <1>7
  <2>3. ASSUME NEW k \in 1..N PROVE g[k] = Take(g[k - 1], Subcategories[k])
    <3>1. k \in 0..N /\ k # 0
      BY <1>1
    <3> QED
      BY <2>1, <3>1
  <2>4. out = [k \in 0..N |-> out[k]] /\ g[0] = out[0]
    BY <1>1, <1>4, <2>1
  <2>5. SameLoop(N, g, out)
    BY ONLY <1>1, <1>5, <2>2, <2>3, <2>4 DEF SameLoop
  <2> QED
    BY <2>5, LoopUnique
<1>9. Walk = out[N]
  BY <1>0, <1>7, <1>8 DEF Walk, start
<1> QED
  BY <1>0, <1>4, <1>5, <1>9 DEF start

\* After k subcategories the walk has placed what they ask for, or everything.
WalkedTo(w, k) ==
  LET N == Len(ProgressScenarios) IN
  ~w.panicked =>
    /\ w.position = IF Asked[k] > N THEN N ELSE Asked[k]
    /\ Len(w.out) = w.position
    /\ \A i \in 1..w.position : w.out[i] = Placed(ProgressScenarios[i], GroupOf(i))

\* The group of a scenario is the first whose total reaches it.
LEMMA GroupReached ==
  ASSUME MergeTyped, categories # <<>>, NEW k \in 0..(Len(Subcategories) - 1), NEW i \in Nat,
         Asked[k] < i, i <= Asked[k + 1]
  PROVE  GroupOf(i) = [category |-> Subcategories[k + 1].category,
                       subcategory |-> Subcategories[k + 1].subcategory]
<1> DEFINE K == Len(Subcategories)
           reached == {n \in DOMAIN Subcategories : Asked[n] >= i}
<1>1. K \in Nat /\ DOMAIN Subcategories = 1..K
  BY SubcategoriesTyped
<1>2. \A n \in 0..K : Asked[n] \in Nat
  BY AskedRounds
<1> HIDE DEF K
<1>3. k \in 0..K /\ k + 1 \in 1..K /\ k + 1 \in 0..K
  BY <1>1 DEF K
<1>4. k + 1 \in reached
  BY <1>1, <1>2, <1>3
<1>5. ASSUME NEW n \in reached PROVE k + 1 <= n
  <2>1. n \in 1..K /\ n \in 0..K /\ Asked[n] >= i
    BY <1>1
  <2>2. CASE n <= k
    <3>1. n \in 0..k
      BY <2>1, <2>2
    <3>2. Asked[n] <= Asked[k]
      BY <1>3, <3>1, AskedGrows DEF K
    <3> QED
      BY <1>2, <1>3, <2>1, <3>2
  <2> QED
    BY <1>3, <2>1, <2>2
<1>6. reached \subseteq Nat
  BY <1>1
<1>7. Min(reached) = k + 1
  <2> HIDE DEF reached
  <2> QED
    BY <1>4, <1>5, <1>6, MinIs
<1> QED
  BY <1>4, <1>7 DEF GroupOf

\* The rest goes to the last category.
LEMMA GroupOfRest ==
  ASSUME MergeTyped, categories # <<>>, NEW i \in Nat, Asked[Len(Subcategories)] < i
  PROVE  GroupOf(i) = [category |-> Len(categories), subcategory |-> 0]
<1> DEFINE K == Len(Subcategories)
<1>1. K \in Nat /\ DOMAIN Subcategories = 1..K /\ \A n \in 0..K : Asked[n] \in Nat
  BY SubcategoriesTyped, AskedRounds
<1>2. K \in 0..K
  BY <1>1
<1>3. \A n \in 0..K : Asked[n] <= Asked[K]
  BY <1>2, AskedGrows
<1>4. \A n \in 1..K : n \in 0..K
  BY <1>1
<1> HIDE DEF K
<1>5. {n \in DOMAIN Subcategories : Asked[n] >= i} = {}
  BY <1>1, <1>2, <1>3, <1>4 DEF K
<1> QED
  BY <1>5 DEF GroupOf

\* A round keeps to the running totals.
LEMMA TakeStep ==
  ASSUME MergeTyped, categories # <<>>, NEW k \in 0..(Len(Subcategories) - 1),
         NEW w \in WalkState, WalkedTo(w, k)
  PROVE  WalkedTo(Take(w, Subcategories[k + 1]), k + 1)
<1> DEFINE N == Len(ProgressScenarios)
           K == Len(Subcategories)
           sub == Subcategories[k + 1]
           end == End(w.position, sub.count)
           group == [category |-> sub.category, subcategory |-> sub.subcategory]
           slice == PlaceAll(SubSeq(ProgressScenarios, w.position + 1, end), group)
           total == w.position + sub.count
<1>1. K \in Nat /\ k \in 0..K /\ k + 1 \in 1..K /\ k + 1 \in 0..K /\ (k + 1) - 1 = k
  BY SubcategoriesTyped
<1>2. N \in Nat /\ N <= MaxInt /\ MaxInt \in Nat
  BY ReportedScenarios, MergeAssumption
<1>3. sub \in Subcategory /\ sub.count \in 0..MaxInt /\ group \in Group
  <2>1. sub \in Subcategory
    BY <1>1, SubcategoriesTyped
  <2> QED
    BY <2>1 DEF Subcategory, Group
<1>4. Asked[k] \in Nat /\ Asked[k + 1] \in Nat /\ Asked[k + 1] = Asked[k] + sub.count
  BY <1>1, AskedRounds
<1>5. CASE w.panicked \/ end < w.position
  <2>1. Take(w, sub).panicked
    <3> HIDE DEF sub
    <3> QED
      BY <1>3, <1>5, TakeIs DEF end
  <2> QED
    BY <2>1 DEF WalkedTo
<1>6. CASE ~(w.panicked \/ end < w.position)
  <2>1. /\ end \in Reach
        /\ Take(w, sub) = [position |-> end, panicked |-> FALSE, out |-> w.out \o slice]
    <3> HIDE DEF sub
    <3> QED
      BY <1>3, <1>6, TakeIs DEF end, slice, group
  <2>2. /\ w.position = (IF Asked[k] > N THEN N ELSE Asked[k])
        /\ Len(w.out) = w.position /\ w.position \in 0..N
        /\ \A i \in 1..w.position : w.out[i] = Placed(ProgressScenarios[i], GroupOf(i))
    BY <1>2, <1>4, <1>6 DEF WalkedTo, WalkState, Reach
  <2>3. /\ total > MaxInt => end < w.position
        /\ total <= MaxInt => end = IF total > N THEN N ELSE total
    <3> HIDE DEF sub
    <3> QED
      BY <1>3, <2>2, EndIs DEF end, Reach, total
  <2>4. w.position <= end /\ end \in 0..N
    BY <1>2, <1>6, <2>1, <2>2 DEF Reach
  <2>5. /\ slice \in Seq(PlacedScenario) /\ Len(slice) = end - w.position
        /\ \A i \in 1..(end - w.position) :
             slice[i] = Placed(ProgressScenarios[w.position + i], group)
    <3> HIDE DEF end, group
    <3>1. w.position \in Reach
      BY <2>2 DEF Reach
    <3> QED
      BY <1>3, <2>1, <2>4, <3>1, PlacedSlice
  <2> HIDE DEF end, slice
  <2>6. total <= MaxInt /\ end = IF total > N THEN N ELSE total
    <3> HIDE DEF N
    <3> QED
      BY <1>2, <1>3, <1>6, <2>2, <2>3
  <2>7. end = IF Asked[k + 1] > N THEN N ELSE Asked[k + 1]
    <3> HIDE DEF N, sub
    <3> QED
      BY <1>2, <1>3, <1>4, <2>2, <2>6
  <2>8. w.out \in Seq(PlacedScenario)
    BY DEF WalkState
  <2>9. PICK p, e, out, S : /\ p = w.position /\ e = end /\ out = w.out /\ S = slice
                            /\ p \in Nat /\ e \in Nat /\ p <= e
    BY <2>2, <2>4
  <2>10. /\ Len(out \o S) = e
         /\ \A i \in 1..p : (out \o S)[i] = out[i]
         /\ \A i \in 1..e : i > p => (out \o S)[i] = S[i - p] /\ i - p \in 1..(e - p)
    <3>1. out \in Seq(PlacedScenario) /\ S \in Seq(PlacedScenario) /\ Len(out) = p /\ Len(S) = e - p
      BY <2>2, <2>5, <2>8, <2>9
    <3>2. /\ Len(out \o S) = Len(out) + Len(S) /\ \A i \in 1..Len(out) : (out \o S)[i] = out[i]
          /\ \A i \in 1..(Len(out) + Len(S)) : i > Len(out) => (out \o S)[i] = S[i - Len(out)]
      BY ONLY <3>1
    <3>3. p + (e - p) = e /\ \A i \in 1..e : i > p => i - p \in 1..(e - p)
      BY ONLY <2>9
    <3> QED
      BY ONLY <3>1, <3>2, <3>3
  <2>11. ASSUME NEW i \in 1..end PROVE (w.out \o slice)[i] = Placed(ProgressScenarios[i], GroupOf(i))
    <3>1. CASE i <= w.position
      <4>1. (w.out \o slice)[i] = w.out[i] /\ i \in 1..w.position
        BY <2>9, <2>10, <3>1
      <4> QED
        BY <2>2, <4>1
    <3>2. CASE i > w.position
      <4>1. (w.out \o slice)[i] = slice[i - w.position] /\ i - w.position \in 1..(end - w.position)
        BY <2>9, <2>10, <3>2
      <4>2. w.position + (i - w.position) = i /\ i \in Nat
        BY <2>9, <3>2
      <4>3. Asked[k] < i /\ i <= Asked[k + 1]
        <5> HIDE DEF N
        <5> QED
          BY <1>2, <1>4, <2>2, <2>4, <2>7, <3>2
      <4>4. GroupOf(i) = group
        BY <4>2, <4>3, GroupReached
      <4> QED
        BY <2>5, <4>1, <4>2, <4>4
    <3>3. i <= w.position \/ i > w.position
      BY <2>9
    <3> QED
      BY <3>1, <3>2, <3>3
  <2> HIDE DEF N, K, sub
  <2> QED
    BY <2>1, <2>7, <2>9, <2>10, <2>11 DEF WalkedTo, N, sub
<1> QED
  BY <1>5, <1>6

\* The whole walk keeps to the totals.
LEMMA WalkIs ==
  ASSUME MergeTyped, categories # <<>>
  PROVE  Walk \in WalkState /\ WalkedTo(Walk, Len(Subcategories))
<1>0. PICK K : K = Len(Subcategories)
  OBVIOUS
<1>1. PICK after \in [0..K -> WalkState] :
           /\ after[0] = [position |-> 0, out |-> <<>>, panicked |-> FALSE]
           /\ Walk = after[K]
           /\ \A k \in 1..K : after[k] = Take(after[k - 1], Subcategories[k])
  BY <1>0, WalkRounds
<1> DEFINE T == {k \in 0..K : WalkedTo(after[k], k)}
<1>2. K \in Nat
  BY <1>0, SubcategoriesTyped
<1>3. 0 \in T
  <2>1. WalkedTo([position |-> 0, out |-> <<>>, panicked |-> FALSE], 0)
    BY AskedRounds, ReportedScenarios DEF WalkedTo
  <2>2. WalkedTo(after[0], 0) /\ 0 \in 0..K
    BY <1>1, <1>2, <2>1
  <2> QED
    BY <2>2
<1>4. ASSUME NEW k \in 0..(K - 1), k \in T PROVE k + 1 \in T
  <2>1. k \in 0..K /\ k + 1 \in 0..K /\ k + 1 \in 1..K /\ (k + 1) - 1 = k
    BY <1>2
  <2>2. after[k + 1] = Take(after[k], Subcategories[k + 1])
    BY <1>1, <2>1
  <2>3. PICK w \in WalkState : w = after[k]
    BY <1>1, <2>1
  <2>4. WalkedTo(w, k)
    BY <1>4, <2>3
  <2>5. WalkedTo(Take(w, Subcategories[k + 1]), k + 1)
    BY <1>0, <2>4, TakeStep
  <2> QED
    BY <2>1, <2>2, <2>3, <2>5
<1>5. 0..K \subseteq T
  <2> HIDE DEF T
  <2> QED
    BY <1>2, <1>3, <1>4, LoopInduction
<1> QED
  BY <1>0, <1>1, <1>2, <1>5

\* What the scenarios are merged to, when the walk is over.
LEMMA MergedAre ==
  ASSUME MergeTyped, categories # <<>>
  PROVE  LET N == Len(ProgressScenarios)
             p == Walk.position
             rest == [category |-> Len(categories), subcategory |-> 0]
         IN /\ p \in 0..N /\ MergedScenarios \in Seq(PlacedScenario)
            /\ Len(Walk.out) = p =>
                 /\ Len(MergedScenarios) = N
                 /\ \A i \in 1..p : MergedScenarios[i] = Walk.out[i]
                 /\ \A i \in (p + 1)..N : MergedScenarios[i] = Placed(ProgressScenarios[i], rest)
<1> DEFINE rest == [category |-> Len(categories), subcategory |-> 0]
           tail == PlaceAll(SubSeq(ProgressScenarios, Walk.position + 1, Len(ProgressScenarios)), rest)
<1>1. PICK N, p, out : N = Len(ProgressScenarios) /\ p = Walk.position /\ out = Walk.out
  OBVIOUS
<1>2. N \in Nat /\ p \in 0..N /\ out \in Seq(PlacedScenario)
  <2>1. Walk \in WalkState
    BY WalkIs
  <2> QED
    BY <1>1, <2>1, ReportedScenarios DEF WalkState, Reach
<1>3. rest \in Group
  BY DEF MergeTyped, Group
<1>4. p \in Reach /\ N \in Reach /\ p <= N
  BY <1>1, <1>2 DEF Reach
<1> HIDE DEF rest
<1>5. /\ tail \in Seq(PlacedScenario) /\ Len(tail) = N - p
      /\ \A i \in 1..(N - p) : tail[i] = Placed(ProgressScenarios[p + i], rest)
  BY <1>1, <1>3, <1>4, PlacedSlice
<1>6. MergedScenarios = out \o tail
  BY <1>1 DEF MergedScenarios, rest
<1> HIDE DEF tail
<1>7. out \o tail \in Seq(PlacedScenario)
  BY <1>2, <1>5
<1>8. ASSUME Len(out) = p
      PROVE  /\ Len(out \o tail) = N
             /\ \A i \in 1..p : (out \o tail)[i] = out[i]
             /\ \A i \in (p + 1)..N : (out \o tail)[i] = Placed(ProgressScenarios[i], rest)
  <2>1. /\ Len(out \o tail) = Len(out) + Len(tail)
        /\ \A i \in 1..Len(out \o tail) :
             (out \o tail)[i] = IF i <= Len(out) THEN out[i] ELSE tail[i - Len(out)]
    BY ONLY <1>2, <1>5, JoinedElements
  <2>2. p + (N - p) = N /\ \A i \in (p + 1)..N : i \in 1..N /\ i > p /\ i - p \in 1..(N - p) /\ p + (i - p) = i
    BY ONLY <1>2
  <2> QED
    BY ONLY <1>5, <1>8, <2>1, <2>2
<1> QED
  BY <1>1, <1>2, <1>6, <1>7, <1>8 DEF rest

\* Unless the merge panics, every scenario Kovaak's names is placed exactly once,
\* in its order, in the group its position falls in.
THEOREM ScenariosAlwaysFillGroups == MergeSpec => []ScenariosFillGroups
<1>1. ASSUME MergeTyped, ~Panics
      PROVE  MergedScenarios = [i \in DOMAIN ProgressScenarios |->
                                  Placed(ProgressScenarios[i], GroupOf(i))]
  <2>1. CASE categories = <<>>
    BY <2>1 DEF MergedScenarios, PlaceAll, GroupOf
  <2>2. CASE categories # <<>>
    <3>1. PICK N, p, K : N = Len(ProgressScenarios) /\ p = Walk.position /\ K = Len(Subcategories)
      OBVIOUS
    <3>2. N \in Nat /\ DOMAIN ProgressScenarios = 1..N /\ K \in Nat
      BY <1>1, <3>1, ReportedScenarios, SubcategoriesTyped
    <3>3. ~Walk.panicked
      BY <1>1, <2>2 DEF Panics
    <3>4. /\ p = IF Asked[K] > N THEN N ELSE Asked[K]
          /\ Len(Walk.out) = p
          /\ \A i \in 1..p : Walk.out[i] = Placed(ProgressScenarios[i], GroupOf(i))
      <4>1. WalkedTo(Walk, Len(Subcategories))
        BY <1>1, <2>2, WalkIs
      <4> QED
        BY <3>1, <3>3, <4>1 DEF WalkedTo
    <3> DEFINE rest == [category |-> Len(categories), subcategory |-> 0]
    <3>5. /\ p \in 0..N /\ MergedScenarios \in Seq(PlacedScenario) /\ Len(MergedScenarios) = N
          /\ \A i \in 1..p : MergedScenarios[i] = Walk.out[i]
          /\ \A i \in (p + 1)..N : MergedScenarios[i] = Placed(ProgressScenarios[i], rest)
      BY <1>1, <2>2, <3>1, <3>4, MergedAre
    <3>6. ASSUME NEW i \in 1..N
          PROVE  MergedScenarios[i] = Placed(ProgressScenarios[i], GroupOf(i))
      <4>1. CASE i \in 1..p
        BY <3>4, <3>5, <4>1
      <4>2. CASE i \in (p + 1)..N
        <5>1. Asked[K] \in Nat
          BY <1>1, <3>1, <3>2, AskedRounds
        <5>2. Asked[K] < i /\ i \in Nat
          BY <3>2, <3>4, <3>5, <4>2, <5>1
        <5>3. GroupOf(i) = rest
          BY <1>1, <2>2, <3>1, <5>2, GroupOfRest
        <5> QED
          BY <3>5, <4>2, <5>3
      <4>3. i \in 1..p \/ i \in (p + 1)..N
        BY <3>2, <3>5
      <4> QED
        BY <4>1, <4>2, <4>3
    <3>7. MergedScenarios = [i \in 1..N |-> MergedScenarios[i]]
      BY <3>2, <3>5
    <3> QED
      BY <3>2, <3>6, <3>7
  <2> QED
    BY <2>1, <2>2
<1>2. MergeTyped => ScenariosFillGroups
  BY <1>1 DEF ScenariosFillGroups
<1> QED
  BY <1>2, MergeTyping, PTL

\* The slice expression is in range unless a count is so large that adding the
\* position overflows.
THEOREM PanicsAreOverflows == MergeSpec => []PanicsOnlyOnOverflow
<1>1. ASSUME MergeTyped, categories # <<>>,
             \A k \in DOMAIN Subcategories : Subcategories[k].count <= MaxInt - Len(ProgressScenarios)
      PROVE  ~Walk.panicked
  <2>1. PICK K, N : K = Len(Subcategories) /\ N = Len(ProgressScenarios)
    OBVIOUS
  <2>2. PICK after \in [0..K -> WalkState] :
             /\ after[0] = [position |-> 0, out |-> <<>>, panicked |-> FALSE]
             /\ Walk = after[K]
             /\ \A k \in 1..K : after[k] = Take(after[k - 1], Subcategories[k])
    BY <1>1, <2>1, WalkRounds
  <2>3. /\ K \in Nat /\ DOMAIN Subcategories = 1..K /\ N \in Nat /\ N <= MaxInt /\ MaxInt \in Nat
        /\ \A k \in 1..K : Subcategories[k] \in Subcategory
    BY <1>1, <2>1, SubcategoriesTyped, ReportedScenarios, MergeAssumption
  <2> DEFINE T == {k \in 0..K : ~after[k].panicked}
  <2>4. 0 \in T
    BY <2>2, <2>3
  <2>5. ASSUME NEW k \in 0..(K - 1), k \in T PROVE k + 1 \in T
    <3>1. k \in 0..K /\ k + 1 \in 0..K /\ k + 1 \in 1..K /\ (k + 1) - 1 = k
      BY <2>3
    <3>2. PICK w, sub : w = after[k] /\ sub = Subcategories[k + 1]
      OBVIOUS
    <3>3. /\ w \in WalkState /\ ~w.panicked /\ sub \in Subcategory
          /\ after[k + 1] = Take(w, sub) /\ sub.count <= MaxInt - N
      BY <1>1, <2>1, <2>2, <2>3, <2>5, <3>1, <3>2
    <3>4. w.position \in Reach /\ w.position \in 0..N /\ sub.count \in 0..MaxInt
      BY <2>1, <3>3 DEF WalkState, Reach, Subcategory
    <3>5. w.position + sub.count <= MaxInt
      BY <2>3, <3>3, <3>4
    <3>6. End(w.position, sub.count) = IF w.position + sub.count > N THEN N ELSE w.position + sub.count
      BY <1>1, <2>1, <3>4, <3>5, EndIs
    <3>7. ~(End(w.position, sub.count) < w.position)
      BY <2>3, <3>4, <3>6
    <3>8. Take(w, sub).panicked = FALSE
      <4>1. Take(w, sub) =
              [position |-> End(w.position, sub.count), panicked |-> FALSE,
               out |-> w.out \o PlaceAll(SubSeq(ProgressScenarios, w.position + 1,
                                                End(w.position, sub.count)),
                                         [category |-> sub.category,
                                          subcategory |-> sub.subcategory])]
        BY <1>1, <3>3, <3>7, TakeIs
      <4> QED
        BY <4>1
    <3> QED
      BY <3>1, <3>3, <3>8
  <2>6. 0..K \subseteq T
    <3> HIDE DEF T
    <3> QED
      BY <2>3, <2>4, <2>5, LoopInduction
  <2> QED
    BY <2>2, <2>3, <2>6
<1>2. MergeTyped => PanicsOnlyOnOverflow
  <2> SUFFICES ASSUME MergeTyped, Panics
               PROVE  \E k \in DOMAIN Subcategories :
                        Subcategories[k].count > MaxInt - Len(ProgressScenarios)
    BY DEF PanicsOnlyOnOverflow
  <2>1. Walk.panicked /\ categories # <<>>
    BY DEF Panics
  <2>2. PICK k \in DOMAIN Subcategories :
          ~(Subcategories[k].count <= MaxInt - Len(ProgressScenarios))
    BY <1>1, <2>1
  <2>3. Subcategories[k] \in Subcategory
    BY SubcategoriesTyped
  <2>4. Subcategories[k].count \in Int /\ MaxInt \in Int /\ Len(ProgressScenarios) \in Int
    BY <2>3, ReportedScenarios, MergeAssumption DEF Subcategory
  <2> QED
    BY <2>2, <2>4
<1> QED
  BY <1>2, MergeTyping, PTL

-----------------------------------------------------------------------------
(* The merge of a difficulty: order *)

\* f takes each of S to one of T, and each of T is taken once.
OneToOne(f, S, T) ==
  /\ \A i \in S : f[i] \in T
  /\ \A i, j \in S : f[i] = f[j] => i = j
  /\ \A p \in T : \E i \in S : f[i] = p

\* Such sets are of one size.
LEMMA SameSize ==
  ASSUME NEW f, NEW S, NEW T, IsFiniteSet(S), OneToOne(f, S, T)
  PROVE  Cardinality(S) = Cardinality(T)
<1> DEFINE g == [i \in S |-> f[i]]
<1>1. /\ g \in [S -> T]
      /\ \A i, j \in S : g[i] = g[j] => i = j
      /\ \A p \in T : \E i \in S : g[i] = p
  BY DEF OneToOne
<1> HIDE DEF g
<1>2. g \in Injection(S, T) /\ g \in Surjection(S, T)
  BY <1>1 DEF Injection, IsInjective, Surjection
<1>3. ExistsBijection(S, T)
  BY <1>2 DEF ExistsBijection, Bijection
<1> QED
  BY <1>3, FS_Bijection

\* The later has the later place.
LEMMA PlacesGrow ==
  ASSUME NEW n \in Nat, NEW kept, kept \subseteq 1..n, NEW i \in kept, NEW j \in kept
  PROVE  i <= j <=> PlaceIn(kept, i) <= PlaceIn(kept, j)
<1> DEFINE upTo(k) == {l \in kept : l <= k}
<1>1. i \in Nat /\ j \in Nat /\ \A l \in kept : l \in Nat
  OBVIOUS
<1>2. ASSUME NEW k \in kept, NEW l \in kept, k <= l
      PROVE  Cardinality(upTo(k)) <= Cardinality(upTo(l))
  <2>1. upTo(k) \subseteq upTo(l) /\ upTo(l) \subseteq kept
    <3>1. \A m \in kept : m <= k => m <= l
      BY <1>1, <1>2
    <3> QED
      BY <3>1
  <2> HIDE DEF upTo
  <2>2. IsFiniteSet(upTo(l))
    BY <2>1, PlacesOf, FS_Subset
  <2> QED
    BY <2>1, <2>2, FS_Subset
<1>3. ASSUME NEW k \in kept, NEW l \in kept, k < l
      PROVE  Cardinality(upTo(k)) < Cardinality(upTo(l))
  <2>1. upTo(k) \subseteq upTo(l) /\ upTo(l) \subseteq kept /\ l \in upTo(l) /\ l \notin upTo(k)
    <3>1. ~(l <= k) /\ l <= l /\ \A m \in kept : m <= k => m <= l
      BY <1>1, <1>3
    <3> QED
      BY <3>1
  <2> HIDE DEF upTo
  <2>2. IsFiniteSet(upTo(l)) /\ IsFiniteSet(upTo(k))
    BY <2>1, PlacesOf, FS_Subset
  <2>3. Cardinality(upTo(k)) <= Cardinality(upTo(l)) /\ upTo(k) # upTo(l)
    BY <2>1, <2>2, FS_Subset
  <2>4. Cardinality(upTo(k)) # Cardinality(upTo(l))
    BY <2>1, <2>2, <2>3, FS_Subset
  <2> QED
    BY <2>2, <2>3, <2>4, FS_CardinalityType
<1>4. PlaceIn(kept, i) = Cardinality(upTo(i)) /\ PlaceIn(kept, j) = Cardinality(upTo(j))
  BY DEF PlaceIn
<1>5. PlaceIn(kept, i) \in Nat /\ PlaceIn(kept, j) \in Nat
  <2>1. /\ Cardinality(kept) \in Nat
        /\ \A k \in kept : PlaceIn(kept, k) \in 1..Cardinality(kept)
    BY PlacesOf
  <2> QED
    BY <2>1
<1> HIDE DEF upTo
<1> QED
  BY <1>1, <1>2, <1>3, <1>4, <1>5

KeptTwice(kept, again) == {i \in kept : PlaceIn(kept, i) \in again}

\* A list of some of a list is a list of those kept twice.
LEMMA ListOfList ==
  ASSUME NEW n \in Nat, NEW kept, kept \subseteq 1..n, NEW entry, NEW list, Lists(list, kept, entry),
         NEW again, again \subseteq 1..Len(list), NEW list2, Lists(list2, again, list)
  PROVE  IsListOf(list2, KeptTwice(kept, again), entry)
<1> DEFINE twice == KeptTwice(kept, again)
           place == [i \in kept |-> PlaceIn(kept, i)]
<1>1. /\ Len(list) = Cardinality(kept) /\ IsFiniteSet(kept) /\ Len(list) \in Nat
      /\ \A i \in kept : PlaceIn(kept, i) \in Nat /\ list[PlaceIn(kept, i)] = entry[i]
      /\ \A p \in 1..Len(list) : \E i \in kept : PlaceIn(kept, i) = p
      /\ Len(list2) = Cardinality(again)
      /\ \A p \in again : list2[PlaceIn(again, p)] = list[p]
  <2>1. /\ IsFiniteSet(kept) /\ Cardinality(kept) \in Nat
        /\ \A k \in kept : PlaceIn(kept, k) \in 1..Cardinality(kept)
    BY PlacesOf
  <2>2. /\ Len(list) = Cardinality(kept)
        /\ \A i \in kept : list[PlaceIn(kept, i)] = entry[i]
        /\ \A p \in 1..Len(list) : \E i \in kept : PlaceIn(kept, i) = p
    BY DEF Lists, IsListOf
  <2>3. /\ Len(list2) = Cardinality(again)
        /\ \A p \in again : list2[PlaceIn(again, p)] = list[p]
    BY DEF Lists, IsListOf
  <2>4. \A k \in kept : PlaceIn(kept, k) \in Nat
    BY <2>1
  <2> QED
    BY <2>1, <2>2, <2>3, <2>4
<1>2. /\ twice \subseteq kept /\ \A i \in kept : place[i] = PlaceIn(kept, i) /\ i \in Nat
      /\ \A i \in kept : i \in twice <=> place[i] \in again
      /\ \A p \in again : p \in Nat /\ \E i \in twice : place[i] = p
  BY <1>1 DEF KeptTwice
<1>3. \A i, j \in kept : i <= j <=> place[i] <= place[j]
  BY <1>2, PlacesGrow
<1>4. \A i, j \in kept : place[i] = place[j] => i = j
  BY <1>1, <1>2, <1>3
<1> HIDE DEF twice, place
<1>5. Len(list2) = Cardinality(twice)
  <2>1. OneToOne(place, twice, again) /\ IsFiniteSet(twice)
    BY <1>1, <1>2, <1>4, FS_Subset DEF OneToOne
  <2> QED
    BY <1>1, <2>1, SameSize
<1>6. ASSUME NEW i \in twice PROVE list2[PlaceIn(twice, i)] = entry[i]
  <2> DEFINE these == {j \in twice : j <= i}
             those == {p \in again : p <= place[i]}
  <2>1. OneToOne(place, these, those)
    <3>1. \A j \in these : place[j] \in those
      BY <1>2, <1>3
    <3>2. \A p \in those : \E j \in these : place[j] = p
      BY <1>2, <1>3
    <3> QED
      BY <1>2, <1>4, <3>1, <3>2 DEF OneToOne
  <2>2. these \subseteq kept
    BY <1>2
  <2> HIDE DEF these, those
  <2>3. Cardinality(these) = Cardinality(those)
    <3>1. IsFiniteSet(these)
      BY <1>1, <2>2, FS_Subset
    <3> QED
      BY <2>1, <3>1, SameSize
  <2>4. PlaceIn(twice, i) = PlaceIn(again, place[i])
    BY <2>3 DEF PlaceIn, these, those
  <2> QED
    BY <1>1, <1>2, <2>4
<1> QED
  BY <1>5, <1>6 DEF IsListOf, twice

\* The ranks are the members of rankColors that have both a name and a color.
LEMMA RanksInOrder ==
  ASSUME MergeTyped
  PROVE  LET complete == {i \in DOMAIN rankColors : /\ rankColors[i].name # Blank
                                                    /\ rankColors[i].color = "color"}
         IN IsListOf(MergedRanks, complete,
                     [i \in complete |-> [name |-> Trim(rankColors[i].name), color |-> "color"]])
<1> DEFINE complete == {i \in DOMAIN rankColors : /\ rankColors[i].name # Blank
                                                  /\ rankColors[i].color = "color"}
           strings == {i \in DOMAIN rankColors : rankColors[i].color # NotAString}
           filled == {i \in DOMAIN SourceRanks : /\ SourceRanks[i].name # Blank
                                                 /\ SourceRanks[i].color # Blank}
           kept == KeptOf(SourceRanks, filled)
<1>1. /\ rankColors \in Seq(RankColors) /\ Len(rankColors) \in Nat
      /\ DOMAIN rankColors = 1..Len(rankColors)
      /\ \A i \in DOMAIN rankColors : rankColors[i].color \in {"color", Blank, NotAString}
  <2>1. rankColors \in Seq(RankColors)
    BY DEF MergeTyped
  <2>2. \A i \in DOMAIN rankColors : rankColors[i] \in RankColors
    BY <2>1
  <2> QED
    BY <2>1, <2>2 DEF RankColors
<1>2. strings \subseteq 1..Len(rankColors)
  BY <1>1
<1>3. SourceRanks \in Seq(RankColors) /\ Lists(SourceRanks, strings, rankColors)
  <2>1. SourceRanks = KeptOf(rankColors, strings)
    BY DEF SourceRanks
  <2> HIDE DEF strings
  <2> QED
    BY <1>1, <1>2, <2>1, KeptAreListed
<1>4. filled \subseteq 1..Len(SourceRanks)
  BY <1>3
<1>5. kept \in Seq(RankColors) /\ Lists(kept, filled, SourceRanks)
  <2> HIDE DEF filled
  <2> QED
    BY <1>3, <1>4, KeptAreListed
<1>6. \A i \in strings : /\ PlaceIn(strings, i) \in DOMAIN SourceRanks
                         /\ SourceRanks[PlaceIn(strings, i)] = rankColors[i]
  <2> HIDE DEF strings
  <2>1. \A i \in strings : PlaceIn(strings, i) \in 1..Cardinality(strings)
    BY <1>1, <1>2, PlacesOf
  <2> QED
    BY <1>3, <2>1 DEF Lists, IsListOf
<1>7. complete = KeptTwice(strings, filled)
  <2>1. complete \subseteq strings
    BY MergeAssumption
  <2>2. ASSUME NEW i \in strings PROVE i \in complete <=> PlaceIn(strings, i) \in filled
    <3>1. i \in DOMAIN rankColors /\ rankColors[i].color # NotAString
      OBVIOUS
    <3>2. PlaceIn(strings, i) \in filled <=> rankColors[i].name # Blank /\ rankColors[i].color # Blank
      BY <1>6
    <3>3. rankColors[i].color # Blank <=> rankColors[i].color = "color"
      BY <1>1, <3>1, MergeAssumption
    <3> QED
      BY <3>1, <3>2, <3>3
  <2> QED
    BY <2>1, <2>2 DEF KeptTwice
<1>8. IsListOf(kept, complete, rankColors)
  <2> HIDE DEF strings, filled, kept, complete
  <2> QED
    BY <1>1, <1>2, <1>3, <1>4, <1>5, <1>7, ListOfList
<1>9. MergedRanks = [p \in DOMAIN kept |-> [name |-> Trim(kept[p].name), color |-> kept[p].color]]
  BY DEF MergedRanks, Trimmed
<1>10. \A i \in complete : rankColors[i].color = "color" /\ PlaceIn(complete, i) \in 1..Cardinality(complete)
  <2>1. \A i \in complete : rankColors[i].color = "color"
    OBVIOUS
  <2>2. complete \subseteq 1..Len(rankColors)
    BY <1>1
  <2> HIDE DEF complete
  <2> QED
    BY <1>1, <2>1, <2>2, PlacesOf
<1> HIDE DEF complete, kept
<1>11. DOMAIN kept = 1..Cardinality(complete) /\ Len(MergedRanks) = Cardinality(complete)
  BY <1>5, <1>8, <1>9 DEF IsListOf
<1>12. ASSUME NEW i \in complete
       PROVE  MergedRanks[PlaceIn(complete, i)] = [name |-> Trim(rankColors[i].name), color |-> "color"]
  <2>1. kept[PlaceIn(complete, i)] = rankColors[i] /\ PlaceIn(complete, i) \in DOMAIN kept
    BY <1>8, <1>10, <1>11 DEF IsListOf
  <2> QED
    BY <1>9, <1>10, <2>1
<1> QED
  BY <1>11, <1>12 DEF IsListOf, complete

\* The merged scenarios are a sequence even when the walk panics.
LEMMA MergedTyped ==
  ASSUME MergeTyped
  PROVE  MergedScenarios \in Seq(PlacedScenario)
<1>1. CASE categories = <<>>
  <2>1. /\ ProgressScenarios \in Seq(Reported) /\ Len(ProgressScenarios) \in Nat
        /\ DOMAIN ProgressScenarios = 1..Len(ProgressScenarios)
    BY ReportedScenarios
  <2>2. PICK N : N = Len(ProgressScenarios)
    OBVIOUS
  <2>3. NoGroup \in Group
    BY DEF NoGroup, Group
  <2>4. \A i \in 1..N : Placed(ProgressScenarios[i], NoGroup) \in PlacedScenario
    BY <2>1, <2>2, <2>3 DEF PlacedScenario
  <2>5. MergedScenarios = [i \in 1..N |-> Placed(ProgressScenarios[i], NoGroup)]
    BY <1>1, <2>1, <2>2 DEF MergedScenarios, PlaceAll
  <2>6. MergedScenarios \in [1..N -> PlacedScenario] /\ N \in Nat
    BY <2>1, <2>2, <2>4, <2>5
  <2> QED
    BY <2>6
<1>2. CASE categories # <<>>
  BY <1>2, MergedAre
<1> QED
  BY <1>1, <1>2

\* ScenarioLinks, round by round.
LEMMA LinkRounds ==
  ASSUME MergeTyped
  PROVE  \E out \in [0..Len(MergedScenarios) -> Seq(PlacedScenario)] :
           /\ out[0] = <<>> /\ ScenarioLinks = out[Len(MergedScenarios)]
           /\ \A n \in 1..Len(MergedScenarios) : out[n] = Link(out[n - 1], MergedScenarios[n])
<1>0. PICK N : N = Len(MergedScenarios)
  OBVIOUS
<1>1. N \in Nat /\ \A n \in 1..N : MergedScenarios[n] \in PlacedScenario
  BY <1>0, MergedTyped
<1> DEFINE F == [n \in 1..N |-> [q \in Seq(PlacedScenario) |-> Link(q, MergedScenarios[n])]]
           IsLinks(g) == g = [n \in 0..N |-> IF n = 0 THEN <<>> ELSE Link(g[n - 1], MergedScenarios[n])]
<1>2. IsLoop(N, Seq(PlacedScenario), <<>>, F)
  <2>1. ASSUME NEW n \in 1..N, NEW q \in Seq(PlacedScenario)
        PROVE  Link(q, MergedScenarios[n]) \in Seq(PlacedScenario)
    BY <1>1 DEF Link
  <2> QED
    BY <1>1, <2>1 DEF IsLoop
<1>3. PICK out \in [0..N -> Seq(PlacedScenario)] :
        out[0] = <<>> /\ \A n \in 1..N : out[n] = F[n][out[n - 1]]
  <2> HIDE DEF F
  <2> QED
    BY <1>2, LoopExists
<1>4. \A n \in 1..N : out[n] = Link(out[n - 1], MergedScenarios[n])
  <2>1. \A n \in 1..N : n - 1 \in 0..N
    BY <1>1
  <2> QED
    BY <1>3, <2>1
<1>5. IsLinks(out)
  <2>1. ASSUME NEW n \in 0..N
        PROVE  out[n] = IF n = 0 THEN <<>> ELSE Link(out[n - 1], MergedScenarios[n])
    <3>1. n = 0 \/ n \in 1..N
      BY <1>1
    <3>2. 0 \notin 1..N
      BY <1>1
    <3> QED
      BY <1>3, <1>4, <3>1, <3>2
  <2>2. out = [n \in 0..N |-> out[n]]
    BY <1>3
  <2> QED
    BY <2>1, <2>2
<1>6. PICK g : IsLinks(g) /\ g = CHOOSE h : IsLinks(h)
  BY <1>5
<1>7. g = out
  <2>1. \A n \in 0..N : g[n] = IF n = 0 THEN <<>> ELSE Link(g[n - 1], MergedScenarios[n])
    BY <1>6
  <2>2. g = [n \in 0..N |-> g[n]]
    BY <1>6
  <2>3. ASSUME NEW n \in 1..N PROVE g[n] = Link(g[n - 1], MergedScenarios[n])
    <3>1. n \in 0..N /\ n # 0
      BY <1>1
    <3> QED
      BY <2>1, <3>1
  <2>4. out = [n \in 0..N |-> out[n]] /\ g[0] = out[0]
    BY <1>1, <1>3, <2>1
  <2>5. SameLoop(N, g, out)
    BY ONLY <1>1, <1>4, <2>2, <2>3, <2>4 DEF SameLoop
  <2> QED
    BY <2>5, LoopUnique
<1>8. ScenarioLinks = out[N]
  BY <1>0, <1>6, <1>7 DEF ScenarioLinks
<1> QED
  BY <1>0, <1>3, <1>4, <1>8

\* The i-th scenario is the first with its name, but for case.
IsFirst(i) == \A j \in 1..(i - 1) : MergedScenarios[j].name.key # MergedScenarios[i].name.key

FirstUpTo(n) == {i \in 1..n : IsFirst(i)}

\* Whatever was seen was seen a first time.
LEMMA SeenFirst ==
  ASSUME NEW n \in Nat, NEW i \in 1..n
  PROVE  \E j \in FirstUpTo(n) : MergedScenarios[j].name.key = MergedScenarios[i].name.key
<1> DEFINE same == {j \in 1..n : MergedScenarios[j].name.key = MergedScenarios[i].name.key}
<1>1. same \subseteq Nat /\ same # {}
  OBVIOUS
<1>2. PICK j : j \in same /\ \A l \in same : j <= l
  <2> HIDE DEF same
  <2> QED
    BY <1>1, MinOfNumbers
<1>3. \A l \in 1..(j - 1) : l \in 1..n /\ ~(j <= l)
  BY <1>2
<1>4. IsFirst(j)
  BY <1>2, <1>3 DEF IsFirst
<1> QED
  BY <1>2, <1>4 DEF FirstUpTo

\* The links are the first of the scenarios whose names differ in case only.
LEMMA LinksInOrder ==
  ASSUME MergeTyped
  PROVE  IsListOf(ScenarioLinks, FirstUpTo(Len(MergedScenarios)), MergedScenarios)
<1>0. PICK N : N = Len(MergedScenarios)
  OBVIOUS
<1>1. PICK out \in [0..N -> Seq(PlacedScenario)] :
        /\ out[0] = <<>> /\ ScenarioLinks = out[N]
        /\ \A n \in 1..N : out[n] = Link(out[n - 1], MergedScenarios[n])
  BY <1>0, LinkRounds
<1>2. N \in Nat /\ \A n \in 1..N : MergedScenarios[n] \in PlacedScenario
  BY <1>0, MergedTyped
<1> DEFINE T == {n \in 0..N : Lists(out[n], FirstUpTo(n), MergedScenarios)}
<1>3. 0 \in T
  <2>1. FirstUpTo(0) = {} /\ 0 \in 0..N
    BY <1>2 DEF FirstUpTo
  <2>2. Lists(<<>>, {}, MergedScenarios)
    BY EmptyList
  <2> QED
    BY <1>1, <2>1, <2>2
<1>4. ASSUME NEW n \in 0..(N - 1), n \in T PROVE n + 1 \in T
  <2>1. n \in Nat /\ n \in 0..N /\ n + 1 \in 0..N /\ n + 1 \in 1..N /\ (n + 1) - 1 = n
    BY <1>2
  <2>2. PICK list, x : list = out[n] /\ x = MergedScenarios[n + 1]
    OBVIOUS
  <2>3. /\ list \in Seq(PlacedScenario) /\ x \in PlacedScenario
        /\ out[n + 1] = Link(list, x) /\ Lists(list, FirstUpTo(n), MergedScenarios)
    BY <1>1, <1>2, <1>4, <2>1, <2>2
  <2>4. FirstUpTo(n) \subseteq 1..n
    BY DEF FirstUpTo
  <2>5. (\E p \in DOMAIN list : list[p].name.key = x.name.key)
          <=> \E i \in FirstUpTo(n) : MergedScenarios[i].name.key = x.name.key
    <3>1. \A i \in FirstUpTo(n) : /\ PlaceIn(FirstUpTo(n), i) \in 1..Len(list)
                                  /\ list[PlaceIn(FirstUpTo(n), i)] = MergedScenarios[i]
      BY <2>1, <2>3, <2>4, PlacesOf DEF Lists, IsListOf
    <3>2. \A p \in 1..Len(list) : \E i \in FirstUpTo(n) : PlaceIn(FirstUpTo(n), i) = p
      BY <2>3 DEF Lists
    <3>3. DOMAIN list = 1..Len(list)
      BY <2>3
    <3> QED
      BY <3>1, <3>2, <3>3
  <2>6. (\E i \in FirstUpTo(n) : MergedScenarios[i].name.key = x.name.key) <=> ~IsFirst(n + 1)
    <3>1. \A i \in 1..n : \E j \in FirstUpTo(n) :
            MergedScenarios[j].name.key = MergedScenarios[i].name.key
      BY <2>1, SeenFirst
    <3>2. IsFirst(n + 1) <=> \A j \in 1..n : MergedScenarios[j].name.key # x.name.key
      BY <2>1, <2>2 DEF IsFirst
    <3> QED
      BY <2>4, <3>1, <3>2
  <2>7. CASE IsFirst(n + 1)
    <3>1. Link(list, x) = Append(list, x)
      BY <2>5, <2>6, <2>7 DEF Link
    <3>2. FirstUpTo(n + 1) = WithNext(FirstUpTo(n), n)
      <4>1. 1..(n + 1) = (1..n) \cup {n + 1}
        BY <2>1
      <4> QED
        BY <2>7, <4>1 DEF FirstUpTo, WithNext
    <3>3. Lists(Append(list, x), WithNext(FirstUpTo(n), n), MergedScenarios)
      BY <2>1, <2>2, <2>3, <2>4, ListGoesOn
    <3> QED
      BY <2>1, <2>3, <3>1, <3>2, <3>3
  <2>8. CASE ~IsFirst(n + 1)
    <3>1. Link(list, x) = list
      BY <2>5, <2>6, <2>8 DEF Link
    <3>2. FirstUpTo(n + 1) = FirstUpTo(n)
      <4>1. 1..(n + 1) = (1..n) \cup {n + 1}
        BY <2>1
      <4> QED
        BY <2>8, <4>1 DEF FirstUpTo
    <3> QED
      BY <2>1, <2>3, <3>1, <3>2
  <2> QED
    BY <2>7, <2>8
<1>5. N \in T
  <2> HIDE DEF T
  <2>1. 0..N \subseteq T
    BY <1>2, <1>3, <1>4, LoopInduction
  <2> QED
    BY <1>2, <2>1
<1> QED
  BY <1>0, <1>1, <1>5 DEF Lists

\* Nothing of either list is doubled or changes places: ranks are the members of
\* rankColors that have both a name and a color, links the first of the scenarios
\* whose names differ in case only.
THEOREM OrderAlwaysKept == MergeSpec => []OrderIsKept
<1>1. MergeTyped => OrderIsKept
  <2> SUFFICES ASSUME MergeTyped PROVE OrderIsKept
    OBVIOUS
  <2> DEFINE key(i) == MergedScenarios[i].name.key
             first == {i \in DOMAIN MergedScenarios : \A j \in 1..i - 1 : key(j) # key(i)}
  <2>1. first = FirstUpTo(Len(MergedScenarios))
    <3>1. DOMAIN MergedScenarios = 1..Len(MergedScenarios)
      BY MergedTyped
    <3> QED
      BY <3>1 DEF FirstUpTo, IsFirst
  <2>2. IsListOf(ScenarioLinks, first, MergedScenarios)
    BY <2>1, LinksInOrder
  <2> QED
    BY <2>2, RanksInOrder DEF OrderIsKept
<1> QED
  BY <1>1, MergeTyping, PTL

-----------------------------------------------------------------------------
(* The distribution of a metric *)

SampleTyped == sample \in [Values -> Nat]

\* The sample counts how often each value has come.
LEMMA SampleTyping == DistributionSpec => []SampleTyped
<1>1. DistributionInit => SampleTyped
  BY DEF DistributionInit, SampleTyped
<1>2. SampleTyped /\ [UploadRuns]_distributionVars => SampleTyped'
  BY DistributionAssumption DEF SampleTyped, UploadRuns, distributionVars
<1> QED
  BY <1>1, <1>2, PTL DEF DistributionSpec

\* Counts are numbers, and add up.
LEMMA CountIs ==
  ASSUME SampleTyped, NEW S, S \subseteq Values
  PROVE  /\ IsFiniteSet(S) /\ Count(S) \in Nat /\ S \subseteq Int
         /\ S = {} => Count(S) = 0
         /\ \A v \in S : sample[v] \in Nat /\ Count(S) = sample[v] + Count(S \ {v})
<1>1. IsFiniteSet(S) /\ S \subseteq Int
  BY DistributionAssumption, FS_Subset
<1>2. \A v \in S : sample[v] \in Nat
  BY DEF SampleTyped
<1> QED
  BY <1>1, <1>2, SumOf DEF Count

\* There are no fewer among more values.
LEMMA CountOfMore ==
  ASSUME SampleTyped, NEW S, NEW T, S \subseteq T, T \subseteq Values
  PROVE  Count(S) <= Count(T)
<1>1. IsFiniteSet(T) /\ \A v \in T : sample[v] \in Nat
  BY CountIs
<1> QED
  BY <1>1, SumOfMore DEF Count

\* Two counts apart are one.
LEMMA CountApart ==
  ASSUME SampleTyped, NEW S, NEW T, S \subseteq Values, T \subseteq Values, S \cap T = {}
  PROVE  Count(S \cup T) = Count(S) + Count(T)
<1>1. IsFiniteSet(S) /\ IsFiniteSet(T) /\ \A v \in S \cup T : sample[v] \in Nat
  BY CountIs
<1> QED
  BY <1>1, SumUnion DEF Count

\* The size is the count of all values; bounds select some of them.
LEMMA SizeIs ==
  ASSUME SampleTyped
  PROVE  /\ DOMAIN sample = Values /\ Size = Count(Values) /\ Size \in Nat
         /\ \A bound : Below(bound) \subseteq Values /\ UpTo(bound) \subseteq Values
<1>1. DOMAIN sample = Values
  BY DEF SampleTyped
<1>2. Size = Count(Values)
  BY <1>1 DEF Size, Count, SumFunction
<1>3. Count(Values) \in Nat
  BY CountIs
<1> QED
  BY <1>1, <1>2, <1>3 DEF Below, UpTo

\* A value has its place after those below it.
LEMMA UpToValue ==
  ASSUME SampleTyped, NEW v \in Values
  PROVE  /\ Count(UpTo(100 * v)) = Count(Below(100 * v)) + sample[v]
         /\ Count(Below(100 * v)) \in Nat /\ sample[v] \in Nat
<1>1. UpTo(100 * v) \ {v} = Below(100 * v) /\ v \in UpTo(100 * v)
  <2>1. v \in Int /\ \A w \in Values : w \in Int
    BY DistributionAssumption
  <2>2. \A w \in Int : 100 * w <= 100 * v /\ w # v <=> 100 * w < 100 * v
    BY <2>1
  <2>3. \A w \in Values : 100 * w <= 100 * v /\ w # v <=> 100 * w < 100 * v
    BY <2>1, <2>2
  <2>4. 100 * v <= 100 * v
    BY <2>1
  <2> QED
    BY <2>3, <2>4, SizeIs DEF UpTo, Below
<1>2. UpTo(100 * v) \subseteq Values /\ Below(100 * v) \subseteq Values
  BY SizeIs
<1>3. Count(UpTo(100 * v)) = sample[v] + Count(UpTo(100 * v) \ {v}) /\ sample[v] \in Nat
  BY <1>1, <1>2, CountIs
<1>4. Count(Below(100 * v)) \in Nat
  BY <1>2, CountIs
<1>5. Count(UpTo(100 * v) \ {v}) = Count(Below(100 * v))
  BY <1>1, Zenon
<1> QED
  BY <1>3, <1>4, <1>5

\* sortedValues has a value at each index below the size.
LEMMA SortedIs ==
  ASSUME SampleTyped, NEW i \in Nat, i < Size
  PROVE  /\ Sorted(i) \in Values
         /\ Count(Below(100 * Sorted(i))) <= i
         /\ i < Count(UpTo(100 * Sorted(i)))
<1> DEFINE reach == {v \in Values : i < Count(UpTo(100 * v))}
<1>0. Values \subseteq Int /\ IsFiniteSet(Values)
  BY DistributionAssumption
<1>1. reach # {}
  <2>1. Values # {}
    <3>1. Values = {} => Count(Values) = 0
      BY CountIs
    <3> QED
      BY <3>1, SizeIs
  <2>2. PICK m \in Values : \A v \in Values : v <= m
    BY <1>0, <2>1, MaxOfFinite
  <2>3. UpTo(100 * m) = Values
    <3>1. \A v \in Values : 100 * v <= 100 * m
      BY <1>0, <2>2
    <3> QED
      BY <3>1, SizeIs DEF UpTo
  <2> QED
    BY <2>3, SizeIs
<1>2. PICK v \in reach : \A w \in reach : v <= w
  <2>1. reach \subseteq Values
    OBVIOUS
  <2> HIDE DEF reach
  <2>2. IsFiniteSet(reach) /\ reach \subseteq Int
    BY <1>0, <2>1, FS_Subset
  <2> QED
    BY <1>1, <2>2, LeastOfFinite
<1>3. Count(Below(100 * v)) <= i
  <2> DEFINE below == Below(100 * v)
  <2>1. below \subseteq Values /\ \A w \in Values : w \in below <=> w < v
    BY <1>0, SizeIs DEF Below
  <2>2. CASE below = {}
    BY <2>1, <2>2, CountIs
  <2>3. CASE below # {}
    <3>1. IsFiniteSet(below) /\ below \subseteq Int
      BY <2>1, CountIs
    <3>2. PICK u \in below : \A w \in below : w <= u
      <4> HIDE DEF below
      <4> QED
        BY <2>3, <3>1, MaxOfFinite
    <3>3. u \in Values /\ u < v /\ u \in Int
      BY <1>0, <2>1, <3>2
    <3>4. UpTo(100 * u) = below
      <4>0. \A w \in Int : 100 * w <= 100 * u <=> w <= u
        BY <3>3
      <4>1. \A w \in Values : 100 * w <= 100 * u <=> w <= u
        BY <1>0, <4>0
      <4>2. \A w \in Values : w <= u <=> w < v
        BY <1>0, <2>1, <3>2, <3>3
      <4> QED
        BY <2>1, <4>1, <4>2, SizeIs DEF UpTo
    <3>5. u \notin reach
      BY <1>0, <1>2, <3>3
    <3>6. ~(i < Count(UpTo(100 * u))) /\ Count(below) \in Nat
      BY <2>1, <3>3, <3>5, CountIs
    <3> HIDE DEF below
    <3>7. Count(below) <= i
      BY <3>4, <3>6
    <3> QED
      BY <3>7 DEF below
  <2> QED
    BY <2>2, <2>3
<1>4. v \in Values /\ i < Count(Below(100 * v)) + sample[v]
  BY UpToValue
<1>5. v \in Occurring
  <2>1. sample[v] > 0
    BY <1>3, <1>4, UpToValue
  <2> QED
    BY <1>4, <2>1, SizeIs DEF Occurring
<1> DEFINE IsIth(w) == LET below == Count(Below(100 * w)) IN below <= i /\ i < below + sample[w]
<1>6. IsIth(v)
  BY <1>3, <1>4
<1>7. Sorted(i) \in Occurring /\ IsIth(Sorted(i))
  <2>1. Sorted(i) = CHOOSE w \in Occurring : IsIth(w)
    BY DEF Sorted
  <2> HIDE DEF IsIth
  <2> QED
    BY <1>5, <1>6, <2>1
<1>8. Sorted(i) \in Values
  BY <1>7, SizeIs DEF Occurring
<1> QED
  BY <1>7, <1>8, UpToValue

\* sortedValues is sorted.
LEMMA SortedGrows ==
  ASSUME SampleTyped, NEW i \in Nat, NEW j \in Nat, i <= j, j < Size
  PROVE  Sorted(i) <= Sorted(j)
<1>1. PICK v, w : v = Sorted(i) /\ w = Sorted(j)
  OBVIOUS
<1>2. i < Size
  BY SizeIs
<1>3. /\ v \in Values /\ Count(Below(100 * v)) <= i
      /\ w \in Values /\ j < Count(UpTo(100 * w))
  BY <1>1, <1>2, SortedIs
<1>4. ASSUME w < v PROVE FALSE
  <2>1. \A u \in Values : 100 * u <= 100 * w => 100 * u < 100 * v
    BY <1>3, <1>4, DistributionAssumption
  <2>2. UpTo(100 * w) \subseteq Below(100 * v)
    BY <2>1, SizeIs DEF UpTo, Below
  <2>3. Count(UpTo(100 * w)) <= Count(Below(100 * v))
    BY <2>2, SizeIs, CountOfMore
  <2>4. Count(UpTo(100 * w)) \in Nat /\ Count(Below(100 * v)) \in Nat
    BY SizeIs, CountIs
  <2> QED
    BY <1>3, <2>3, <2>4
<1>5. v \in Int /\ w \in Int
  BY <1>3, DistributionAssumption
<1> QED
  BY <1>1, <1>4, <1>5

\* Where the positions of percentileCont are: between two indices of sortedValues,
\* those of the first percentile no later than those of the last.
LEMMA Positions ==
  ASSUME NEW n \in Nat
  PROVE  /\ \A p \in Percents : /\ (p * n) \div 100 \in Nat /\ (p * n + 99) \div 100 \in 0..n
                                /\ (p * n) \div 100 <= (p * n + 99) \div 100
                                /\ (p * n) % 100 \in 0..99
         /\ n >= 2 => (1 * n + 99) \div 100 <= (99 * n) \div 100
BY DEF Percents

\* A quantile lies between its neighbours.
LEMMA PercentileIs ==
  ASSUME SampleTyped, Size > 0, NEW p \in Percents
  PROVE  LET n == Size - 1
             lower == Sorted((p * n) \div 100)
             upper == Sorted((p * n + 99) \div 100)
         IN /\ (p * n) \div 100 \in Nat /\ (p * n) \div 100 < Size
            /\ (p * n + 99) \div 100 \in Nat /\ (p * n + 99) \div 100 < Size
            /\ Percentile(p) \in Int
            /\ 100 * lower <= Percentile(p) /\ Percentile(p) <= 100 * upper
<1>1. PICK n \in Nat : n = Size - 1
  BY SizeIs
<1>2. PICK i, j, r : i = (p * n) \div 100 /\ j = (p * n + 99) \div 100 /\ r = (p * n) % 100
  OBVIOUS
<1>3. i \in Nat /\ j \in Nat /\ i <= j /\ i < Size /\ j < Size /\ r \in 0..99
  BY <1>1, <1>2, Positions, SizeIs
<1>4. PICK a, b : a = Sorted(i) /\ b = Sorted(j)
  OBVIOUS
<1>5. a \in Int /\ b \in Int /\ a <= b
  BY <1>3, <1>4, SortedIs, SortedGrows, DistributionAssumption
<1>6. PICK d \in Nat : d = b - a
  BY <1>5
<1>7. d * r \in Nat /\ d * r <= 100 * d
  BY <1>3, Products
<1>8. Percentile(p) = 100 * a + (b - a) * r
  BY <1>1, <1>2, <1>4 DEF Percentile
<1>9. PICK x \in Nat : x = d * r
  BY <1>7
<1>10. Percentile(p) = 100 * a + x /\ x <= 100 * d
  BY <1>6, <1>7, <1>8, <1>9
<1>11. /\ Percentile(p) \in Int /\ 100 * a <= Percentile(p) /\ Percentile(p) <= 100 * b
  BY <1>5, <1>6, <1>10
<1> QED
  BY <1>1, <1>2, <1>3, <1>4, <1>11

\* The first percentile is no greater than the last.
LEMMA BoundsInOrder ==
  ASSUME SampleTyped, Size > 0
  PROVE  LowerBound \in Int /\ UpperBound \in Int /\ LowerBound <= UpperBound
<1>1. PICK n \in Nat : n = Size - 1
  BY SizeIs
<1>2. 1 \in Percents /\ 99 \in Percents
  BY DEF Percents
<1>3. LowerBound \in Int /\ UpperBound \in Int
  BY <1>2, PercentileIs DEF LowerBound, UpperBound
<1>4. CASE n >= 2
  <2>1. PICK i, j : i = (1 * n + 99) \div 100 /\ j = (99 * n) \div 100
    OBVIOUS
  <2>2. /\ i \in Nat /\ j \in Nat /\ j < Size /\ i < Size
        /\ LowerBound <= 100 * Sorted(i) /\ 100 * Sorted(j) <= UpperBound
    BY <1>1, <1>2, <2>1, PercentileIs DEF LowerBound, UpperBound
  <2>3. i <= j
    BY <1>4, <2>1, Positions
  <2>4. Sorted(i) <= Sorted(j) /\ Sorted(i) \in Int /\ Sorted(j) \in Int
    BY <2>2, <2>3, SortedIs, SortedGrows, DistributionAssumption
  <2> QED
    BY <1>3, <2>2, <2>4
<1>5. CASE n = 0
  BY <1>1, <1>3, <1>5 DEF LowerBound, UpperBound, Percentile
<1>6. CASE n = 1
  <2>1. PICK a, b : a = Sorted(0) /\ b = Sorted(1)
    OBVIOUS
  <2>2. a \in Int /\ b \in Int /\ a <= b
    <3>1. 0 < Size /\ 1 < Size /\ 0 <= 1
      BY <1>1, <1>6, SizeIs
    <3>2. Sorted(0) \in Values /\ Sorted(1) \in Values /\ Sorted(0) <= Sorted(1)
      BY <3>1, SortedIs, SortedGrows
    <3> QED
      BY <2>1, <3>2, DistributionAssumption
  <2>3. LowerBound = 100 * a + (b - a) * 1 /\ UpperBound = 100 * a + (b - a) * 99
    BY <1>1, <1>6, <2>1 DEF LowerBound, UpperBound, Percentile
  <2> QED
    BY <2>2, <2>3
<1> QED
  BY <1>3, <1>4, <1>5, <1>6

\* A quantile splits the sample where it should: no more values lie below it than
\* its position, rounded up, and at least its position, rounded down, plus one lie
\* at or below it.
THEOREM QuantilesAlwaysSplit == DistributionSpec => []QuantilesSplit
<1>1. ASSUME SampleTyped, Size > 0, NEW p \in Percents
      PROVE  LET position == p * (Size - 1) IN
             /\ Count(Below(Percentile(p))) <= (position + 99) \div 100
             /\ Count(UpTo(Percentile(p))) >= (position \div 100) + 1
  <2>1. PICK i, j, v, w, bound :
           /\ i = (p * (Size - 1)) \div 100 /\ j = (p * (Size - 1) + 99) \div 100
           /\ v = Sorted(i) /\ w = Sorted(j) /\ bound = Percentile(p)
    OBVIOUS
  <2>2. /\ i \in Nat /\ i < Size /\ j \in Nat /\ j < Size /\ bound \in Int
        /\ 100 * v <= bound /\ bound <= 100 * w
    BY <1>1, <2>1, PercentileIs
  <2>3. /\ v \in Values /\ i < Count(UpTo(100 * v))
        /\ w \in Values /\ Count(Below(100 * w)) <= j
    BY <1>1, <2>1, <2>2, SortedIs
  <2>4. \A u \in Int : (100 * u < bound => 100 * u < 100 * w) /\ (100 * u <= 100 * v => 100 * u <= bound)
    BY <2>2, <2>3, DistributionAssumption
  <2>5. \A u \in Values : u \in Int
    BY DistributionAssumption
  <2>6. Below(bound) \subseteq Below(100 * w) /\ UpTo(100 * v) \subseteq UpTo(bound)
    BY <1>1, <2>4, <2>5, SizeIs DEF Below, UpTo
  <2>7. /\ Count(Below(bound)) <= Count(Below(100 * w)) /\ Count(UpTo(100 * v)) <= Count(UpTo(bound))
        /\ Count(Below(bound)) \in Nat /\ Count(Below(100 * w)) \in Nat
        /\ Count(UpTo(100 * v)) \in Nat /\ Count(UpTo(bound)) \in Nat
    BY <1>1, <2>6, SizeIs, CountOfMore, CountIs
  <2>8. Count(Below(bound)) <= j /\ Count(UpTo(bound)) >= i + 1
    BY <2>2, <2>3, <2>7
  <2> QED
    BY <2>1, <2>8
<1>2. SampleTyped => QuantilesSplit
  BY <1>1 DEF QuantilesSplit
<1> QED
  BY <1>2, SampleTyping, PTL

Inside == UpTo(UpperBound) \ Below(LowerBound)

\* Every value within the bounds has a bin.
LEMMA BinIs ==
  ASSUME SampleTyped, Size > 0, LowerBound # UpperBound, NEW v \in Inside
  PROVE  v \in Values /\ Bin(100 * v) \in 0..(HistogramBinCount - 1)
<1>1. LowerBound \in Int /\ UpperBound \in Int /\ LowerBound < UpperBound
  BY BoundsInOrder
<1>2. v \in Values /\ v \in Int /\ 100 * v <= UpperBound /\ ~(100 * v < LowerBound)
  BY SizeIs, DistributionAssumption DEF Inside, UpTo, Below
<1>3. HistogramBinCount \in Nat /\ HistogramBinCount # 0
  BY DistributionAssumption
<1>4. CASE 100 * v < UpperBound
  <2>1. PICK a \in Nat, b \in Nat : a = 100 * v - LowerBound /\ b = UpperBound - LowerBound /\ a < b
    <3>1. PICK x \in Int, y \in Int, z \in Int : x = 100 * v /\ y = LowerBound /\ z = UpperBound
      BY <1>1, <1>2
    <3>2. x - y \in Nat /\ z - y \in Nat /\ x - y < z - y
      BY <1>1, <1>2, <1>4, <3>1
    <3> QED
      BY <3>1, <3>2
  <2>2. (a * HistogramBinCount) \div b \in 0..(HistogramBinCount - 1)
    BY <1>3, <2>1, QuotientBelow
  <2> QED
    BY <1>2, <1>4, <2>1, <2>2 DEF Bin
<1>5. CASE ~(100 * v < UpperBound)
  BY <1>2, <1>3, <1>5 DEF Bin
<1> QED
  BY <1>2, <1>4, <1>5

\* No value is lost or counted twice: the bins and the two outlier counts add up
\* to the sample, also when values lie on the bounds.
THEOREM EveryValueAlwaysCounted == DistributionSpec => []EveryValueCounted
<1>1. ASSUME SampleTyped, Size > 0
      PROVE  SumFunction(Bins) + LowerCount + UpperCount = Size
  <2>1. Size \in Nat /\ Size = Count(Values)
    BY <1>1, SizeIs
  <2>2. CASE LowerBound = UpperBound
    <3>1. PICK n \in Nat : n = Size
      BY <2>1
    <3>2. Bins = [i \in {0} |-> n] /\ LowerCount = 0 /\ UpperCount = 0
      BY <2>2, <3>1 DEF Bins, LowerCount, UpperCount
    <3> DEFINE one == [i \in {0} |-> n]
    <3>3. DOMAIN one = {0} /\ one[0] = n /\ {0} \ {0} = {} /\ \A i \in {0} : one[i] \in Nat
      OBVIOUS
    <3>4. IsFiniteSet({0}) /\ IsFiniteSet({})
      BY FS_Singleton, FS_EmptySet
    <3> HIDE DEF one
    <3>5. SumFunctionOnSet(one, {}) = 0
      BY <3>4, SumPicks
    <3>6. SumFunctionOnSet(one, {0}) = one[0] + SumFunctionOnSet(one, {0} \ {0})
      BY <3>3, <3>4, SumOf
    <3>7. SumFunctionOnSet(one, {0} \ {0}) = 0
      BY <3>3, <3>5, Zenon
    <3>8. SumFunction(one) = n
      BY <3>3, <3>6, <3>7 DEF SumFunction
    <3>9. SumFunction(Bins) = n
      BY <3>2, <3>8 DEF one
    <3> QED
      BY <3>1, <3>2, <3>9
  <2>3. CASE LowerBound # UpperBound
    <3> DEFINE I == 0..(HistogramBinCount - 1)
               part == [v \in Inside |-> Bin(100 * v)]
               below == Below(LowerBound)
               above == DOMAIN sample \ UpTo(UpperBound)
    <3>1. Inside \subseteq Values /\ below \subseteq Values /\ above \subseteq Values
      BY <1>1, SizeIs DEF Inside
    <3>2. /\ IsFiniteSet(Inside) /\ Count(Inside) \in Nat
          /\ \A v \in Inside : sample[v] \in Nat
          /\ Count(below) \in Nat /\ Count(above) \in Nat
      BY <1>1, <3>1, CountIs
    <3>3. \A v \in Inside : part[v] \in I
      BY <1>1, <2>3, BinIs
    <3>4. IsFiniteSet(I)
      BY DistributionAssumption, FS_Interval
    <3>5. \A i \in I : {v \in Inside : part[v] = i} = {v \in Inside : Bin(100 * v) = i}
      OBVIOUS
    <3>6. Bins = PartSums(sample, Inside, part, I)
      <4>1. Bins = [i \in I |-> SumFunctionOnSet(sample, {v \in Inside : Bin(100 * v) = i})]
        BY <2>3 DEF Bins, Count, Inside
      <4> HIDE DEF part, I
      <4>2. \A i \in I : SumFunctionOnSet(sample, {v \in Inside : Bin(100 * v) = i})
                           = SumFunctionOnSet(sample, {v \in Inside : part[v] = i})
        BY <3>5, Zenon
      <4> QED
        BY <4>1, <4>2 DEF PartSums
    <3> HIDE DEF part, I
    <3>7. SumFunctionOnSet(PartSums(sample, Inside, part, I), I) = SumFunctionOnSet(sample, Inside)
      BY <3>2, <3>3, <3>4, SumOfParts
    <3>8. DOMAIN Bins = I
      BY <3>6 DEF PartSums
    <3>9. SumFunction(Bins) = Count(Inside)
      BY <3>6, <3>7, <3>8 DEF SumFunction, Count
    <3>10. LowerCount = Count(below) /\ UpperCount = Count(above)
      BY <2>3 DEF LowerCount, UpperCount
    <3>11. LowerBound \in Int /\ UpperBound \in Int /\ LowerBound < UpperBound
      BY <1>1, <2>3, BoundsInOrder
    <3>12. /\ Values = (Inside \cup below) \cup above
           /\ Inside \cap below = {} /\ (Inside \cup below) \cap above = {}
      <4>1. \A v \in Values : v \in Int
        BY DistributionAssumption
      <4>2. \A v \in Int : 100 * v < LowerBound => 100 * v <= UpperBound
        BY <3>11
      <4>3. below \subseteq UpTo(UpperBound)
        BY <1>1, <4>1, <4>2, SizeIs DEF Below, UpTo
      <4>4. UpTo(UpperBound) \subseteq Values /\ DOMAIN sample = Values
        BY <1>1, SizeIs
      <4> HIDE DEF below
      <4> QED
        BY <4>3, <4>4 DEF Inside, below
    <3> HIDE DEF below, above
    <3>13. Count(Inside \cup below) = Count(Inside) + Count(below)
      BY <1>1, <3>1, <3>12, CountApart
    <3>14. Count((Inside \cup below) \cup above) = Count(Inside \cup below) + Count(above)
      <4>1. Inside \cup below \subseteq Values
        BY <3>1
      <4> QED
        BY <1>1, <3>1, <3>12, <4>1, CountApart
    <3>15. Count(Values) = Count((Inside \cup below) \cup above)
      BY <3>12, Zenon
    <3> QED
      BY <2>1, <3>2, <3>9, <3>10, <3>13, <3>14, <3>15
  <2> QED
    BY <2>2, <2>3
<1>2. SampleTyped => EveryValueCounted
  BY <1>1 DEF EveryValueCounted
<1> QED
  BY <1>2, SampleTyping, PTL
===============================================================================
