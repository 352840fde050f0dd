----------------------------- MODULE Leaderboard -----------------------------
(***************************************************************************)
(* leaderboard.Service.Run, one transaction that empties and rebuilds both *)
(* leaderboard tables, against the uploads of the API and against the      *)
(* transaction of the benchmark sync, which replaces every difficulty.     *)
(*                                                                         *)
(* Each statement of the refresh has its own snapshot (READ COMMITTED).    *)
(* The locks: TRUNCATE keeps the table ACCESS EXCLUSIVE until the end of   *)
(* the transaction; the sync's DELETE locks the difficulty rows, and its   *)
(* cascade then needs the leaderboard table; the refresh's INSERT has its  *)
(* foreign keys checked, which needs the difficulty rows.                  *)
(***************************************************************************)
EXTENDS LeaderboardRank

CONSTANTS Scenarios, Players, Scores, Times,
          Uploads,     \* bound: the runs the API may upload
          MaxRuns,     \* bound: runs uploaded
          MaxSyncs,    \* bound: transactions of the sync
          MaxFaults    \* bound: transactions that are cut off

Run == [scenario : Scenarios, player : Players \cup {Null}, score : Scores \cup {Null}, at : Times]

ASSUME DomainAssumption ==
  /\ Players \subseteq Nat /\ Scores \subseteq Int /\ Times \subseteq Nat
  /\ Uploads \subseteq Run
  /\ IsFiniteSet(Scenarios)
  /\ MaxRuns \in Nat /\ MaxSyncs \in Nat /\ MaxFaults \in Nat

VARIABLES
  runs,      \* the runs that are committed
  links,     \* the committed difficulties and the scenarios linked to each
  boards,    \* the committed leaderboard tables
  refresh,   \* the refresh: its stage and what it has inserted
  sync,      \* the sync: its stage and the links it is about to commit
  syncs,     \* the number of sync transactions begun
  faults     \* the number of transactions cut off

vars == <<runs, links, boards, refresh, sync, syncs, faults>>

Difficulties == 1..MaxSyncs

NoRows == [scenario |-> {}, difficulty |-> {}]

IdleRefresh == [stage |-> "idle", rows |-> NoRows]

IdleSync == [stage |-> "idle", links |-> <<>>]

IsBoard(rows, ofs) ==
  \A row \in rows : /\ row.of \in ofs
                    /\ row.player \in Players
                    /\ row.rank \in 1..MaxRank
                    /\ row.matched \in 1..Cardinality(Scenarios)
                    /\ row.score \in Int /\ row.at \in Times

TypeOK ==
  /\ runs \subseteq Uploads
  /\ DOMAIN links \subseteq Difficulties
  /\ \A d \in DOMAIN links : links[d] \subseteq Scenarios
  /\ \A rows \in {boards, refresh.rows} :
       IsBoard(rows.scenario, Scenarios) /\ IsBoard(rows.difficulty, Difficulties)
  /\ refresh.stage \in {"idle", "truncated", "ranked", "emptied", "inserted", "checked"}
  /\ sync.stage \in {"idle", "deleting", "deleted"}
  /\ syncs \in 0..MaxSyncs
  /\ faults \in 0..MaxFaults

Init ==
  /\ runs = {}
  /\ links = <<>>
  /\ boards = NoRows
  /\ refresh = IdleRefresh
  /\ sync = IdleSync
  /\ syncs = 0
  /\ faults = 0

-----------------------------------------------------------------------------
(* Locks *)

\* The refresh holds benchmark_difficulty_leaderboard_current exclusively.
\* Variant: DELETE instead of TRUNCATE, which locks no table.
HoldsNothing == FALSE
HoldsBoard == refresh.stage \in {"emptied", "inserted", "checked"}

\* The difficulties of the rows the refresh has inserted.
Inserted == {row.of : row \in refresh.rows.difficulty}

\* The sync has deleted the difficulty rows; uncommitted, they are locked.
RowsLocked == sync.stage \in {"deleting", "deleted"}

\* The check of the foreign keys waits for the sync, the sync's cascade for
\* the refresh.
Deadlocked == /\ refresh.stage = "inserted" /\ RowsLocked /\ Inserted \cap DOMAIN links # {}
              /\ sync.stage = "deleting"

-----------------------------------------------------------------------------
(* The API *)

Upload ==
  /\ \E r \in Uploads \ runs : runs' = runs \cup {r}
  /\ Cardinality(runs) < MaxRuns
  /\ UNCHANGED <<links, boards, refresh, sync, syncs, faults>>

-----------------------------------------------------------------------------
(* leaderboard.Service.Run *)

RefreshMoves(from, to, rows) ==
  /\ refresh.stage = from
  /\ refresh' = [stage |-> to, rows |-> rows]
  /\ UNCHANGED <<runs, links, boards, sync, syncs, faults>>

TruncateScenarios == RefreshMoves("idle", "truncated", NoRows)

RankScenarios ==
  RefreshMoves("truncated", "ranked", [refresh.rows EXCEPT !.scenario = ScenarioBoard(runs)])

\* TRUNCATE waits for a transaction that has deleted rows of the table.
TruncateDifficulties ==
  /\ sync.stage # "deleted"
  /\ RefreshMoves("ranked", "emptied", refresh.rows)

\* Variant: the composites are made of the rows of the other leaderboard, which
\* is cut off at maxRank.
RankDifficultiesByBoard ==
  LET best(row) == [scenario |-> row.of, player |-> row.player, score |-> row.score, at |-> row.at]
      bests == {best(row) : row \in refresh.rows.scenario}
  IN RefreshMoves("emptied", "inserted",
                  [refresh.rows EXCEPT !.difficulty = DifficultyBoard(bests, links)])

RankDifficulties ==
  RefreshMoves("emptied", "inserted",
               [refresh.rows EXCEPT !.difficulty = DifficultyBoard(runs, links)])

\* The INSERT ends once its foreign keys are checked and their rows locked.
CheckDifficulties ==
  /\ RowsLocked => Inserted \cap DOMAIN links = {}
  /\ Inserted \subseteq DOMAIN links
  /\ RefreshMoves("inserted", "checked", refresh.rows)

RefreshCommits ==
  /\ refresh.stage = "checked"
  /\ boards' = refresh.rows
  /\ refresh' = IdleRefresh
  /\ UNCHANGED <<runs, links, sync, syncs, faults>>

RefreshAborts ==
  /\ refresh.stage # "idle"
  /\ refresh' = IdleRefresh
  /\ UNCHANGED <<runs, links, boards, sync, syncs>>

-----------------------------------------------------------------------------
(* benchmarksync.Service.syncToDatabase, as far as the refresh meets it *)

\* The difficulties are deleted and inserted anew, with fresh ids.  The DELETE
\* waits for the row locks of a refresh that has checked its foreign keys.
SyncDeletes ==
  /\ sync.stage = "idle"
  /\ syncs < MaxSyncs
  /\ (refresh.stage = "checked") => Inserted \cap DOMAIN links = {}
  /\ \E linked \in SUBSET Scenarios \ {{}} :
       sync' = [stage |-> IF links = <<>> THEN "deleted" ELSE "deleting",
                links |-> [d \in {syncs + 1} |-> linked]]
  /\ syncs' = syncs + 1
  /\ UNCHANGED <<runs, links, boards, refresh, faults>>

\* ON DELETE CASCADE reaches the leaderboard table.
SyncCascades ==
  /\ sync.stage = "deleting"
  /\ ~HoldsBoard
  /\ sync' = [sync EXCEPT !.stage = "deleted"]
  /\ UNCHANGED <<runs, links, boards, refresh, syncs, faults>>

SyncCommits ==
  /\ sync.stage = "deleted"
  /\ links' = sync.links
  /\ boards' = [boards EXCEPT !.difficulty = {row \in @ : row.of \notin DOMAIN links}]
  /\ sync' = IdleSync
  /\ UNCHANGED <<runs, refresh, syncs, faults>>

SyncAborts ==
  /\ sync.stage # "idle"
  /\ sync' = IdleSync
  /\ UNCHANGED <<runs, links, boards, refresh, syncs>>

-----------------------------------------------------------------------------
(* Postgres *)

\* deadlock_timeout: whichever looks first is the victim.
BreakDeadlock ==
  /\ Deadlocked
  /\ RefreshAborts \/ SyncAborts
  /\ UNCHANGED faults

\* A job is cancelled, its connection is lost, the process dies.
Fail ==
  /\ faults < MaxFaults
  /\ RefreshAborts \/ SyncAborts
  /\ faults' = faults + 1

-----------------------------------------------------------------------------
Next ==
  \/ Upload
  \/ TruncateScenarios \/ RankScenarios \/ TruncateDifficulties
  \/ RankDifficulties \/ CheckDifficulties \/ RefreshCommits
  \/ SyncDeletes \/ SyncCascades \/ SyncCommits
  \/ BreakDeadlock \/ Fail

Spec == Init /\ [][Next]_vars

\* The refresh keeps being called and goes on; a sync that has begun goes on;
\* Postgres breaks deadlocks and serves the waiters of a lock in turn.
FairSpec ==
  /\ Spec
  /\ WF_vars(TruncateScenarios) /\ WF_vars(RankScenarios)
  /\ SF_vars(TruncateDifficulties) /\ WF_vars(RankDifficulties)
  /\ WF_vars(CheckDifficulties) /\ WF_vars(RefreshCommits)
  /\ SF_vars(SyncCascades) /\ WF_vars(SyncCommits)
  /\ WF_vars(BreakDeadlock)

-----------------------------------------------------------------------------
(* Properties *)

\* Every row of the benchmark leaderboard is about a difficulty that is there,
\* however the sync's cascade and the rebuild interleave; and the rebuild is never
\* refused by a foreign key, because it holds the table the deletion of what it
\* has read cascades to.
DifficultiesStay ==
  /\ {row.of : row \in boards.difficulty} \subseteq DOMAIN links
  /\ refresh.stage \in {"inserted", "checked"} => Inserted \subseteq DOMAIN links

\* The benchmark leaderboard is never behind the scenario leaderboard: a
\* composite score is at least the sum of the player's scores shown for the
\* linked scenarios, though the two tables come from two snapshots.
CompositeKeepsUp ==
  \A row \in boards.difficulty :
    LET shown == {s \in boards.scenario : s.player = row.player /\ s.of \in links[row.of]}
    IN /\ Total(shown) <= row.score
       /\ Cardinality(shown) <= row.matched

RankIn(board, of, p) == {row.rank : row \in {q \in board : q.of = of /\ q.player = p}}

NotBehind(before, after, p) ==
  \A row \in before : row.player = p => \E rank \in RankIn(after, row.of, p) : rank <= row.rank

\* A player never loses places, on either leaderboard, by uploading a run with
\* a score above zero: not with a worse or an older one, nor with a first run
\* in another scenario of the difficulty.
NoDemotionByOwnRun ==
  [][\A r \in runs' \ runs :
       (Counts(r) /\ r.score > 0) =>
         /\ NotBehind(ScenarioBoard(runs), ScenarioBoard(runs'), r.player)
         /\ NotBehind(DifficultyBoard(runs, links), DifficultyBoard(runs', links), r.player)]_runs

\* Once runs and benchmarks stop changing, both leaderboards come to show the
\* ranking of all runs, whatever refreshes were cut off or lost a deadlock.
Converges ==
  <>[](boards = [scenario |-> ScenarioBoard(runs), difficulty |-> DifficultyBoard(runs, links)])
=============================================================================
