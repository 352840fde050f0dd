--------------------------- MODULE LeaderboardRank ---------------------------
(***************************************************************************)
(* What the two queries of the leaderboard refresh compute: the best run   *)
(* of each player in each scenario, the composite score of each player in  *)
(* each benchmark difficulty, and the ranks.                               *)
(*                                                                         *)
(* A run is [scenario, player, score, at]; player and score may be NULL.   *)
(* Runs that agree in all four give the same rows whichever is picked, so  *)
(* the last tie-break of the query, the id, is left out.                   *)
(***************************************************************************)
EXTENDS Integers, FiniteSets, FiniteSetsExt, Functions

CONSTANTS Null,      \* SQL's NULL
          MaxRank    \* Service.maxRank

ASSUME MaxRankAssumption == MaxRank \in Nat \ {0}

\* The common ORDER BY: the higher score, then the earlier run, then the id
\* of the player.
Better(q, r) == q.score > r.score \/ (q.score = r.score /\ q.at < r.at)

Counts(run) == run.player # Null /\ run.score # Null

\* Variant: the latest run counts, not the best one.
PerPlayerLatest(runs) ==
  {r \in runs : /\ Counts(r)
                /\ ~ \E q \in runs : /\ Counts(q)
                                     /\ q.player = r.player
                                     /\ q.scenario = r.scenario
                                     /\ q.at > r.at}

PerPlayerBest(runs) ==
  {r \in runs : /\ Counts(r)
                /\ ~ \E q \in runs : /\ Counts(q)
                                     /\ q.player = r.player
                                     /\ q.scenario = r.scenario
                                     /\ Better(q, r)}

\* ROW_NUMBER() in each partition, cut off at maxRank.
RowNumber(rows, r) ==
  1 + Cardinality({q \in rows : /\ q.of = r.of
                                /\ \/ Better(q, r)
                                   \/ /\ ~Better(r, q)
                                      /\ q.player < r.player})

Row(r, rank) == [of |-> r.of, player |-> r.player, rank |-> rank,
                 score |-> r.score, at |-> r.at, matched |-> r.matched]

\* Variant: one row too many.
TopAndOne(rows) ==
  {Row(r, RowNumber(rows, r)) : r \in {q \in rows : RowNumber(rows, q) <= MaxRank + 1}}

Top(rows) ==
  {Row(r, RowNumber(rows, r)) : r \in {q \in rows : RowNumber(rows, q) <= MaxRank}}

\* refreshScenarioLeaderboardSQL
ScenarioBoard(runs) ==
  Top({[of |-> r.scenario, player |-> r.player, score |-> r.score, at |-> r.at,
        matched |-> 1] : r \in PerPlayerBest(runs)})

\* SUM(score)
Total(rows) == SumFunction([row \in rows |-> row.score])

\* Variant: the composite is the best of the scores.
CompositeOfBest(d, player, bests) ==
  [of |-> d, player |-> player, score |-> Max({b.score : b \in bests}),
   at |-> Max({b.at : b \in bests}), matched |-> Cardinality(bests)]

Composite(d, player, bests) ==
  [of |-> d, player |-> player, score |-> Total(bests),
   at |-> Max({b.at : b \in bests}), matched |-> Cardinality(bests)]

\* refreshBenchmarkLeaderboardSQL
DifficultyBoard(runs, links) ==
  LET bests(d, p) == {b \in PerPlayerBest(runs) : b.scenario \in links[d] /\ b.player = p}
      players(d) == {b.player : b \in {c \in PerPlayerBest(runs) : c.scenario \in links[d]}}
  IN Top(UNION {{Composite(d, p, bests(d, p)) : p \in players(d)} : d \in DOMAIN links})
==============================================================================
