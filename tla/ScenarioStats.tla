---------------------------- MODULE ScenarioStats ----------------------------
(***************************************************************************)
(* scenariostats.Service.Run: every scenario's cached statistics are       *)
(* recomputed from one snapshot of the runs and written in one             *)
(* transaction, while the API and the benchmark sync add scenarios and     *)
(* runs.                                                                   *)
(*                                                                         *)
(* Scenarios are numbered by their ids, runs by theirs.  A summary is the  *)
(* set of the runs whose values it is made from: buildMetricSummary sorts  *)
(* them first (Distribution says what becomes of them).  A value that      *)
(* json.Marshal refuses is NaN.                                            *)
(***************************************************************************)
EXTENDS Integers, Sequences, FiniteSets

CONSTANTS Execs,          \* slots for executions, reused once they are settled
          Scores,         \* the finite scores and sensitivities of runs
          Uploads,        \* bound: the scores and sensitivities of runs uploaded
          Null, NaN,      \* SQL's NULL; a value that cannot be marshalled
          Default,        \* a new scenario's statistics, unlike any computed
          MaxScenarios,   \* bound: scenarios
          MaxRuns,        \* bound: runs uploaded
          MaxFaults       \* bound: executions that are cut off

ASSUME UploadAssumption ==
  Uploads \subseteq [score : Scores \cup {Null, NaN}, sens : Scores \cup {Null, NaN}]

ASSUME BoundsAssumption ==
  /\ MaxScenarios \in Nat /\ MaxRuns \in Nat /\ MaxFaults \in Nat
  /\ Default \notin [runs : Nat, score : SUBSET Nat, sens : SUBSET Nat]

VARIABLES
  runs,       \* the committed runs, by id
  stats,      \* the cached statistics of each scenario, by id
  stage,      \* where each execution stands
  todo,       \* the rows of its query each execution has still to read
  loop,       \* the variables of its loop over them
  faults      \* the number of executions cut off

vars == <<runs, stats, stage, todo, loop, faults>>

\* No scenario yet: current is 0.
Start == [current |-> 0, count |-> 0, score |-> {}, sens |-> {}, updates |-> {}]

Init ==
  /\ runs = <<>>
  /\ stats = <<>>
  /\ stage = [e \in Execs |-> "idle"]
  /\ todo = [e \in Execs |-> {}]
  /\ loop = [e \in Execs |-> Start]
  /\ faults = 0

-----------------------------------------------------------------------------
(* Run: the query and the loop over its rows *)

\* Variant: a plain JOIN, without the scenarios nobody has played.
RowsOfPlayed ==
  {row \in [scenario : DOMAIN stats, run : DOMAIN runs] : runs[row.run].scenario = row.scenario}

\* scenarios LEFT JOIN runs; the run is 0 where it is NULL.
Rows ==
  {row \in [scenario : DOMAIN stats, run : {0} \cup DOMAIN runs] :
     IF row.run = 0 THEN \A i \in DOMAIN runs : runs[i].scenario # row.scenario
                    ELSE runs[row.run].scenario = row.scenario}

\* ORDER BY s.id, r.id
First(rows) ==
  {row \in rows : \A q \in rows : \/ row.scenario < q.scenario
                                  \/ row.scenario = q.scenario /\ row.run <= q.run}

Finished(l) == [scenario |-> l.current,
                summary |-> [runs |-> l.count, score |-> l.score, sens |-> l.sens]]

\* Variant: the sensitivities are not reset.
FlushKeepsSens(l) ==
  IF l.current = 0 THEN l
  ELSE [l EXCEPT !.updates = @ \cup {Finished(l)}, !.count = 0, !.score = {}]

\* flush: the update of the scenario that ends, and fresh buffers.
Flush(l) ==
  IF l.current = 0 THEN l
  ELSE [l EXCEPT !.updates = @ \cup {Finished(l)}, !.count = 0, !.score = {}, !.sens = {}]

Scan(l, row) ==
  LET here == IF l.current = row.scenario THEN l ELSE Flush(l)
      run == {row.run} \ {0}
  IN [here EXCEPT !.current = row.scenario,
                  !.count = IF row.run = 0 THEN @ ELSE @ + 1,
                  !.score = @ \cup {i \in run : runs[i].score # Null},
                  !.sens = @ \cup {i \in run : runs[i].sens # Null}]

\* What a flush would marshal, can be.
Marshals(l) == /\ \A i \in l.score : runs[i].score # NaN
               /\ \A i \in l.sens : runs[i].sens # NaN

-----------------------------------------------------------------------------
(* Run: the transaction *)

Settle(e) ==
  /\ stage' = [stage EXCEPT ![e] = "idle"]
  /\ todo' = [todo EXCEPT ![e] = {}]
  /\ loop' = [loop EXCEPT ![e] = Start]

\* An execution begins once no other is live (Scheduler!OneLiveRunPerJob).
Query(e) ==
  /\ stage[e] = "idle" /\ \A o \in Execs : stage[o] \in {"idle", "orphaned"}
  /\ stage' = [stage EXCEPT ![e] = "scanning"]
  /\ todo' = [todo EXCEPT ![e] = Rows]
  /\ UNCHANGED <<runs, stats, loop, faults>>

\* The next row is of another scenario, or there is none.
FlushIsDue(e) == \A row \in First(todo[e]) : row.scenario # loop[e].current

ReadRow(e) ==
  /\ stage[e] = "scanning"
  /\ FlushIsDue(e) => Marshals(loop[e])
  /\ \E row \in First(todo[e]) :
       /\ todo' = [todo EXCEPT ![e] = @ \ {row}]
       /\ loop' = [loop EXCEPT ![e] = Scan(@, row)]
  /\ UNCHANGED <<runs, stats, stage, faults>>

EndLoop(e) ==
  /\ stage[e] = "scanning" /\ todo[e] = {}
  /\ Marshals(loop[e])
  /\ stage' = [stage EXCEPT ![e] = "scanned"]
  /\ loop' = [loop EXCEPT ![e] = Flush(@)]
  /\ UNCHANGED <<runs, stats, todo, faults>>

\* One value that cannot be marshalled fails the refresh of every scenario.
Refuse(e) ==
  /\ stage[e] = "scanning"
  /\ FlushIsDue(e) /\ ~Marshals(loop[e])
  /\ Settle(e)
  /\ UNCHANGED <<runs, stats, faults>>

Updated(e) == {u.scenario : u \in loop[e].updates}

\* Variant: the UPDATEs do not wait.
UpdateAtOnce(e) ==
  /\ stage[e] = "scanned"
  /\ stage' = [stage EXCEPT ![e] = "updated"]
  /\ UNCHANGED <<runs, stats, todo, loop, faults>>

\* The UPDATEs wait for rows another transaction has updated.
Update(e) ==
  /\ stage[e] = "scanned"
  /\ \A o \in Execs : stage[o] = "orphaned" => Updated(o) \cap Updated(e) = {}
  /\ stage' = [stage EXCEPT ![e] = "updated"]
  /\ UNCHANGED <<runs, stats, todo, loop, faults>>

SendCommit(e) ==
  /\ stage[e] = "updated"
  /\ stage' = [stage EXCEPT ![e] = "sent"]
  /\ UNCHANGED <<runs, stats, todo, loop, faults>>

Apply(e, scenarios) ==
  stats' = [s \in DOMAIN stats |->
              IF s \in scenarios
              THEN (CHOOSE u \in loop[e].updates : u.scenario = s).summary
              ELSE stats[s]]

\* Postgres commits what was sent, also if nobody waits for it any more.
ApplyCommit(e) ==
  /\ stage[e] \in {"sent", "orphaned"}
  /\ Apply(e, Updated(e))
  /\ Settle(e)
  /\ UNCHANGED <<runs, faults>>

\* Cancelled, cut off or refused; a COMMIT under way is left to Postgres.
Fail(e) ==
  /\ stage[e] # "idle"
  /\ faults < MaxFaults
  /\ faults' = faults + 1
  /\ \/ Settle(e)
     \/ /\ stage[e] = "sent"
        /\ stage' = [stage EXCEPT ![e] = "orphaned"]
        /\ UNCHANGED <<todo, loop>>
  /\ UNCHANGED <<runs, stats>>

-----------------------------------------------------------------------------
(* The API and the benchmark sync *)

NewScenario ==
  /\ Len(stats) < MaxScenarios
  /\ stats' = Append(stats, Default)
  /\ UNCHANGED <<runs, stage, todo, loop, faults>>

Upload ==
  /\ Len(runs) < MaxRuns
  /\ \E s \in DOMAIN stats, r \in Uploads :
       runs' = Append(runs, [scenario |-> s, score |-> r.score, sens |-> r.sens])
  /\ UNCHANGED <<stats, stage, todo, loop, faults>>

-----------------------------------------------------------------------------
Step(e) ==
  \/ Query(e) \/ ReadRow(e) \/ EndLoop(e) \/ Refuse(e)
  \/ Update(e) \/ SendCommit(e) \/ ApplyCommit(e)

Next == (\E e \in Execs : Step(e) \/ Fail(e)) \/ NewScenario \/ Upload

Spec == Init /\ [][Next]_vars

\* The job keeps being called, goes on, and Postgres answers.
FairSpec == Spec /\ \A e \in Execs : WF_vars(Step(e))

-----------------------------------------------------------------------------
(* Properties *)

\* The statistics of scenario s after the first n runs, as a group-by.
GroupedAt(n, s) ==
  LET own == {i \in 1..n : runs[i].scenario = s}
  IN [runs |-> Cardinality(own),
      score |-> {i \in own : runs[i].score # Null},
      sens |-> {i \in own : runs[i].sens # Null}]

\* All scenarios' statistics are, at any time, those of one and the same
\* moment: the loop over the joined rows groups them right, and no scenario is
\* ahead of another, except those that are new.
OneSnapshot ==
  \E n \in 0..Len(runs) :
    \A s \in DOMAIN stats : stats[s] \in {Default, GroupedAt(n, s)}

RunCount(summary) == IF summary = Default THEN 0 ELSE summary.runs

\* A refresh never replaces statistics by older ones, not even one that was
\* cancelled while its COMMIT was under way.
NeverOlder ==
  [][\A s \in DOMAIN stats : RunCount(stats[s]) <= RunCount(stats'[s])]_stats

\* Once nothing is added any more, the statistics come to be those of all runs,
\* unless a run has a value that cannot be marshalled.
Converges ==
  <>[](\/ \E i \in DOMAIN runs : NaN \in {runs[i].score, runs[i].sens}
       \/ \A s \in DOMAIN stats : stats[s] = GroupedAt(Len(runs), s))
=============================================================================
