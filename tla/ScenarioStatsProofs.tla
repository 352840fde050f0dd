-------------------------- MODULE ScenarioStatsProofs --------------------------
(***************************************************************************)
(* What TLAPS proves about ScenarioStats, for any number of executions,    *)
(* scenarios, runs and faults.  An execution's snapshot is the first m     *)
(* runs and the first k scenarios; the invariant says, for some snapshot   *)
(* of each execution, how far its loop over the joined rows has come, what *)
(* it is about to write, and in which order the snapshots were taken.      *)
(***************************************************************************)
EXTENDS ScenarioStats, FiniteSetTheorems, TLAPS

Run == [scenario : Nat \ {0}, score : Scores \cup {Null, NaN}, sens : Scores \cup {Null, NaN}]
Summary == [runs : Nat, score : SUBSET Nat, sens : SUBSET Nat]
ScenarioUpdate == [scenario : Nat, summary : Summary]
Row == [scenario : Nat, run : Nat]
LoopState == [current : Nat, count : Nat, score : SUBSET Nat, sens : SUBSET Nat,
              updates : SUBSET ScenarioUpdate]

Live == {"scanning", "scanned", "updated", "sent"}
Locking == {"updated", "sent", "orphaned"}      \* has updated its scenarios' rows

\* Every variable has its type.
TypeOK ==
  /\ runs \in Seq(Run)
  /\ stats \in Seq(Summary \cup {Default})
  /\ stage \in [Execs -> {"idle", "orphaned"} \cup Live]
  /\ todo \in [Execs -> SUBSET Row]
  /\ loop \in [Execs -> LoopState]
  /\ faults \in 0..MaxFaults

-----------------------------------------------------------------------------
(* The inductive invariant *)

\* The rows of a query that sees the first m runs and k scenarios.
RowsAt(m, k) ==
  {row \in [scenario : 1..k, run : {0} \cup 1..m] :
     IF row.run = 0 THEN \A i \in 1..m : runs[i].scenario # row.scenario
                    ELSE runs[row.run].scenario = row.scenario}

\* The runs of scenario c whose rows are not among those still to read.
Read(m, c, rows) ==
  {i \in 1..m : runs[i].scenario = c /\ [scenario |-> c, run |-> i] \notin rows}

Scored(S) == {i \in S : runs[i].score # Null}
Sensed(S) == {i \in S : runs[i].sens # Null}

UpdatesAt(m, k) == {[scenario |-> s, summary |-> GroupedAt(m, s)] : s \in 1..k}

\* The variables of the loop once it has come to scenario c.
LoopAt(m, c, rows) ==
  [current |-> c,
   count |-> Cardinality(Read(m, c, rows)),
   score |-> Scored(Read(m, c, rows)),
   sens |-> Sensed(Read(m, c, rows)),
   updates |-> UpdatesAt(m, c - 1)]

Scanning(l, rows, m, k) ==
  /\ rows \subseteq RowsAt(m, k)
  /\ l.current \in 0..k
  /\ \A row \in rows : l.current <= row.scenario
  /\ \A row \in RowsAt(m, k) \ rows : row.scenario <= l.current
  /\ l = LoopAt(m, l.current, rows)

\* The statistics are those after n runs.
StatsAt(n) == \A s \in DOMAIN stats : stats[s] \in {Default, GroupedAt(n, s)}

\* What execution e does, it does from the first m runs and k scenarios.
Progress(e, n, m, k) ==
  /\ stage[e] = "idle" => loop[e] = Start /\ todo[e] = {}
  /\ stage[e] = "scanning" => Scanning(loop[e], todo[e], m, k)
  /\ stage[e] \notin {"idle", "scanning"} => loop[e].updates = UpdatesAt(m, k)
  /\ stage[e] # "idle" /\ k > 0 =>
       /\ n <= m
       /\ \A s \in DOMAIN stats : s > k => stats[s] = Default

\* An execution nobody waits for any more saw no more than a later one, and two
\* that have both updated rows have updated different ones.
Pair(e, o, m, k) ==
  /\ stage[e] = "orphaned" /\ stage[o] \in Live => m[e] <= m[o] /\ k[e] <= k[o]
  /\ e # o => ~(stage[e] \in Live /\ stage[o] \in Live)
  /\ e # o /\ stage[e] \in Locking /\ stage[o] \in Locking => k[e] = 0 \/ k[o] = 0

Snapshots(n, m, k) ==
  /\ n \in 0..Len(runs)
  /\ m \in [Execs -> 0..Len(runs)]
  /\ k \in [Execs -> 0..Len(stats)]
  /\ StatsAt(n)
  /\ \A e \in Execs : Progress(e, n, m[e], k[e])
  /\ \A e, o \in Execs : Pair(e, o, m, k)

Inv ==
  \E n \in 0..Len(runs) :
    \E m \in [Execs -> 0..Len(runs)], k \in [Execs -> 0..Len(stats)] : Snapshots(n, m, k)

-----------------------------------------------------------------------------
(* Typing *)

\* The body of the loop keeps its variables to their types.
LEMMA LoopOperatorsTyped ==
  ASSUME NEW l \in LoopState
  PROVE  /\ Flush(l) \in LoopState
         /\ \A row \in Row : Scan(l, row) \in LoopState
<1>1. Finished(l) \in ScenarioUpdate
  BY DEF Finished, LoopState, ScenarioUpdate, Summary
<1>2. Flush(l) \in LoopState
  BY <1>1 DEF Flush, LoopState
<1>3. ASSUME NEW row \in Row PROVE Scan(l, row) \in LoopState
  <2>. DEFINE here == IF l.current = row.scenario THEN l ELSE Flush(l)
              scored == {i \in {row.run} \ {0} : runs[i].score # Null}
              sensed == {i \in {row.run} \ {0} : runs[i].sens # Null}
  <2>1. here \in LoopState
    BY <1>2
  <2>2. scored \subseteq Nat /\ sensed \subseteq Nat /\ row.scenario \in Nat
    BY DEF Row
  <2>3. Scan(l, row) = [here EXCEPT !.current = row.scenario,
                                    !.count = IF row.run = 0 THEN @ ELSE @ + 1,
                                    !.score = @ \cup scored,
                                    !.sens = @ \cup sensed]
    BY DEF Scan
  <2>. HIDE DEF here, scored, sensed
  <2>4. /\ here.count \in Nat /\ here.updates \in SUBSET ScenarioUpdate
        /\ here.score \subseteq Nat /\ here.sens \subseteq Nat
    BY <2>1 DEF LoopState
  <2>5. here.score \cup scored \in SUBSET Nat /\ here.sens \cup sensed \in SUBSET Nat
    BY <2>2, <2>4
  <2>6. Scan(l, row) =
          [current |-> row.scenario,
           count |-> IF row.run = 0 THEN here.count ELSE here.count + 1,
           score |-> here.score \cup scored, sens |-> here.sens \cup sensed,
           updates |-> here.updates]
    BY <2>1, <2>3 DEF LoopState
  <2>. QED BY <2>2, <2>4, <2>5, <2>6 DEF LoopState
<1>. QED BY <1>2, <1>3

\* The rows of the query are of scenarios and runs.
LEMMA RowsTyped ==
  ASSUME runs \in Seq(Run), stats \in Seq(Summary \cup {Default})
  PROVE  Rows \subseteq Row
BY DEF Rows, Row

\* The variables of the loop have their types when it begins.
LEMMA StartTyped == Start \in LoopState
BY DEF Start, LoopState

\* An execution that ends leaves a slot to be reused.
LEMMA SettleTyped ==
  ASSUME TypeOK, NEW e \in Execs, Settle(e)
  PROVE  /\ stage' \in [Execs -> {"idle", "orphaned"} \cup Live]
         /\ todo' \in [Execs -> SUBSET Row]
         /\ loop' \in [Execs -> LoopState]
BY StartTyped DEF TypeOK, Settle

\* The UPDATEs write summaries.
LEMMA ApplyTyped ==
  ASSUME TypeOK, NEW e \in Execs, Apply(e, Updated(e))
  PROVE  /\ stats' \in Seq(Summary \cup {Default})
         /\ Len(stats') = Len(stats)
<1>. DEFINE Of(s) == CHOOSE u \in loop[e].updates : u.scenario = s
<1>1. loop[e].updates \subseteq ScenarioUpdate
  BY DEF TypeOK, LoopState
<1>2. ASSUME NEW s \in Updated(e) PROVE Of(s).summary \in Summary
  <2>1. \E u \in loop[e].updates : u.scenario = s
    BY DEF Updated
  <2>2. Of(s) \in loop[e].updates
    BY <2>1
  <2>. HIDE DEF Of
  <2>. QED BY <2>2, <1>1 DEF ScenarioUpdate
<1>. HIDE DEF Of
<1>3. stats' = [s \in 1..Len(stats) |-> IF s \in Updated(e) THEN Of(s).summary ELSE stats[s]]
  BY DEF Apply, TypeOK, Of
<1>4. \A s \in 1..Len(stats) : stats[s] \in Summary \cup {Default}
  BY DEF TypeOK
<1>. QED BY <1>2, <1>3, <1>4 DEF TypeOK

\* Every step keeps the variables to their types.
LEMMA TypeOKStep == TypeOK /\ [Next]_vars => TypeOK'
<1>. SUFFICES ASSUME TypeOK, [Next]_vars PROVE TypeOK'
  OBVIOUS
<1>1. CASE UNCHANGED vars
  BY <1>1 DEF TypeOK, vars
<1>2. ASSUME NEW e \in Execs, Query(e) PROVE TypeOK'
  BY <1>2, RowsTyped DEF TypeOK, Query, Live
<1>3. ASSUME NEW e \in Execs, ReadRow(e) PROVE TypeOK'
  <2>1. PICK row \in First(todo[e]) :
          /\ todo' = [todo EXCEPT ![e] = @ \ {row}]
          /\ loop' = [loop EXCEPT ![e] = Scan(@, row)]
    BY <1>3 DEF ReadRow
  <2>2. row \in Row /\ loop[e] \in LoopState
    BY DEF TypeOK, First
  <2>3. Scan(loop[e], row) \in LoopState
    BY <2>2, LoopOperatorsTyped
  <2>. QED BY <1>3, <2>1, <2>3 DEF TypeOK, ReadRow
<1>4. ASSUME NEW e \in Execs, EndLoop(e) PROVE TypeOK'
  <2>1. Flush(loop[e]) \in LoopState
    BY LoopOperatorsTyped DEF TypeOK
  <2>. QED BY <1>4, <2>1 DEF TypeOK, EndLoop, Live
<1>5. ASSUME NEW e \in Execs, Refuse(e) PROVE TypeOK'
  BY <1>5, SettleTyped DEF TypeOK, Refuse
<1>6. ASSUME NEW e \in Execs, Update(e) \/ SendCommit(e) PROVE TypeOK'
  BY <1>6 DEF TypeOK, Update, SendCommit, Live
<1>7. ASSUME NEW e \in Execs, ApplyCommit(e) PROVE TypeOK'
  BY <1>7, SettleTyped, ApplyTyped DEF TypeOK, ApplyCommit
<1>8. ASSUME NEW e \in Execs, Fail(e) PROVE TypeOK'
  <2>1. faults' \in 0..MaxFaults
    BY <1>8, BoundsAssumption DEF Fail, TypeOK
  <2>2. CASE Settle(e)
    BY <1>8, <2>1, <2>2, SettleTyped DEF TypeOK, Fail
  <2>3. CASE stage' = [stage EXCEPT ![e] = "orphaned"] /\ UNCHANGED <<todo, loop>>
    BY <1>8, <2>1, <2>3 DEF TypeOK, Fail
  <2>. QED BY <1>8, <2>2, <2>3 DEF Fail
<1>9. ASSUME NewScenario PROVE TypeOK'
  BY <1>9 DEF TypeOK, NewScenario
<1>10. ASSUME Upload PROVE TypeOK'
  <2>1. PICK s \in DOMAIN stats, r \in Uploads :
          runs' = Append(runs, [scenario |-> s, score |-> r.score, sens |-> r.sens])
    BY <1>10 DEF Upload
  <2>2. [scenario |-> s, score |-> r.score, sens |-> r.sens] \in Run
    BY UploadAssumption DEF Run, TypeOK
  <2>. QED BY <1>10, <2>1, <2>2 DEF TypeOK, Upload
<1>. QED
  BY <1>1, <1>2, <1>3, <1>4, <1>5, <1>6, <1>7, <1>8, <1>9, <1>10 DEF Next, Step

\* Every variable keeps its type.
THEOREM ScenarioStatsTyping == Spec => []TypeOK
<1>1. Init => TypeOK
  BY StartTyped, BoundsAssumption DEF Init, TypeOK
<1>. QED BY <1>1, TypeOKStep, PTL DEF Spec

-----------------------------------------------------------------------------
(* The loop groups the rows of its snapshot *)

\* Every scenario has a row, if only one without a run.
LEMMA EveryScenarioHasARow ==
  ASSUME NEW m \in Nat, NEW k \in Nat, NEW s \in 1..k
  PROVE  \E row \in RowsAt(m, k) : row.scenario = s
<1>1. CASE \A i \in 1..m : runs[i].scenario # s
  <2>1. [scenario |-> s, run |-> 0] \in RowsAt(m, k)
    BY <1>1 DEF RowsAt
  <2>. QED BY <2>1
<1>2. CASE \E i \in 1..m : runs[i].scenario = s
  <2>1. PICK i \in 1..m : runs[i].scenario = s
    BY <1>2
  <2>2. [scenario |-> s, run |-> i] \in RowsAt(m, k)
    BY <2>1 DEF RowsAt
  <2>. QED BY <2>2
<1>. QED BY <1>1, <1>2

\* The runs read of a scenario are finitely many.
LEMMA ReadFinite ==
  ASSUME NEW m \in Nat, NEW c, NEW rows
  PROVE  IsFiniteSet(Read(m, c, rows)) /\ Cardinality(Read(m, c, rows)) \in Nat
<1>1. IsFiniteSet(1..m)
  BY FS_Interval
<1>2. Read(m, c, rows) \subseteq 1..m
  BY DEF Read
<1>3. IsFiniteSet(Read(m, c, rows))
  BY <1>1, <1>2, FS_Subset
<1>. QED BY <1>3, FS_CardinalityType

\* No row of the scenario is left: all of its runs have been read.
LEMMA AllRead ==
  ASSUME NEW m \in Nat, NEW c, NEW rows, \A row \in rows : row.scenario # c
  PROVE  Read(m, c, rows) = {i \in 1..m : runs[i].scenario = c}
<1>1. \A i \in 1..m : [scenario |-> c, run |-> i] \notin rows
  OBVIOUS
<1>. QED BY <1>1 DEF Read

\* All rows of the scenario are left: none of its runs has been read.
LEMMA NoneRead ==
  ASSUME NEW m \in Nat, NEW k \in Nat, NEW c \in 1..k, NEW rows,
         \A row \in RowsAt(m, k) : row.scenario = c => row \in rows
  PROVE  Read(m, c, rows) = {}
<1>1. ASSUME NEW i \in 1..m, runs[i].scenario = c PROVE [scenario |-> c, run |-> i] \in rows
  <2>1. [scenario |-> c, run |-> i] \in RowsAt(m, k)
    BY <1>1 DEF RowsAt
  <2>. QED BY <2>1
<1>. QED BY <1>1 DEF Read

\* The updates grow scenario by scenario.
LEMMA UpdatesGrow ==
  ASSUME NEW m \in Nat, NEW c \in Nat \ {0}
  PROVE  UpdatesAt(m, c) =
           UpdatesAt(m, c - 1) \cup {[scenario |-> c, summary |-> GroupedAt(m, c)]}
<1>1. 1..c = 1..(c - 1) \cup {c}
  OBVIOUS
<1>. QED BY <1>1 DEF UpdatesAt

\* The buffers are empty and hold no scenario's statistics back.
Flushed(m, c) ==
  [current |-> c, count |-> 0, score |-> {}, sens |-> {}, updates |-> UpdatesAt(m, c)]

\* flush, called when the last row of a scenario has been read, adds just that
\* scenario's statistics.
LEMMA FlushAddsGroup ==
  ASSUME runs \in Seq(Run), NEW m \in Nat, m <= Len(runs), NEW k \in Nat, NEW rows, NEW l,
         Scanning(l, rows, m, k), \A row \in rows : row.scenario # l.current
  PROVE  Flush(l) = Flushed(m, l.current)
<1>. DEFINE c == l.current
<1>1. c \in Nat /\ c \in 0..k /\ m \in Nat
  BY DEF Scanning
<1>2. l = LoopAt(m, c, rows)
  BY DEF Scanning
<1>3. CASE c = 0
  <2>1. \A i \in 1..m : runs[i].scenario # 0
    <3>1. \A i \in 1..m : runs[i] \in Run
      OBVIOUS
    <3>. QED BY <3>1 DEF Run
  <2>2. Read(m, c, rows) = {}
    BY <1>3, <2>1 DEF Read
  <2>3. Cardinality(Read(m, c, rows)) = 0
    BY <2>2, FS_EmptySet
  <2>4. UpdatesAt(m, c - 1) = {} /\ UpdatesAt(m, c) = {}
    BY <1>3 DEF UpdatesAt
  <2>. QED BY <1>2, <1>3, <2>2, <2>3, <2>4 DEF LoopAt, Flush, Flushed, Scored, Sensed
<1>4. CASE c # 0
  <2>1. Read(m, c, rows) = {i \in 1..m : runs[i].scenario = c}
    BY <1>1, AllRead
  <2>2. Finished(l) = [scenario |-> c, summary |-> GroupedAt(m, c)]
    <3>. DEFINE own == {i \in 1..m : runs[i].scenario = c}
    <3>1. /\ l.count = Cardinality(own) /\ l.score = Scored(own) /\ l.sens = Sensed(own)
      BY <1>2, <2>1 DEF LoopAt
    <3>2. GroupedAt(m, c) =
            [runs |-> Cardinality(own), score |-> Scored(own), sens |-> Sensed(own)]
      BY DEF GroupedAt, Scored, Sensed
    <3>. HIDE DEF own
    <3>. QED BY <3>1, <3>2 DEF Finished
  <2>3. l.updates \cup {Finished(l)} = UpdatesAt(m, c)
    BY <1>1, <1>2, <1>4, <2>2, UpdatesGrow DEF LoopAt
  <2>4. Flush(l) = [l EXCEPT !.updates = UpdatesAt(m, c), !.count = 0, !.score = {}, !.sens = {}]
    BY <1>4, <2>3 DEF Flush
  <2>. QED BY <1>2, <2>4 DEF LoopAt, Flushed
<1>. QED BY <1>3, <1>4

\* The rows left once the row has been read.
Without(rows, row) == rows \ {row}

\* The run of a row, if it has one.
RunOf(row) == {row.run} \ {0}

\* The row read next adds its run to those of its scenario.
LEMMA OneMoreRead ==
  ASSUME runs \in Seq(Run), NEW m \in Nat, NEW k \in Nat, NEW rows, NEW row \in rows,
         rows \subseteq RowsAt(m, k), NEW d, d = row.scenario
  PROVE  /\ Cardinality(Read(m, d, Without(rows, row))) =
              IF row.run = 0 THEN Cardinality(Read(m, d, rows))
                             ELSE Cardinality(Read(m, d, rows)) + 1
         /\ Scored(Read(m, d, Without(rows, row))) = Scored(Read(m, d, rows)) \cup Scored(RunOf(row))
         /\ Sensed(Read(m, d, Without(rows, row))) = Sensed(Read(m, d, rows)) \cup Sensed(RunOf(row))
<1>. DEFINE before == Read(m, d, rows)
            after == Read(m, d, Without(rows, row))
            new == RunOf(row)
<1>1. /\ row = [scenario |-> d, run |-> row.run]
      /\ row.run \in {0} \cup 1..m
      /\ row.run # 0 => runs[row.run].scenario = d
  BY DEF RowsAt
<1>2. after = before \cup new
  <2>1. ASSUME NEW i \in 1..m, runs[i].scenario = d
        PROVE  i \in after <=> i \in before \/ i = row.run
    <3>1. [scenario |-> d, run |-> i] = row <=> i = row.run
      BY <1>1
    <3>. QED BY <2>1, <3>1 DEF Read, Without
  <2>2. after \subseteq {i \in 1..m : runs[i].scenario = d}
    BY DEF Read
  <2>3. before \subseteq {i \in 1..m : runs[i].scenario = d}
    BY DEF Read
  <2>4. new \subseteq {i \in 1..m : runs[i].scenario = d}
    BY <1>1 DEF RunOf
  <2>5. \A i \in 1..m : i \in new <=> i = row.run
    BY DEF RunOf
  <2>. HIDE DEF after, before, new
  <2>. QED BY <2>1, <2>2, <2>3, <2>4, <2>5
<1>3. row.run \notin before
  BY <1>1 DEF Read
<1>4. IsFiniteSet(before)
  BY ReadFinite
<1>5. Cardinality(after) = IF row.run = 0 THEN Cardinality(before) ELSE Cardinality(before) + 1
  <2>1. CASE row.run = 0
    <3>1. after = before
      BY <1>2, <2>1 DEF RunOf
    <3>. QED BY <2>1, <3>1
  <2>2. CASE row.run # 0
    <3>1. after = before \cup {row.run}
      BY <1>2, <2>2 DEF RunOf
    <3>. HIDE DEF after, before, new
    <3>. QED BY <1>3, <1>4, <2>2, <3>1, FS_AddElement
  <2>. QED BY <2>1, <2>2
<1>6. /\ Scored(after) = Scored(before) \cup Scored(new)
      /\ Sensed(after) = Sensed(before) \cup Sensed(new)
  <2>. HIDE DEF after, before, new
  <2>. QED BY <1>2 DEF Scored, Sensed
<1>. QED BY <1>5, <1>6

\* When the next row begins a scenario, that scenario is the next one, and the
\* loop has flushed the one that ends.
LEMMA NextScenario ==
  ASSUME runs \in Seq(Run), NEW m \in Nat, m <= Len(runs), NEW k \in Nat, NEW rows, NEW l,
         Scanning(l, rows, m, k), NEW row \in First(rows), row.scenario # l.current
  PROVE  [Flush(l) EXCEPT !.current = row.scenario] = LoopAt(m, row.scenario, rows)
<1>0. PICK c, d : c = l.current /\ d = row.scenario
  OBVIOUS
<1>1. /\ c \in 0..k /\ rows \subseteq RowsAt(m, k) /\ row \in rows /\ m \in Nat
      /\ \A q \in rows : c <= q.scenario
      /\ \A q \in RowsAt(m, k) \ rows : q.scenario <= c
  BY <1>0 DEF Scanning, First
<1>2. \A q \in RowsAt(m, k) : q.scenario \in 1..k
  BY DEF RowsAt
<1>3. d \in 1..k /\ c < d
  BY <1>0, <1>1, <1>2
<1>4. \A q \in rows : d <= q.scenario
  BY <1>0, <1>1, <1>2 DEF First
<1>5. d = c + 1
  <2>3. c + 1 \in 1..k
    BY <1>1, <1>3
  <2>1. PICK q \in RowsAt(m, k) : q.scenario = c + 1
    BY <1>1, <2>3, EveryScenarioHasARow
  <2>2. q \in rows
    BY <1>1, <2>1
  <2>. QED BY <1>1, <1>3, <1>4, <2>1, <2>2
<1>6. Flush(l) = Flushed(m, c)
  BY <1>0, <1>1, <1>2, <1>3, <1>4, FlushAddsGroup
<1>7. Read(m, d, rows) = {}
  <2>1. \A q \in RowsAt(m, k) : q.scenario = d => q \in rows
    BY <1>1, <1>3
  <2>. QED BY <1>1, <1>3, <2>1, NoneRead
<1>8. Cardinality(Read(m, d, rows)) = 0
  BY <1>7, FS_EmptySet
<1>9. LoopAt(m, d, rows) =
        [current |-> d, count |-> 0, score |-> {}, sens |-> {}, updates |-> UpdatesAt(m, c)]
  <2>1. d - 1 = c
    BY <1>1, <1>5
  <2>2. Scored({}) = {} /\ Sensed({}) = {}
    BY DEF Scored, Sensed
  <2>. QED BY <1>7, <1>8, <2>1, <2>2 DEF LoopAt
<1>10. Flushed(m, c) =
         [current |-> c, count |-> 0, score |-> {}, sens |-> {}, updates |-> UpdatesAt(m, c)]
  BY DEF Flushed
<1>11. [Flushed(m, c) EXCEPT !.current = d] = LoopAt(m, d, rows)
  BY ONLY <1>9, <1>10
<1>. QED BY <1>0, <1>6, <1>11

\* One turn of the loop.
LEMMA ScanAdvances ==
  ASSUME runs \in Seq(Run), NEW m \in Nat, m <= Len(runs), NEW k \in Nat, NEW rows, NEW l,
         Scanning(l, rows, m, k), NEW row \in First(rows)
  PROVE  Scanning(Scan(l, row), rows \ {row}, m, k)
<1>0. PICK c, d : c = l.current /\ d = row.scenario
  OBVIOUS
<1>12. \A q : q \in Without(rows, row) <=> q \in rows /\ q # row
  BY DEF Without
<1>. DEFINE here == IF c = d THEN l ELSE Flush(l)
            scored == Scored(RunOf(row))
            sensed == Sensed(RunOf(row))
<1>1. /\ c \in 0..k /\ rows \subseteq RowsAt(m, k) /\ row \in rows /\ m \in Nat
      /\ \A q \in rows : c <= q.scenario
      /\ \A q \in RowsAt(m, k) \ rows : q.scenario <= c
  BY <1>0 DEF Scanning, First
<1>2. \A q \in RowsAt(m, k) : q.scenario \in 1..k
  BY DEF RowsAt
<1>3. d \in 1..k /\ c <= d
  BY <1>0, <1>1, <1>2
<1>4. \A q \in rows : d <= q.scenario
  BY <1>0, <1>1, <1>2 DEF First
<1>5. [here EXCEPT !.current = d] = LoopAt(m, d, rows)
  <2>1. CASE c = d
    <3>1. l = LoopAt(m, d, rows)
      BY <1>0, <2>1 DEF Scanning
    <3>. QED BY <2>1, <3>1 DEF LoopAt
  <2>2. CASE c # d
    BY <1>0, <2>2, NextScenario
  <2>. QED BY <2>1, <2>2
<1>6. Scan(l, row) = [here EXCEPT !.current = d,
                                  !.count = IF row.run = 0 THEN @ ELSE @ + 1,
                                  !.score = @ \cup scored,
                                  !.sens = @ \cup sensed]
  BY <1>0 DEF Scan, Scored, Sensed, RunOf
<1>7. Scan(l, row) = LoopAt(m, d, Without(rows, row))
  <2>. HIDE DEF here
  <2>1. Scan(l, row) = [LoopAt(m, d, rows) EXCEPT
                          !.count = IF row.run = 0 THEN @ ELSE @ + 1,
                          !.score = @ \cup scored,
                          !.sens = @ \cup sensed]
    <3>. HIDE DEF scored, sensed
    <3>1. Scan(l, row) = [[here EXCEPT !.current = d] EXCEPT
                            !.count = IF row.run = 0 THEN @ ELSE @ + 1,
                            !.score = @ \cup scored,
                            !.sens = @ \cup sensed]
      BY <1>6
    <3>. QED BY <1>5, <3>1
  <2>. DEFINE after == Read(m, d, Without(rows, row))
              before == Read(m, d, rows)
  <2>2. /\ Cardinality(after) =
             IF row.run = 0 THEN Cardinality(before) ELSE Cardinality(before) + 1
        /\ Scored(after) = Scored(before) \cup scored
        /\ Sensed(after) = Sensed(before) \cup sensed
    <3>1. runs \in Seq(Run) /\ k \in Nat /\ row \in rows /\ rows \subseteq RowsAt(m, k)
      BY <1>1
    <3>. QED BY ONLY <1>0, <1>12, <3>1, m \in Nat, OneMoreRead
  <2>3. LoopAt(m, d, rows) =
          [current |-> d, count |-> Cardinality(before), score |-> Scored(before),
           sens |-> Sensed(before), updates |-> UpdatesAt(m, d - 1)]
    BY DEF LoopAt
  <2>4. LoopAt(m, d, Without(rows, row)) =
          [current |-> d, count |-> Cardinality(after), score |-> Scored(after),
           sens |-> Sensed(after), updates |-> UpdatesAt(m, d - 1)]
    BY DEF LoopAt
  <2>. HIDE DEF scored, sensed, after, before
  <2>5. Scan(l, row) =
          [[current |-> d, count |-> Cardinality(before), score |-> Scored(before),
            sens |-> Sensed(before), updates |-> UpdatesAt(m, d - 1)] EXCEPT
             !.count = IF row.run = 0 THEN @ ELSE @ + 1,
             !.score = @ \cup scored,
             !.sens = @ \cup sensed]
    BY <2>1, <2>3
  <2>. QED BY <2>2, <2>4, <2>5
<1>8. Scan(l, row).current = d
  BY <1>7 DEF LoopAt
<1>. HIDE DEF here
<1>9. /\ Without(rows, row) \subseteq RowsAt(m, k) /\ d \in 0..k
      /\ \A q \in Without(rows, row) : d <= q.scenario
  BY <1>0, <1>1, <1>3, <1>4, <1>12
<1>10. \A q \in RowsAt(m, k) \ Without(rows, row) : q.scenario <= d
  BY <1>0, <1>1, <1>2, <1>3, <1>12
<1>11. Scanning(Scan(l, row), Without(rows, row), m, k)
  BY <1>7, <1>8, <1>9, <1>10 DEF Scanning
<1>. QED BY <1>11 DEF Without

\* The loop ends with the statistics of every scenario of its snapshot.
LEMMA LoopGroups ==
  ASSUME runs \in Seq(Run), NEW m \in Nat, m <= Len(runs), NEW k \in Nat, NEW l,
         Scanning(l, {}, m, k)
  PROVE  Flush(l).updates = UpdatesAt(m, k)
<1>1. l.current = k
  <2>1. l.current \in 0..k /\ \A q \in RowsAt(m, k) : q.scenario <= l.current
    BY DEF Scanning
  <2>2. CASE k = 0
    BY <2>1, <2>2
  <2>3. CASE k # 0
    <3>1. PICK q \in RowsAt(m, k) : q.scenario = k
      BY <2>3, EveryScenarioHasARow
    <3>. QED BY <2>1, <3>1
  <2>. QED BY <2>2, <2>3
<1>2. Flush(l) = Flushed(m, k)
  BY <1>1, FlushAddsGroup
<1>. QED BY <1>2 DEF Flushed

-----------------------------------------------------------------------------
(* What the statistics say *)

\* A group-by gives summaries, none of them the default.
LEMMA GroupFinite ==
  ASSUME NEW n \in Nat, NEW s
  PROVE  GroupedAt(n, s) \in Summary /\ GroupedAt(n, s) # Default
<1>. DEFINE own == {i \in 1..n : runs[i].scenario = s}
<1>1. IsFiniteSet(1..n)
  BY FS_Interval
<1>2. IsFiniteSet(own)
  BY <1>1, FS_Subset
<1>3. Cardinality(own) \in Nat
  BY <1>2, FS_CardinalityType
<1>4. GroupedAt(n, s) \in Summary
  <2>. DEFINE scored == {i \in own : runs[i].score # Null}
              sensed == {i \in own : runs[i].sens # Null}
  <2>1. scored \in SUBSET Nat /\ sensed \in SUBSET Nat
    OBVIOUS
  <2>2. GroupedAt(n, s) = [runs |-> Cardinality(own), score |-> scored, sens |-> sensed]
    BY DEF GroupedAt
  <2>. HIDE DEF own, scored, sensed
  <2>. QED BY <1>3, <2>1, <2>2 DEF Summary
<1>. QED BY <1>4, BoundsAssumption DEF Summary

\* A later moment counts no fewer runs.
LEMMA GroupGrows ==
  ASSUME NEW n \in Nat, NEW m \in Nat, n <= m, NEW s
  PROVE  GroupedAt(n, s).runs <= GroupedAt(m, s).runs
<1>. DEFINE own(x) == {i \in 1..x : runs[i].scenario = s}
<1>1. own(n) \subseteq own(m)
  OBVIOUS
<1>2. IsFiniteSet(own(m))
  <2>1. IsFiniteSet(1..m)
    BY FS_Interval
  <2>. QED BY <2>1, FS_Subset
<1>3. Cardinality(own(n)) <= Cardinality(own(m))
  <2>. HIDE DEF own
  <2>. QED BY <1>1, <1>2, FS_Subset
<1>4. GroupedAt(n, s).runs = Cardinality(own(n)) /\ GroupedAt(m, s).runs = Cardinality(own(m))
  BY DEF GroupedAt
<1>. QED BY <1>3, <1>4

\* What execution e commits, when it has grouped the first m runs of the first k
\* scenarios.
LEMMA Applied ==
  ASSUME TypeOK, NEW e \in Execs, NEW m \in Nat, NEW k \in Nat, k <= Len(stats),
         loop[e].updates = UpdatesAt(m, k), Apply(e, Updated(e))
  PROVE  /\ Updated(e) = 1..k
         /\ Len(stats') = Len(stats) /\ DOMAIN stats' = DOMAIN stats
         /\ \A s \in DOMAIN stats :
              stats'[s] = IF s <= k THEN GroupedAt(m, s) ELSE stats[s]
<1>. DEFINE Of(s) == CHOOSE u \in loop[e].updates : u.scenario = s
<1>1. Updated(e) = 1..k
  <2>1. \A u \in UpdatesAt(m, k) : u.scenario \in 1..k
    BY DEF UpdatesAt
  <2>2. ASSUME NEW s \in 1..k PROVE \E u \in UpdatesAt(m, k) : u.scenario = s
    <3>1. [scenario |-> s, summary |-> GroupedAt(m, s)] \in UpdatesAt(m, k)
      BY DEF UpdatesAt
    <3>. QED BY <3>1
  <2>. QED BY <2>1, <2>2 DEF Updated
<1>2. ASSUME NEW s \in 1..k PROVE Of(s).summary = GroupedAt(m, s)
  <2>1. \E u \in loop[e].updates : u.scenario = s
    BY <1>1 DEF Updated
  <2>2. Of(s) \in loop[e].updates /\ Of(s).scenario = s
    BY <2>1
  <2>. HIDE DEF Of
  <2>. QED BY <2>2 DEF UpdatesAt
<1>. HIDE DEF Of
<1>3. stats' = [s \in DOMAIN stats |-> IF s \in Updated(e) THEN Of(s).summary ELSE stats[s]]
  BY DEF Apply, Of
<1>4. DOMAIN stats = 1..Len(stats)
  BY DEF TypeOK
<1>5. Len(stats') = Len(stats)
  BY ApplyTyped
<1>. QED BY <1>1, <1>2, <1>3, <1>4, <1>5

-----------------------------------------------------------------------------
(* The invariant is inductive *)

\* What was true of the first n runs stays true when more are committed.
LEMMA FirstRunsStay ==
  ASSUME runs \in Seq(Run), NEW n \in Nat, n <= Len(runs), \A i \in 1..n : runs'[i] = runs[i]
  PROVE  /\ \A s : GroupedAt(n, s)' = GroupedAt(n, s)
         /\ \A k : UpdatesAt(n, k)' = UpdatesAt(n, k)
         /\ \A l, rows, k : Scanning(l, rows, n, k) => Scanning(l, rows, n, k)'
<1>1. ASSUME NEW s PROVE GroupedAt(n, s)' = GroupedAt(n, s)
  <2>. DEFINE own == {i \in 1..n : runs[i].scenario = s}
  <2>1. own' = own
    OBVIOUS
  <2>2. /\ {i \in own : runs[i].score # Null}' = {i \in own : runs[i].score # Null}
        /\ {i \in own : runs[i].sens # Null}' = {i \in own : runs[i].sens # Null}
    OBVIOUS
  <2>. QED BY <2>1, <2>2 DEF GroupedAt
<1>2. ASSUME NEW k PROVE UpdatesAt(n, k)' = UpdatesAt(n, k)
  BY <1>1 DEF UpdatesAt
<1>3. ASSUME NEW c, NEW rows PROVE LoopAt(n, c, rows)' = LoopAt(n, c, rows)
  <2>1. Read(n, c, rows)' = Read(n, c, rows)
    BY DEF Read
  <2>2. /\ Scored(Read(n, c, rows))' = Scored(Read(n, c, rows))
        /\ Sensed(Read(n, c, rows))' = Sensed(Read(n, c, rows))
    BY DEF Read, Scored, Sensed
  <2>3. UpdatesAt(n, c - 1)' = UpdatesAt(n, c - 1)
    BY <1>2
  <2>. QED BY <2>1, <2>2, <2>3 DEF LoopAt
<1>4. ASSUME NEW k PROVE RowsAt(n, k)' = RowsAt(n, k)
  BY DEF RowsAt
<1>5. ASSUME NEW l, NEW rows, NEW k, Scanning(l, rows, n, k) PROVE Scanning(l, rows, n, k)'
  BY <1>3, <1>4, <1>5 DEF Scanning
<1>. QED BY <1>1, <1>2, <1>5

NewStay(k) == \A s \in DOMAIN stats : s > k => stats[s] = Default

\* An execution that does not take part in the step.
LEMMA ProgressStays ==
  ASSUME runs \in Seq(Run), NEW o, NEW n, NEW m \in Nat, m <= Len(runs), NEW k,
         \A i \in 1..m : runs'[i] = runs[i],
         stage'[o] = stage[o], loop'[o] = loop[o], todo'[o] = todo[o],
         Progress(o, n, m, k), NewStay(k) => NewStay(k)'
  PROVE  Progress(o, n, m, k)'
<1>1. /\ UpdatesAt(m, k)' = UpdatesAt(m, k)
      /\ \A l, rows : Scanning(l, rows, m, k) => Scanning(l, rows, m, k)'
  BY FirstRunsStay
<1>2. (stage[o] = "idle" => loop[o] = Start /\ todo[o] = {})'
  BY DEF Progress, Start
<1>3. (stage[o] = "scanning" => Scanning(loop[o], todo[o], m, k))'
  <2>1. PICK l, rows : l = loop[o] /\ rows = todo[o]
    OBVIOUS
  <2>2. stage[o] = "scanning" => Scanning(l, rows, m, k)'
    BY <1>1, <2>1 DEF Progress
  <2>. QED BY <2>1, <2>2
<1>4. (stage[o] \notin {"idle", "scanning"} => loop[o].updates = UpdatesAt(m, k))'
  BY <1>1 DEF Progress
<1>5. (stage[o] # "idle" /\ k > 0 => n <= m /\ NewStay(k))'
  BY DEF Progress, NewStay
<1>. QED BY <1>2, <1>3, <1>4, <1>5 DEF Progress, NewStay

\* Runs and scenarios are only ever added.
Grows ==
  /\ Len(runs) <= Len(runs') /\ \A i \in 1..Len(runs) : runs'[i] = runs[i]
  /\ Len(stats) <= Len(stats')
  /\ \A s \in 1..Len(stats') : stats'[s] = IF s <= Len(stats) THEN stats[s] ELSE Default

\* Uploads and new scenarios touch no snapshot.
LEMMA DataGrows ==
  ASSUME TypeOK, TypeOK', Inv, Grows, UNCHANGED <<stage, todo, loop>>
  PROVE  Inv'
<1>1. PICK n \in 0..Len(runs), m \in [Execs -> 0..Len(runs)], k \in [Execs -> 0..Len(stats)] :
        Snapshots(n, m, k)
  BY DEF Inv
<1>2. /\ runs \in Seq(Run) /\ Len(runs) \in Nat /\ Len(stats) \in Nat
      /\ Len(runs') \in Nat /\ Len(stats') \in Nat
      /\ DOMAIN stats = 1..Len(stats) /\ DOMAIN stats' = 1..Len(stats')
  BY DEF TypeOK
<1>3. /\ n \in 0..Len(runs') /\ n \in Nat
      /\ m \in [Execs -> 0..Len(runs')] /\ k \in [Execs -> 0..Len(stats')]
  BY <1>2 DEF Grows
<1>4. StatsAt(n)'
  <2>1. n <= Len(runs) /\ \A i \in 1..n : runs'[i] = runs[i]
    BY <1>2 DEF Grows
  <2>2. \A s : GroupedAt(n, s)' = GroupedAt(n, s)
    BY <1>2, <1>3, <2>1, FirstRunsStay
  <2>. QED BY <1>1, <1>2, <2>2 DEF Snapshots, StatsAt, Grows
<1>5. ASSUME NEW e \in Execs PROVE Progress(e, n, m[e], k[e])'
  <2>1. m[e] \in Nat /\ m[e] <= Len(runs) /\ k[e] \in Nat /\ Progress(e, n, m[e], k[e])
    BY <1>1, <1>2 DEF Snapshots
  <2>2. \A i \in 1..m[e] : runs'[i] = runs[i]
    BY <1>2, <2>1 DEF Grows
  <2>3. NewStay(k[e]) => NewStay(k[e])'
    BY <1>2, <2>1 DEF NewStay, Grows
  <2>. QED BY <1>2, <2>1, <2>2, <2>3, ProgressStays
<1>6. \A e, o \in Execs : Pair(e, o, m, k)'
  BY <1>1 DEF Snapshots, Pair
<1>7. Snapshots(n, m, k)'
  BY <1>3, <1>4, <1>5, <1>6 DEF Snapshots
<1>. QED BY <1>3, <1>7 DEF Inv

\* Execution e takes a step that commits nothing, the others do nothing.
LEMMA StepOfOne ==
  ASSUME TypeOK, UNCHANGED <<runs, stats>>, NEW e \in Execs,
         NEW n \in 0..Len(runs), NEW m \in [Execs -> 0..Len(runs)], NEW k \in [Execs -> 0..Len(stats)],
         NEW mm \in [Execs -> 0..Len(runs)], NEW kk \in [Execs -> 0..Len(stats)],
         Snapshots(n, m, k),
         \A o \in Execs : o # e =>
           /\ stage'[o] = stage[o] /\ todo'[o] = todo[o] /\ loop'[o] = loop[o]
           /\ mm[o] = m[o] /\ kk[o] = k[o],
         Progress(e, n, mm[e], kk[e])',
         \A o \in Execs : o # e => Pair(e, o, mm, kk)' /\ Pair(o, e, mm, kk)'
  PROVE  Inv'
<1>1. runs \in Seq(Run) /\ Len(runs) \in Nat /\ Len(stats) \in Nat
  BY DEF TypeOK
<1>2. StatsAt(n)'
  <2>1. \A s : GroupedAt(n, s)' = GroupedAt(n, s)
    BY <1>1, FirstRunsStay
  <2>. QED BY <2>1 DEF Snapshots, StatsAt
<1>3. ASSUME NEW o \in Execs, o # e PROVE Progress(o, n, mm[o], kk[o])'
  <2>1. m[o] \in Nat /\ m[o] <= Len(runs) /\ Progress(o, n, m[o], k[o])
    BY <1>1 DEF Snapshots
  <2>2. NewStay(k[o]) => NewStay(k[o])'
    BY DEF NewStay
  <2>3. Progress(o, n, m[o], k[o])'
    BY <1>1, <1>3, <2>1, <2>2, ProgressStays
  <2>. QED BY <1>3, <2>3
<1>4. ASSUME NEW o \in Execs, NEW q \in Execs, o # e, q # e PROVE Pair(o, q, mm, kk)'
  BY <1>4 DEF Snapshots, Pair
<1>5. Pair(e, e, mm, kk)'
  BY DEF Pair, Live
<1>6. Snapshots(n, mm, kk)'
  BY <1>2, <1>3, <1>4, <1>5 DEF Snapshots
<1>. QED BY <1>6 DEF Inv

\* A query takes the present runs and scenarios as its snapshot.
LEMMA QueryKeeps ==
  ASSUME TypeOK, Inv, NEW e \in Execs, Query(e)
  PROVE  Inv'
<1>1. PICK n \in 0..Len(runs), m \in [Execs -> 0..Len(runs)], k \in [Execs -> 0..Len(stats)] :
        Snapshots(n, m, k)
  BY DEF Inv
<1>2. /\ runs \in Seq(Run) /\ Len(runs) \in Nat /\ Len(stats) \in Nat
      /\ DOMAIN stats = 1..Len(stats) /\ DOMAIN runs = 1..Len(runs)
  BY DEF TypeOK
<1>3. PICK x, y, rows, mm, kk :
        /\ x = Len(runs) /\ y = Len(stats) /\ rows = Rows
        /\ mm = [m EXCEPT ![e] = x] /\ kk = [k EXCEPT ![e] = y]
  OBVIOUS
<1>4. /\ mm \in [Execs -> 0..Len(runs)] /\ kk \in [Execs -> 0..Len(stats)]
      /\ mm[e] = x /\ kk[e] = y
  BY <1>2, <1>3
<1>5. /\ stage'[e] = "scanning" /\ todo'[e] = rows /\ loop'[e] = Start
      /\ UNCHANGED <<runs, stats>>
  BY <1>1, <1>3 DEF Query, TypeOK, Snapshots, Progress
<1>6. \A o \in Execs : o # e =>
        /\ stage'[o] = stage[o] /\ todo'[o] = todo[o] /\ loop'[o] = loop[o]
        /\ mm[o] = m[o] /\ kk[o] = k[o]
  BY <1>3 DEF Query, TypeOK
<1>7. Scanning(Start, rows, x, y)
  <2>1. rows = RowsAt(x, y)
    BY <1>2, <1>3 DEF Rows, RowsAt
  <2>2. \A row \in RowsAt(x, y) : row.scenario \in 1..y
    BY DEF RowsAt
  <2>3. Start = LoopAt(x, 0, rows)
    <3>1. Read(x, 0, rows) = {}
      <4>1. \A i \in 1..x : runs[i] \in Run
        BY <1>2, <1>3
      <4>. QED BY <4>1 DEF Read, Run
    <3>2. Cardinality({}) = 0
      BY FS_EmptySet
    <3>3. UpdatesAt(x, 0 - 1) = {}
      BY DEF UpdatesAt
    <3>. QED BY <3>1, <3>2, <3>3 DEF Start, LoopAt, Scored, Sensed
  <2>4. Start.current = 0
    BY DEF Start
  <2>. QED BY <1>2, <1>3, <2>1, <2>2, <2>3, <2>4 DEF Scanning
<1>8. Scanning(Start, rows, x, y)'
  <2>1. PICK l : l = Start
    OBVIOUS
  <2>2. Scanning(l, rows, x, y)'
    BY <1>2, <1>3, <1>5, <1>7, <2>1, FirstRunsStay
  <2>3. Start' = Start
    BY DEF Start
  <2>. QED BY <2>1, <2>2, <2>3
<1>9. Progress(e, n, x, y)'
  <2>1. (x >= n /\ NewStay(y))'
    BY <1>2, <1>3, <1>5 DEF NewStay
  <2>2. (stage[e] = "scanning" => Scanning(loop[e], todo[e], x, y))'
    BY <1>5, <1>8 DEF Start
  <2>. QED BY <1>2, <1>3, <1>5, <2>1, <2>2 DEF Progress, NewStay
<1>10. \A o \in Execs : o # e => Pair(e, o, mm, kk)' /\ Pair(o, e, mm, kk)'
  BY <1>1, <1>2, <1>3, <1>4, <1>5, <1>6 DEF Pair, Query, Live, Locking
<1>. QED BY <1>1, <1>4, <1>5, <1>6, <1>9, <1>10, StepOfOne

\* A step of the loop stays within the snapshot of its execution.
LEMMA LoopKeeps ==
  ASSUME TypeOK, Inv, NEW e \in Execs, ReadRow(e) \/ EndLoop(e)
  PROVE  Inv'
<1>1. PICK n \in 0..Len(runs), m \in [Execs -> 0..Len(runs)], k \in [Execs -> 0..Len(stats)] :
        Snapshots(n, m, k)
  BY DEF Inv
<1>2. /\ runs \in Seq(Run) /\ Len(runs) \in Nat /\ Len(stats) \in Nat
      /\ m[e] \in Nat /\ m[e] <= Len(runs) /\ k[e] \in Nat
  BY DEF TypeOK
<1>3. /\ stage[e] = "scanning" /\ UNCHANGED <<runs, stats>>
      /\ Scanning(loop[e], todo[e], m[e], k[e])
      /\ k[e] > 0 => n <= m[e] /\ NewStay(k[e])
  BY <1>1 DEF ReadRow, EndLoop, Snapshots, Progress, NewStay
<1>4. \A o \in Execs : o # e =>
        stage'[o] = stage[o] /\ todo'[o] = todo[o] /\ loop'[o] = loop[o]
  BY DEF ReadRow, EndLoop, TypeOK
<1>5. NewStay(k[e])' = NewStay(k[e])
  BY <1>3 DEF NewStay
<1>6. /\ UpdatesAt(m[e], k[e])' = UpdatesAt(m[e], k[e])
      /\ \A l, rows : Scanning(l, rows, m[e], k[e]) => Scanning(l, rows, m[e], k[e])'
  BY <1>2, <1>3, FirstRunsStay
<1>7. CASE ReadRow(e)
  <2>1. PICK row \in First(todo[e]) :
          /\ todo' = [todo EXCEPT ![e] = @ \ {row}]
          /\ loop' = [loop EXCEPT ![e] = Scan(@, row)]
    BY <1>7 DEF ReadRow
  <2>2. PICK l, rows : l = Scan(loop[e], row) /\ rows = todo[e] \ {row}
    OBVIOUS
  <2>3. Scanning(l, rows, m[e], k[e])
    BY <1>2, <1>3, <2>2, ScanAdvances
  <2>4. stage'[e] = "scanning" /\ todo'[e] = rows /\ loop'[e] = l
    BY <1>3, <1>7, <2>1, <2>2 DEF ReadRow, TypeOK
  <2>5. Progress(e, n, m[e], k[e])'
    BY <1>3, <1>5, <1>6, <2>3, <2>4 DEF Progress, NewStay
  <2>6. \A o \in Execs : o # e => Pair(e, o, m, k)' /\ Pair(o, e, m, k)'
    BY <1>1, <1>3, <1>4, <2>4 DEF Snapshots, Pair
  <2>. QED BY <1>1, <1>3, <1>4, <2>5, <2>6, StepOfOne
<1>8. CASE EndLoop(e)
  <2>1. /\ stage'[e] = "scanned" /\ todo[e] = {} /\ loop'[e] = Flush(loop[e])
    BY <1>8 DEF EndLoop, TypeOK
  <2>2. Flush(loop[e]).updates = UpdatesAt(m[e], k[e])
    BY <1>2, <1>3, <2>1, LoopGroups
  <2>3. Progress(e, n, m[e], k[e])'
    BY <1>3, <1>5, <1>6, <2>1, <2>2 DEF Progress, NewStay
  <2>4. \A o \in Execs : o # e => Pair(e, o, m, k)' /\ Pair(o, e, m, k)'
    BY <1>1, <1>3, <1>4, <2>1 DEF Snapshots, Pair, Live, Locking
  <2>. QED BY <1>1, <1>3, <1>4, <2>3, <2>4, StepOfOne
<1>. QED BY <1>7, <1>8

\* An execution that has grouped its snapshot goes on, and holds the same snapshot.
LEMMA StageKeeps ==
  ASSUME TypeOK, Inv, NEW e \in Execs, UNCHANGED <<runs, stats, todo, loop>>,
         NEW st, stage' = [stage EXCEPT ![e] = st],
         \/ Update(e) /\ st = "updated"
         \/ SendCommit(e) /\ st = "sent"
         \/ stage[e] = "sent" /\ st = "orphaned"
  PROVE  Inv'
<1>1. PICK n \in 0..Len(runs), m \in [Execs -> 0..Len(runs)], k \in [Execs -> 0..Len(stats)] :
        Snapshots(n, m, k)
  BY DEF Inv
<1>2. /\ runs \in Seq(Run) /\ Len(runs) \in Nat /\ Len(stats) \in Nat
      /\ \A o \in Execs : m[o] \in Nat /\ m[o] <= Len(runs) /\ k[o] \in Nat
  <2>1. runs \in Seq(Run) /\ Len(runs) \in Nat /\ Len(stats) \in Nat
    BY DEF TypeOK
  <2>2. \A o \in Execs : m[o] \in 0..Len(runs) /\ k[o] \in 0..Len(stats)
    OBVIOUS
  <2>. QED BY <2>1, <2>2
<1>3. /\ stage[e] \in Live \ {"scanning"} /\ stage'[e] = st /\ st \in {"updated", "sent", "orphaned"}
      /\ \A o \in Execs : o # e =>
           stage'[o] = stage[o] /\ todo'[o] = todo[o] /\ loop'[o] = loop[o]
  BY DEF Update, SendCommit, TypeOK, Live
<1>4. \A o \in Execs : o # e => stage[o] \in {"idle", "orphaned"}
  BY <1>1, <1>3 DEF Snapshots, Pair, TypeOK, Live
<1>5. \A o \in Execs : Progress(o, n, m[o], k[o])
  BY <1>1 DEF Snapshots
<1>6. Progress(e, n, m[e], k[e])'
  <2>1. NewStay(k[e])' = NewStay(k[e])
    BY DEF NewStay
  <2>2. UpdatesAt(m[e], k[e])' = UpdatesAt(m[e], k[e])
    BY <1>2, FirstRunsStay
  <2>3. /\ loop[e].updates = UpdatesAt(m[e], k[e])
        /\ k[e] > 0 => n <= m[e] /\ NewStay(k[e])
    BY <1>3, <1>5 DEF Progress, NewStay, Live
  <2>. QED BY <1>3, <2>1, <2>2, <2>3 DEF Progress, NewStay
<1>7. ASSUME NEW o \in Execs, o # e PROVE Pair(e, o, m, k)' /\ Pair(o, e, m, k)'
  <2>1. /\ Pair(e, o, m, k) /\ Pair(o, e, m, k) /\ stage'[o] = stage[o]
        /\ stage[o] \in {"idle", "orphaned"}
    BY <1>1, <1>3, <1>4, <1>7 DEF Snapshots
  <2>2. CASE Update(e) /\ st = "updated"
    <3>1. ASSUME stage[o] = "orphaned" PROVE k[e] = 0 \/ k[o] = 0
      <4>1. Updated(o) \cap Updated(e) = {}
        BY <2>2, <3>1 DEF Update
      <4>2. loop[e].updates = UpdatesAt(m[e], k[e]) /\ loop[o].updates = UpdatesAt(m[o], k[o])
        BY <1>3, <1>5, <3>1 DEF Progress, Live
      <4>3. ASSUME NEW q \in Execs, loop[q].updates = UpdatesAt(m[q], k[q]), k[q] > 0
            PROVE  1 \in Updated(q)
        <5>1. [scenario |-> 1, summary |-> GroupedAt(m[q], 1)] \in UpdatesAt(m[q], k[q])
          BY <1>2, <4>3 DEF UpdatesAt
        <5>. QED BY <4>3, <5>1 DEF Updated
      <4>. QED BY <1>2, <4>1, <4>2, <4>3
    <3>. QED BY <1>3, <1>7, <2>1, <2>2, <3>1 DEF Pair, Live, Locking
  <2>3. CASE SendCommit(e) /\ st = "sent"
    BY <1>3, <1>7, <2>1, <2>3 DEF Pair, Live, Locking, SendCommit
  <2>4. CASE stage[e] = "sent" /\ st = "orphaned"
    BY <1>3, <1>7, <2>1, <2>4 DEF Pair, Live, Locking
  <2>. QED BY <2>2, <2>3, <2>4
<1>. QED BY <1>1, <1>3, <1>6, <1>7, StepOfOne

\* An execution that ends touches no statistics.
LEMMA SettleKeeps ==
  ASSUME TypeOK, Inv, NEW e \in Execs, Settle(e), UNCHANGED <<runs, stats>>
  PROVE  Inv'
<1>1. PICK n \in 0..Len(runs), m \in [Execs -> 0..Len(runs)], k \in [Execs -> 0..Len(stats)] :
        Snapshots(n, m, k)
  BY DEF Inv
<1>2. /\ stage'[e] = "idle" /\ todo'[e] = {} /\ loop'[e] = Start
      /\ \A o \in Execs : o # e =>
           stage'[o] = stage[o] /\ todo'[o] = todo[o] /\ loop'[o] = loop[o]
  BY DEF Settle, TypeOK
<1>3. Progress(e, n, m[e], k[e])'
  BY <1>2 DEF Progress, Start
<1>4. \A o \in Execs : o # e => Pair(e, o, m, k)' /\ Pair(o, e, m, k)'
  BY <1>2 DEF Pair, Live, Locking
<1>. QED BY <1>1, <1>2, <1>3, <1>4, StepOfOne

\* The statistics become those of the snapshot that is committed, if it has a
\* scenario at all.
LEMMA ApplyKeeps ==
  ASSUME TypeOK, TypeOK', Inv, NEW e \in Execs, ApplyCommit(e)
  PROVE  Inv'
<1>1. PICK n \in 0..Len(runs), m \in [Execs -> 0..Len(runs)], k \in [Execs -> 0..Len(stats)] :
        Snapshots(n, m, k)
  BY DEF Inv
<1>2. /\ runs \in Seq(Run) /\ Len(runs) \in Nat /\ Len(stats) \in Nat /\ n \in Nat
      /\ DOMAIN stats = 1..Len(stats)
      /\ \A o \in Execs : /\ m[o] \in Nat /\ m[o] <= Len(runs)
                           /\ k[o] \in Nat /\ k[o] <= Len(stats)
  BY DEF TypeOK
<1>3. /\ stage[e] \in {"sent", "orphaned"} /\ UNCHANGED runs /\ Apply(e, Updated(e))
      /\ stage'[e] = "idle" /\ todo'[e] = {} /\ loop'[e] = Start
      /\ \A o \in Execs : o # e =>
           stage'[o] = stage[o] /\ todo'[o] = todo[o] /\ loop'[o] = loop[o]
  BY DEF ApplyCommit, Settle, TypeOK
<1>4. \A o \in Execs : Progress(o, n, m[o], k[o])
  BY <1>1 DEF Snapshots
<1>5. /\ loop[e].updates = UpdatesAt(m[e], k[e])
      /\ k[e] > 0 => n <= m[e] /\ NewStay(k[e])
  BY <1>3, <1>4 DEF Progress, NewStay
<1>6. /\ Len(stats') = Len(stats) /\ DOMAIN stats' = DOMAIN stats
      /\ \A s \in DOMAIN stats :
           stats'[s] = IF s <= k[e] THEN GroupedAt(m[e], s) ELSE stats[s]
  BY <1>2, <1>3, <1>5, Applied
<1>7. PICK nn : nn = IF k[e] = 0 THEN n ELSE m[e]
  OBVIOUS
<1>8. nn \in 0..Len(runs) /\ nn \in Nat
  BY <1>2, <1>7
<1>9. StatsAt(nn)'
  <2>1. \A s : GroupedAt(nn, s)' = GroupedAt(nn, s)
    BY <1>2, <1>3, <1>8, FirstRunsStay
  <2>2. \A s \in DOMAIN stats : stats[s] \in {Default, GroupedAt(n, s)}
    BY <1>1 DEF Snapshots, StatsAt
  <2>3. ASSUME NEW s \in DOMAIN stats PROVE stats'[s] \in {Default, GroupedAt(nn, s)}
    <3>1. CASE k[e] = 0
      BY <1>2, <1>6, <1>7, <2>2, <3>1
    <3>2. CASE k[e] # 0
      BY <1>2, <1>5, <1>6, <1>7, <3>2 DEF NewStay
    <3>. QED BY <3>1, <3>2
  <2>. QED BY <1>6, <2>1, <2>3 DEF StatsAt
<1>10. ASSUME NEW o \in Execs PROVE Progress(o, nn, m[o], k[o])'
  <2>1. CASE o = e
    BY <1>3, <2>1 DEF Progress, Start
  <2>2. CASE o # e /\ stage[o] = "idle"
    BY <1>3, <1>4, <2>2 DEF Progress, Start
  <2>3. CASE o # e /\ stage[o] # "idle"
    <3>1. stage[o] \in {"orphaned"} \cup Live
      BY <2>3 DEF TypeOK
    <3>2. k[o] > 0 /\ k[e] > 0 => k[e] <= k[o] /\ m[e] <= m[o]
      <4>1. Pair(e, o, m, k)
        BY <1>1 DEF Snapshots
      <4>. QED BY <1>2, <1>3, <2>3, <3>1, <4>1 DEF Pair, Live, Locking
    <3>3. k[o] > 0 => n <= m[o] /\ NewStay(k[o])
      BY <1>4, <2>3 DEF Progress, NewStay
    <3>4. NewStay(k[o]) /\ k[o] > 0 => NewStay(k[o])'
      BY <1>2, <1>6, <3>2 DEF NewStay
    <3>5. Progress(o, nn, m[o], k[o])
      BY <1>2, <1>4, <1>7, <2>3, <3>2 DEF Progress
    <3>6. /\ UpdatesAt(m[o], k[o])' = UpdatesAt(m[o], k[o])
          /\ \A l, rows : Scanning(l, rows, m[o], k[o]) => Scanning(l, rows, m[o], k[o])'
      BY <1>2, <1>3, FirstRunsStay
    <3>7. (stage[o] = "scanning" => Scanning(loop[o], todo[o], m[o], k[o]))'
      <4>1. PICK l, rows : l = loop[o] /\ rows = todo[o]
        OBVIOUS
      <4>2. stage[o] = "scanning" => Scanning(l, rows, m[o], k[o])'
        BY <3>5, <3>6, <4>1 DEF Progress
      <4>. QED BY <1>3, <2>3, <4>1, <4>2
    <3>8. (k[o] > 0 => nn <= m[o] /\ NewStay(k[o]))'
      BY <1>2, <1>7, <3>2, <3>3, <3>4
    <3>. QED BY <1>3, <2>3, <3>5, <3>6, <3>7, <3>8 DEF Progress, NewStay
  <2>. QED BY <2>1, <2>2, <2>3
<1>11. ASSUME NEW o \in Execs, NEW q \in Execs PROVE Pair(o, q, m, k)'
  <2>1. Pair(o, q, m, k)
    BY <1>1 DEF Snapshots
  <2>2. \A x \in {o, q} : stage'[x] = stage[x] \/ stage'[x] = "idle"
    BY <1>3
  <2>. QED BY <2>1, <2>2 DEF Pair, Live, Locking
<1>12. Snapshots(nn, m, k)'
  BY <1>3, <1>6, <1>8, <1>9, <1>10, <1>11 DEF Snapshots
<1>. QED BY <1>3, <1>6, <1>8, <1>12 DEF Inv

\* Every step keeps the invariant.
LEMMA InvStep == TypeOK /\ Inv /\ [Next]_vars => Inv'
<1>. SUFFICES ASSUME TypeOK, Inv, [Next]_vars PROVE Inv'
  OBVIOUS
<1>1. TypeOK'
  BY TypeOKStep
<1>2. /\ DOMAIN stats = 1..Len(stats) /\ Len(stats) \in Nat
      /\ DOMAIN runs = 1..Len(runs) /\ Len(runs) \in Nat
  BY DEF TypeOK
<1>3. CASE UNCHANGED vars
  <2>1. Grows
    BY <1>2, <1>3 DEF Grows, vars
  <2>. QED BY <1>1, <1>3, <2>1, DataGrows DEF vars
<1>4. CASE NewScenario
  <2>1. Grows
    BY <1>2, <1>4 DEF NewScenario, Grows, TypeOK
  <2>. QED BY <1>1, <1>4, <2>1, DataGrows DEF NewScenario
<1>5. CASE Upload
  <2>1. Grows
    BY <1>2, <1>5 DEF Upload, Grows, TypeOK
  <2>. QED BY <1>1, <1>5, <2>1, DataGrows DEF Upload
<1>6. ASSUME NEW e \in Execs, Query(e) PROVE Inv'
  BY <1>6, QueryKeeps
<1>7. ASSUME NEW e \in Execs, ReadRow(e) \/ EndLoop(e) PROVE Inv'
  BY <1>7, LoopKeeps
<1>8. ASSUME NEW e \in Execs, Refuse(e) PROVE Inv'
  BY <1>8, SettleKeeps DEF Refuse
<1>9. ASSUME NEW e \in Execs, Update(e) PROVE Inv'
  BY <1>9, StageKeeps DEF Update
<1>10. ASSUME NEW e \in Execs, SendCommit(e) PROVE Inv'
  BY <1>10, StageKeeps DEF SendCommit
<1>11. ASSUME NEW e \in Execs, ApplyCommit(e) PROVE Inv'
  BY <1>1, <1>11, ApplyKeeps
<1>12. ASSUME NEW e \in Execs, Fail(e) PROVE Inv'
  <2>1. CASE Settle(e)
    BY <1>12, <2>1, SettleKeeps DEF Fail
  <2>2. CASE stage[e] = "sent" /\ stage' = [stage EXCEPT ![e] = "orphaned"] /\ UNCHANGED <<todo, loop>>
    BY <1>12, <2>2, StageKeeps DEF Fail
  <2>. QED BY <1>12, <2>1, <2>2 DEF Fail
<1>. QED
  BY <1>3, <1>4, <1>5, <1>6, <1>7, <1>8, <1>9, <1>10, <1>11, <1>12 DEF Next, Step

\* The invariant holds at first.
LEMMA InvInit == Init => TypeOK /\ Inv
<1>. SUFFICES ASSUME Init PROVE TypeOK /\ Inv
  OBVIOUS
<1>1. TypeOK
  BY StartTyped, BoundsAssumption DEF Init, TypeOK
<1>. DEFINE zero == [e \in Execs |-> 0]
<1>2. zero \in [Execs -> 0..Len(runs)] /\ zero \in [Execs -> 0..Len(stats)] /\ 0 \in 0..Len(runs)
  BY DEF Init
<1>3. Snapshots(0, zero, zero)
  <2>1. StatsAt(0)
    BY DEF Init, StatsAt
  <2>2. \A e \in Execs : Progress(e, 0, 0, 0)
    BY DEF Init, Progress
  <2>3. \A e, o \in Execs : Pair(e, o, zero, zero)
    BY DEF Init, Pair, Live, Locking
  <2>. QED BY <1>2, <2>1, <2>2, <2>3 DEF Snapshots
<1>. HIDE DEF zero
<1>4. Inv
  BY <1>2, <1>3 DEF Inv
<1>. QED BY <1>1, <1>4

\* The invariant always holds.
LEMMA Invariant == Spec => [](TypeOK /\ Inv)
<1>1. TypeOK /\ Inv /\ [Next]_vars => TypeOK' /\ Inv'
  BY TypeOKStep, InvStep
<1>. QED BY InvInit, <1>1, PTL DEF Spec

-----------------------------------------------------------------------------
(* The theorems *)

\* All scenarios' statistics are always those of one and the same moment.
THEOREM StatsAreOneSnapshot == Spec => []OneSnapshot
<1>1. Inv => OneSnapshot
  BY DEF Inv, Snapshots, StatsAt, OneSnapshot
<1>. QED BY <1>1, Invariant, PTL

\* A refresh never replaces statistics by older ones.
THEOREM StatsNeverGetOlder == Spec => NeverOlder
<1>. DEFINE Newer == \A s \in DOMAIN stats : RunCount(stats[s]) <= RunCount(stats'[s])
<1>1. TypeOK /\ Inv /\ [Next]_vars => [Newer]_stats
  <2>. SUFFICES ASSUME TypeOK, Inv, [Next]_vars, stats' # stats PROVE Newer
    OBVIOUS
  <2>1. \A s \in DOMAIN stats : RunCount(stats[s]) \in Nat
    <3>1. \A s \in DOMAIN stats : stats[s] \in Summary \cup {Default}
      BY DEF TypeOK
    <3>. QED BY <3>1 DEF RunCount, Summary
  <2>2. CASE NewScenario
    <3>1. \A s \in DOMAIN stats : stats'[s] = stats[s]
      BY <2>2 DEF NewScenario, TypeOK
    <3>. QED BY <2>1, <3>1
  <2>3. ASSUME NEW e \in Execs, ApplyCommit(e) PROVE Newer
    <3>1. PICK n \in 0..Len(runs), m \in [Execs -> 0..Len(runs)], k \in [Execs -> 0..Len(stats)] :
            Snapshots(n, m, k)
      BY DEF Inv
    <3>2. /\ n \in Nat /\ m[e] \in Nat /\ k[e] \in Nat /\ k[e] <= Len(stats)
          /\ DOMAIN stats = 1..Len(stats)
      BY DEF TypeOK
    <3>3. stage[e] \in {"sent", "orphaned"} /\ Apply(e, Updated(e))
      BY <2>3 DEF ApplyCommit
    <3>4. /\ loop[e].updates = UpdatesAt(m[e], k[e])
          /\ k[e] > 0 => n <= m[e]
      BY <3>1, <3>3 DEF Snapshots, Progress
    <3>5. \A s \in DOMAIN stats :
            stats'[s] = IF s <= k[e] THEN GroupedAt(m[e], s) ELSE stats[s]
      BY <3>2, <3>3, <3>4, Applied
    <3>6. \A s \in DOMAIN stats : stats[s] \in {Default, GroupedAt(n, s)}
      BY <3>1 DEF Snapshots, StatsAt
    <3>7. ASSUME NEW s \in DOMAIN stats PROVE RunCount(stats[s]) <= RunCount(stats'[s])
      <4>1. CASE s <= k[e]
        <5>1. /\ GroupedAt(m[e], s) \in Summary /\ GroupedAt(m[e], s) # Default
              /\ GroupedAt(n, s) # Default
          BY <3>2, GroupFinite
        <5>2. n <= m[e]
          BY <3>2, <3>4, <4>1
        <5>3. GroupedAt(n, s).runs <= GroupedAt(m[e], s).runs
          BY <3>2, <5>2, GroupGrows
        <5>4. stats'[s] = GroupedAt(m[e], s)
          BY <3>5, <4>1
        <5>5. GroupedAt(m[e], s).runs \in Nat
          BY <5>1 DEF Summary
        <5>. QED BY <3>6, <5>1, <5>3, <5>4, <5>5 DEF RunCount
      <4>2. CASE ~(s <= k[e])
        BY <2>1, <3>5, <4>2
      <4>. QED BY <4>1, <4>2
    <3>. QED BY <3>7
  <2>4. NewScenario \/ \E e \in Execs : ApplyCommit(e)
    BY DEF Next, Step, vars, Upload, Query, ReadRow, EndLoop, Refuse, Update, SendCommit, Fail
  <2>. QED BY <2>2, <2>3, <2>4
<1>. QED BY <1>1, Invariant, PTL DEF Spec, NeverOlder
=============================================================================
