-------------------------- MODULE LeaderboardProofs --------------------------
(***************************************************************************)
(* For any runs, players, scenarios and any number of refreshes and syncs: *)
(* the benchmark leaderboard never speaks of a difficulty that is gone, it *)
(* never is behind the scenario leaderboard, and no run demotes its own    *)
(* player.                                                                 *)
(***************************************************************************)
EXTENDS Leaderboard, Lemmas

-----------------------------------------------------------------------------
(* Sums of scores *)

\* The scores of a set of runs or rows.
ScoresOf(S) == [x \in S |-> x.score]

\* Their sum is one over any set of scores that has them.
LEMMA TotalIs ==
  ASSUME NEW S, NEW T, IsFiniteSet(S), T \subseteq S, \A x \in S : x.score \in Int
  PROVE  Total(T) = SumFunctionOnSet(ScoresOf(S), T)
<1>1. Total(T) = SumFunctionOnSet(ScoresOf(T), T)
  BY DEF Total, SumFunction, ScoresOf
<1>2. IsFiniteSet(T)
  BY FS_Subset
<1>3. \A x \in T : ScoresOf(T)[x] = ScoresOf(S)[x] /\ ScoresOf(T)[x] \in Int
  BY DEF ScoresOf
<1> QED
  BY <1>1, <1>2, <1>3, SumSame

\* A sum is one term and the sum of the others, whichever is taken.
LEMMA TotalRemove ==
  ASSUME NEW S, IsFiniteSet(S), \A x \in S : x.score \in Int
  PROVE  /\ S = {} => Total(S) = 0
         /\ Total(S) \in Int
         /\ \A x \in S : Total(S) = x.score + Total(S \ {x})
<1> DEFINE f == ScoresOf(S)
<1>1. \A x \in S : f[x] = x.score /\ f[x] \in Int
  BY DEF ScoresOf
<1>2. Total(S) = SumFunctionOnSet(f, S)
  BY TotalIs
<1>3. ASSUME NEW x \in S PROVE Total(S \ {x}) = SumFunctionOnSet(f, S \ {x})
  <2>1. S \ {x} \subseteq S
    OBVIOUS
  <2> HIDE DEF f
  <2> QED
    BY <2>1, TotalIs DEF f
<1> HIDE DEF f
<1>4. /\ SumFunctionOnSet(f, S) \in Int
      /\ \A x \in S : SumFunctionOnSet(f, S) = f[x] + SumFunctionOnSet(f, S \ {x})
  BY <1>1, SumRemove
<1>5. S = {} => SumFunctionOnSet(f, S) = 0
  BY SumPicks
<1> QED
  BY <1>1, <1>2, <1>3, <1>4, <1>5

\* A sum of naturals is one.
LEMMA TotalNat ==
  ASSUME NEW S, IsFiniteSet(S), \A x \in S : x.score \in Nat
  PROVE  Total(S) \in Nat
<1>1. Total(S) = SumFunctionOnSet(ScoresOf(S), S)
  BY TotalIs
<1>2. \A x \in S : ScoresOf(S)[x] \in Nat
  BY DEF ScoresOf
<1> QED
  BY <1>1, <1>2, SumNat

\* A set with at least as good a row for every row of another, each with its
\* own, has no smaller sum.
LEMMA TotalOfBetter ==
  ASSUME NEW S, NEW T, IsFiniteSet(S), IsFiniteSet(T),
         \A s \in S : s.score \in Int, \A t \in T : t.score \in Nat,
         NEW f \in [S -> T],
         \A s \in S : s.score <= f[s].score,
         \A r, s \in S : f[r] = f[s] => r = s
  PROVE  Total(S) <= Total(T)
<1> DEFINE image(U) == {f[s] : s \in U}
           good == {U \in SUBSET S : \A V \in SUBSET T : image(U) \subseteq V => Total(U) <= Total(V)}
<1>1. ASSUME NEW U \in SUBSET S, \A x \in U : U \ {x} \in good
      PROVE  U \in good
  <2> SUFFICES ASSUME NEW V \in SUBSET T, image(U) \subseteq V
               PROVE  Total(U) <= Total(V)
    OBVIOUS
  <2>1. IsFiniteSet(U) /\ IsFiniteSet(V)
    BY FS_Subset
  <2>2. CASE U = {}
    <3>1. Total(V) \in Nat
      BY <2>1, TotalNat
    <3>2. Total(U) = 0
      BY <2>1, <2>2, TotalRemove
    <3> QED
      BY <3>1, <3>2
  <2>3. ASSUME NEW x \in U
        PROVE  Total(U) <= Total(V)
    <3> DEFINE W == V \ {f[x]}
    <3>1. f[x] \in V /\ x.score \in Int /\ f[x].score \in Int /\ x.score <= f[x].score
      OBVIOUS
    <3>2. Total(U) = x.score + Total(U \ {x}) /\ Total(V) = f[x].score + Total(W)
      <4>1. \A v \in V : v.score \in Int
        OBVIOUS
      <4> QED
        BY <2>1, <3>1, <4>1, TotalRemove
    <3>3. image(U \ {x}) \subseteq W /\ W \in SUBSET T
      OBVIOUS
    <3>4. Total(U \ {x}) <= Total(W)
      BY <1>1, <3>3
    <3>5. Total(U \ {x}) \in Int /\ Total(W) \in Int
      <4>1. IsFiniteSet(U \ {x}) /\ IsFiniteSet(W)
        BY <2>1, FS_RemoveElement
      <4>2. \A v \in W : v.score \in Int
        OBVIOUS
      <4> QED
        BY <4>1, <4>2, TotalRemove
    <3> HIDE DEF W
    <3> QED
      BY <3>1, <3>2, <3>4, <3>5
  <2> QED
    BY <2>2, <2>3
<1>2. S \in good
  <2> HIDE DEF good
  <2> QED
    BY <1>1, SubsetInduction
<1>3. image(S) \subseteq T
  OBVIOUS
<1> QED
  BY <1>2, <1>3

-----------------------------------------------------------------------------
(* Rankings *)

\* The runs a leaderboard is made from: finitely many, each like an upload.
AreRuns(rs) == rs \subseteq Run /\ IsFiniteSet(rs)

\* What a run that counts is made of.
LEMMA CountedRun ==
  ASSUME NEW r \in Run, Counts(r)
  PROVE  /\ r.player \in Players /\ r.player \in Nat /\ r.score \in Scores /\ r.score \in Int
         /\ r.at \in Times /\ r.at \in Nat /\ r.scenario \in Scenarios
BY DomainAssumption DEF Run, Counts

\* Some run of a finite set of runs is not beaten by any of them.
LEMMA Unbeaten ==
  ASSUME NEW rs, IsFiniteSet(rs), rs # {}, \A r \in rs : r.score \in Int /\ r.at \in Int
  PROVE  \E b \in rs : \A r \in rs : ~Better(r, b)
<1> DEFINE led == {T \in SUBSET rs : T = {} \/ \E b \in T : \A r \in T : ~Better(r, b)}
<1>1. ASSUME NEW T \in SUBSET rs, \A x \in T : T \ {x} \in led
      PROVE  T \in led
  <2> SUFFICES ASSUME NEW x \in T
               PROVE  \E b \in T : \A r \in T : ~Better(r, b)
    OBVIOUS
  <2>1. CASE T \ {x} = {}
    <3>1. \A r \in T : r = x
      BY <2>1
    <3> QED
      BY <3>1 DEF Better
  <2>2. CASE T \ {x} # {}
    <3>1. PICK b \in T \ {x} : \A r \in T \ {x} : ~Better(r, b)
      BY <1>1, <2>2
    <3>2. \A r \in T : r.score \in Int /\ r.at \in Int
      OBVIOUS
    <3>3. CASE Better(x, b)
      <4>1. ASSUME NEW r \in T
            PROVE  ~Better(r, x)
        <5>1. CASE r = x
          BY <5>1, <3>2 DEF Better
        <5>2. CASE r # x
          <6>1. ~Better(r, b)
            BY <5>2, <3>1
          <6> QED
            BY <6>1, <3>2, <3>3 DEF Better
        <5> QED
          BY <5>1, <5>2
      <4> QED
        BY <4>1
    <3>4. CASE ~Better(x, b)
      BY <3>1, <3>4
    <3> QED
      BY <3>3, <3>4
  <2> QED
    BY <2>1, <2>2
<1>2. rs \in led
  <2> HIDE DEF led
  <2> QED
    BY <1>1, SubsetInduction
<1> QED
  BY <1>2

\* Each player has one best run in each scenario played.
LEMMA BestIsOne ==
  ASSUME NEW rs, AreRuns(rs),
         NEW b \in PerPlayerBest(rs), NEW c \in PerPlayerBest(rs),
         b.player = c.player, b.scenario = c.scenario
  PROVE  b = c
<1>1. b \in Run /\ c \in Run /\ Counts(b) /\ Counts(c) /\ ~Better(b, c) /\ ~Better(c, b)
  BY DEF PerPlayerBest, AreRuns
<1>2. b.score = c.score /\ b.at = c.at
  BY <1>1, CountedRun DEF Better
<1> QED
  BY <1>1, <1>2 DEF Run

\* A run that counts is matched by a best run of its player.
LEMMA BestExists ==
  ASSUME NEW rs, AreRuns(rs), NEW r \in rs, Counts(r)
  PROVE  \E b \in PerPlayerBest(rs) :
            b.player = r.player /\ b.scenario = r.scenario /\ ~Better(r, b)
<1> DEFINE rivals == {q \in rs : Counts(q) /\ q.player = r.player /\ q.scenario = r.scenario}
<1>1. IsFiniteSet(rivals) /\ r \in rivals
  BY FS_Subset DEF AreRuns
<1>2. \A q \in rivals : q.score \in Int /\ q.at \in Int
  BY CountedRun DEF AreRuns
<1>3. PICK b \in rivals : \A q \in rivals : ~Better(q, b)
  <2> HIDE DEF rivals
  <2> QED
    BY <1>1, <1>2, Unbeaten
<1>4. b \in PerPlayerBest(rs)
  BY <1>3 DEF PerPlayerBest
<1> QED
  BY <1>1, <1>3, <1>4

\* Best runs are runs that count.
LEMMA BestRuns ==
  ASSUME NEW rs, AreRuns(rs)
  PROVE  /\ PerPlayerBest(rs) \subseteq rs /\ IsFiniteSet(PerPlayerBest(rs))
         /\ \A b \in PerPlayerBest(rs) :
              /\ Counts(b) /\ b.scenario \in Scenarios
              /\ b.player \in Players /\ b.player \in Nat
              /\ b.score \in Scores /\ b.score \in Int /\ b.at \in Times /\ b.at \in Nat
<1>1. PerPlayerBest(rs) \subseteq rs
  BY DEF PerPlayerBest
<1>2. \A b \in PerPlayerBest(rs) : b \in Run /\ Counts(b)
  BY DEF PerPlayerBest, AreRuns
<1> QED
  BY <1>1, <1>2, CountedRun, FS_Subset DEF AreRuns

Partition(rows, of) == {q \in rows : q.of = of}

\* The rows that come before a row in its partition.
Ahead(rows, r) == {q \in rows : /\ q.of = r.of
                                /\ \/ Better(q, r)
                                   \/ ~Better(r, q) /\ q.player < r.player}

\* The number of a row is one more than the number of rows ahead of it.
LEMMA RowNumberCounts ==
  ASSUME NEW rows, NEW r, IsFiniteSet(Partition(rows, r.of))
  PROVE  /\ IsFiniteSet(Ahead(rows, r)) /\ RowNumber(rows, r) = 1 + Cardinality(Ahead(rows, r))
         /\ RowNumber(rows, r) \in Nat \ {0}
<1>1. Ahead(rows, r) \in SUBSET Partition(rows, r.of)
  BY DEF Ahead, Partition
<1>2. IsFiniteSet(Ahead(rows, r))
  BY <1>1, FS_Subset
<1>3. RowNumber(rows, r) = 1 + Cardinality(Ahead(rows, r))
  BY DEF RowNumber, Ahead
<1> QED
  BY <1>2, <1>3, FS_CardinalityType

\* A row that gets no worse while nobody else gets better keeps its place.
LEMMA PlaceIsKept ==
  ASSUME NEW before, NEW after, NEW r \in before, NEW s \in after,
         r.of = s.of, r.player = s.player, ~Better(r, s),
         IsFiniteSet(Partition(before, r.of)), IsFiniteSet(Partition(after, s.of)),
         \A q \in before \cup after : q.score \in Int /\ q.at \in Int /\ q.player \in Int,
         \A q \in after : q.of = s.of => (q = s \/ (q \in before /\ q.player # s.player))
  PROVE  RowNumber(after, s) <= RowNumber(before, r)
<1>1. ASSUME NEW q \in Ahead(after, s)
      PROVE  q \in Ahead(before, r)
  <2>1. /\ q \in after /\ q.of = s.of
        /\ Better(q, s) \/ (~Better(s, q) /\ q.player < s.player)
    BY DEF Ahead
  <2>2. q # s
    BY <2>1 DEF Better
  <2>3. q \in before /\ q.of = r.of
    BY <2>1, <2>2
  <2>4. Better(q, r) \/ (~Better(r, q) /\ q.player < r.player)
    <3>1. /\ q.score \in Int /\ q.at \in Int /\ r.score \in Int /\ r.at \in Int
          /\ s.score \in Int /\ s.at \in Int
      BY <2>3
    <3> QED
      BY <2>1, <3>1 DEF Better
  <2> QED
    BY <2>3, <2>4 DEF Ahead
<1>2. IsFiniteSet(Ahead(before, r)) /\ Ahead(after, s) \in SUBSET Ahead(before, r)
  BY <1>1, RowNumberCounts
<1>3. Cardinality(Ahead(after, s)) <= Cardinality(Ahead(before, r))
  BY <1>2, FS_Subset
<1>4. Cardinality(Ahead(after, s)) \in Nat /\ Cardinality(Ahead(before, r)) \in Nat
  BY <1>2, FS_Subset, FS_CardinalityType
<1> QED
  BY <1>3, <1>4, RowNumberCounts

\* The rows the two queries rank.
ScenarioRow(b) == [of |-> b.scenario, player |-> b.player, score |-> b.score, at |-> b.at,
                   matched |-> 1]

ScenarioRows(rs) == {ScenarioRow(b) : b \in PerPlayerBest(rs)}

Bests(rs, ls, d, p) == {b \in PerPlayerBest(rs) : b.scenario \in ls[d] /\ b.player = p}

IsComposite(rs, ls, row) ==
  \E d \in DOMAIN ls, p \in Players :
    Bests(rs, ls, d, p) # {} /\ row = Composite(d, p, Bests(rs, ls, d, p))

DifficultyRows(rs, ls) ==
  UNION {{Composite(d, p, Bests(rs, ls, d, p)) :
            p \in {b.player : b \in {c \in PerPlayerBest(rs) : c.scenario \in ls[d]}}} :
         d \in DOMAIN ls}

\* Both boards are the first MaxRank of their rows.
LEMMA BoardsRankRows ==
  /\ \A rs : ScenarioBoard(rs) = Top(ScenarioRows(rs))
  /\ \A rs, ls : DifficultyBoard(rs, ls) = Top(DifficultyRows(rs, ls))
BY DEF ScenarioBoard, ScenarioRows, ScenarioRow, DifficultyBoard, DifficultyRows, Bests

\* The rows of a board, one by one.
LEMMA TopRows ==
  ASSUME NEW rows, NEW row
  PROVE  row \in Top(rows) <=> \E r \in rows : /\ RowNumber(rows, r) <= MaxRank
                                               /\ row = Row(r, RowNumber(rows, r))
BY DEF Top

\* The rows the second query ranks, one by one.
LEMMA DifficultyRowsAre ==
  ASSUME NEW rs, NEW ls, AreRuns(rs), NEW row
  PROVE  row \in DifficultyRows(rs, ls) <=> IsComposite(rs, ls, row)
<1>1. \A b \in PerPlayerBest(rs) : b.player \in Players
  BY BestRuns
<1>2. ASSUME NEW d \in DOMAIN ls, NEW p
      PROVE  p \in {b.player : b \in {c \in PerPlayerBest(rs) : c.scenario \in ls[d]}}
               <=> (p \in Players /\ Bests(rs, ls, d, p) # {})
  BY <1>1 DEF Bests
<1>3. row \in DifficultyRows(rs, ls) <=>
        \E d \in DOMAIN ls :
          \E p \in {b.player : b \in {c \in PerPlayerBest(rs) : c.scenario \in ls[d]}} :
            row = Composite(d, p, Bests(rs, ls, d, p))
  BY DEF DifficultyRows
<1> QED
  BY <1>2, <1>3 DEF IsComposite

LastAt(bests) == Max({b.at : b \in bests})

\* What a composite is made of: finitely many runs, one for each scenario.
LEMMA BestsAre ==
  ASSUME NEW rs, NEW ls, AreRuns(rs), NEW d, NEW p, Bests(rs, ls, d, p) # {}
  PROVE  LET bests == Bests(rs, ls, d, p) IN
         /\ IsFiniteSet(bests)
         /\ \A b \in bests : b.score \in Int /\ b.at \in Int
         /\ Total(bests) \in Int
         /\ LastAt(bests) \in Times /\ LastAt(bests) \in Int
         /\ \E b \in bests : b.at = LastAt(bests)
         /\ \A b \in bests : b.at <= LastAt(bests)
         /\ Cardinality(bests) \in 1..Cardinality(Scenarios)
<1> DEFINE bests == Bests(rs, ls, d, p)
           dates == {b.at : b \in bests}
           at == [b \in bests |-> b.at]
           scenario == [b \in bests |-> b.scenario]
<1>1. bests \in SUBSET PerPlayerBest(rs) /\ bests # {} /\ \A b \in bests : b.player = p
  BY DEF Bests
<1>2. IsFiniteSet(bests)
  BY <1>1, BestRuns, FS_Subset
<1>3. \A b \in bests : /\ b.score \in Int /\ b.at \in Times /\ b.at \in Int
                        /\ b.scenario \in Scenarios
  BY <1>1, BestRuns
<1>4. Total(bests) \in Int
  BY <1>2, <1>3, TotalRemove
<1>5. dates # {} /\ dates \subseteq Times /\ dates \subseteq Int
  <2>1. PICK b \in bests : TRUE
    BY <1>1
  <2>2. b.at \in dates
    OBVIOUS
  <2>3. dates \subseteq Times /\ Times \subseteq Int
    BY <1>3, DomainAssumption
  <2> QED
    BY <2>2, <2>3
<1>6. IsFiniteSet(dates)
  <2>1. IsFiniteSet({at[b] : b \in bests})
    BY <1>2, ImageFinite
  <2>2. dates = {at[b] : b \in bests}
    OBVIOUS
  <2> QED
    BY <2>1, <2>2
<1>7. Max(dates) \in dates /\ Max(dates) \in Times /\ Max(dates) \in Int /\ \A b \in bests : b.at <= Max(dates)
  <2>1. \A b \in bests : b.at \in dates
    OBVIOUS
  <2> HIDE DEF dates
  <2> QED
    BY <1>5, <1>6, <2>1, MaxOfFinite
<1>8. Cardinality(bests) <= Cardinality(Scenarios) /\ Cardinality(Scenarios) \in Nat
  <2>1. \A b, c \in bests : scenario[b] = scenario[c] => b = c
    BY <1>1, BestIsOne
  <2>2. scenario \in Injection(bests, Scenarios)
    BY <1>3, <2>1 DEF Injection, IsInjective
  <2> HIDE DEF scenario, bests
  <2> QED
    BY <2>2, DomainAssumption, FS_Injection, FS_CardinalityType
<1>9. Cardinality(bests) \in Nat /\ Cardinality(bests) # 0
  BY <1>1, <1>2, FS_CardinalityType, FS_EmptySet
<1>10. Cardinality(bests) \in 1..Cardinality(Scenarios)
  BY <1>8, <1>9
<1>11. /\ LastAt(bests) \in Times /\ LastAt(bests) \in Int
       /\ \E b \in bests : b.at = LastAt(bests)
       /\ \A b \in bests : b.at <= LastAt(bests)
  BY <1>7 DEF LastAt
<1> QED
  BY <1>2, <1>3, <1>4, <1>10, <1>11

\* What is ranked is well-formed, and a partition is finite.
IsRow(row, ofs) == /\ row.of \in ofs /\ row.player \in Players /\ row.score \in Int
                   /\ row.at \in Times /\ row.matched \in 1..Cardinality(Scenarios)

\* The rows the first query ranks are finitely many for a scenario.
LEMMA ScenarioRowsAre ==
  ASSUME NEW rs, AreRuns(rs), NEW of
  PROVE  /\ IsFiniteSet(Partition(ScenarioRows(rs), of))
         /\ \A row \in ScenarioRows(rs) : IsRow(row, Scenarios)
<1> DEFINE row == [b \in PerPlayerBest(rs) |-> ScenarioRow(b)]
<1>1. IsFiniteSet({row[b] : b \in PerPlayerBest(rs)})
  <2>1. IsFiniteSet(PerPlayerBest(rs))
    BY BestRuns
  <2> HIDE DEF row
  <2> QED
    BY <2>1, ImageFinite
<1>2. ScenarioRows(rs) = {row[b] : b \in PerPlayerBest(rs)}
  BY DEF ScenarioRows
<1>3. IsFiniteSet(Partition(ScenarioRows(rs), of))
  <2> HIDE DEF row
  <2> QED
    BY <1>1, <1>2, FS_Subset DEF Partition
<1>4. ASSUME NEW b \in PerPlayerBest(rs)
      PROVE  IsRow(ScenarioRow(b), Scenarios)
  <2>1. b.scenario \in Scenarios
    BY BestRuns
  <2>2. Cardinality(Scenarios) \in Nat \ {0}
    BY <2>1, DomainAssumption, FS_CardinalityType, FS_EmptySet
  <2> QED
    BY <2>2, BestRuns DEF IsRow, ScenarioRow
<1> QED
  BY <1>3, <1>4 DEF ScenarioRows

\* The rows the second query ranks are finitely many for a difficulty.
LEMMA DifficultyRowsFinite ==
  ASSUME NEW rs, NEW ls, AreRuns(rs), NEW of
  PROVE  IsFiniteSet(Partition(DifficultyRows(rs, ls), of))
<1> DEFINE rows == Partition(DifficultyRows(rs, ls), of)
           player == [b \in PerPlayerBest(rs) |-> b.player]
           players == {player[b] : b \in PerPlayerBest(rs)}
           row == [p \in players |-> Composite(of, p, Bests(rs, ls, of, p))]
<1>1. IsFiniteSet(players)
  <2>1. IsFiniteSet(PerPlayerBest(rs))
    BY BestRuns
  <2> HIDE DEF player
  <2> QED
    BY <2>1, ImageFinite
<1>2. IsFiniteSet({row[p] : p \in players})
  <2> HIDE DEF players
  <2> QED
    BY <1>1, ImageFinite
<1>3. rows \in SUBSET {row[p] : p \in players}
  <2>1. ASSUME NEW q \in rows
        PROVE  \E p \in players : q = row[p]
    <3>1. PICK d \in DOMAIN ls, p \in Players :
             Bests(rs, ls, d, p) # {} /\ q = Composite(d, p, Bests(rs, ls, d, p))
      BY DifficultyRowsAre DEF IsComposite, Partition
    <3>2. d = of
      BY <3>1 DEF Composite, Partition
    <3>3. p \in players
      BY <3>1 DEF Bests
    <3> QED
      BY <3>1, <3>2, <3>3
  <2> QED
    BY <2>1
<1>4. IsFiniteSet(rows)
  <2> HIDE DEF rows, row
  <2> QED
    BY <1>2, <1>3, FS_Subset
<1> QED
  BY <1>4

\* What a composite row is made of.
LEMMA DifficultyRowsTyped ==
  ASSUME NEW rs, NEW ls, AreRuns(rs), NEW q \in DifficultyRows(rs, ls)
  PROVE  IsRow(q, DOMAIN ls)
<1>1. PICK d \in DOMAIN ls, p \in Players :
         Bests(rs, ls, d, p) # {} /\ q = Composite(d, p, Bests(rs, ls, d, p))
  BY DifficultyRowsAre DEF IsComposite
<1> QED
  BY <1>1, BestsAre DEF IsRow, Composite, LastAt

\* Rows can be compared.
LEMMA RowsCompare ==
  ASSUME NEW row, NEW ofs, IsRow(row, ofs)
  PROVE  row.score \in Int /\ row.at \in Int /\ row.player \in Int
<1>1. Times \subseteq Int /\ Players \subseteq Int
  BY DomainAssumption
<1> QED
  BY <1>1 DEF IsRow

\* A leaderboard is one.
LEMMA TopIsBoard ==
  ASSUME NEW rows, NEW ofs, \A r \in rows : IsRow(r, ofs),
         \A r \in rows : IsFiniteSet(Partition(rows, r.of))
  PROVE  IsBoard(Top(rows), ofs)
<1> SUFFICES ASSUME NEW row \in Top(rows)
             PROVE  /\ row.of \in ofs /\ row.player \in Players /\ row.rank \in 1..MaxRank
                    /\ row.matched \in 1..Cardinality(Scenarios)
                    /\ row.score \in Int /\ row.at \in Times
  BY DEF IsBoard
<1>1. PICK r \in rows : RowNumber(rows, r) <= MaxRank /\ row = Row(r, RowNumber(rows, r))
  BY TopRows
<1>2. RowNumber(rows, r) \in 1..MaxRank
  <2>1. RowNumber(rows, r) \in Nat \ {0}
    BY RowNumberCounts
  <2> QED
    BY <1>1, <2>1, MaxRankAssumption
<1> QED
  BY <1>1, <1>2 DEF Row, IsRow

\* Both queries give rankings.
LEMMA BoardsAre ==
  ASSUME NEW rs, NEW ls, AreRuns(rs)
  PROVE  IsBoard(ScenarioBoard(rs), Scenarios) /\ IsBoard(DifficultyBoard(rs, ls), DOMAIN ls)
<1>1. IsBoard(Top(ScenarioRows(rs)), Scenarios)
  <2> DEFINE rows == ScenarioRows(rs)
  <2>1. \A r \in rows : IsRow(r, Scenarios)
    BY ScenarioRowsAre
  <2>2. \A of : IsFiniteSet(Partition(rows, of))
    BY ScenarioRowsAre
  <2> HIDE DEF rows
  <2>3. IsBoard(Top(rows), Scenarios)
    BY <2>1, <2>2, TopIsBoard
  <2> QED
    BY <2>3 DEF rows
<1>2. IsBoard(Top(DifficultyRows(rs, ls)), DOMAIN ls)
  <2> DEFINE rows == DifficultyRows(rs, ls)
  <2>1. \A r \in rows : IsRow(r, DOMAIN ls)
    BY DifficultyRowsTyped
  <2>2. ASSUME NEW of
        PROVE  IsFiniteSet(Partition(rows, of))
    BY DifficultyRowsFinite
  <2> HIDE DEF rows
  <2>3. IsBoard(Top(rows), DOMAIN ls)
    BY <2>1, <2>2, TopIsBoard
  <2> QED
    BY <2>3 DEF rows
<1> QED
  BY <1>1, <1>2, BoardsRankRows

-----------------------------------------------------------------------------
(* Composites keep up *)

\* Each row of a scenario leaderboard has a run behind it that is as good.
Backed(rows, rs) ==
  /\ \A s \in rows : s.score \in Int
  /\ \A s \in rows : \E b \in PerPlayerBest(rs) :
       b.scenario = s.of /\ b.player = s.player /\ s.score <= b.score
  /\ \A s, t \in rows : (s.of = t.of /\ s.player = t.player) => s = t

KeepUp(rows, shownRows, ls) ==
  \A row \in rows :
    LET shown == {s \in shownRows : s.player = row.player /\ s.of \in ls[row.of]}
    IN /\ Total(shown) <= row.score
       /\ Cardinality(shown) <= row.matched

\* A row of the scenario leaderboard is backed by a best run.
LEMMA ScenarioBoardBacked ==
  ASSUME NEW rs, AreRuns(rs)
  PROVE  Backed(ScenarioBoard(rs), rs)
<1>1. ASSUME NEW s \in ScenarioBoard(rs)
      PROVE  \E b \in PerPlayerBest(rs) :
                s = Row(ScenarioRow(b), RowNumber(ScenarioRows(rs), ScenarioRow(b)))
  <2>1. PICK q \in ScenarioRows(rs) : s = Row(q, RowNumber(ScenarioRows(rs), q))
    BY BoardsRankRows, TopRows
  <2>2. PICK b \in PerPlayerBest(rs) : q = ScenarioRow(b)
    BY DEF ScenarioRows
  <2> QED
    BY <2>1, <2>2
<1>2. ASSUME NEW b \in PerPlayerBest(rs), NEW n
      PROVE  /\ Row(ScenarioRow(b), n).of = b.scenario
             /\ Row(ScenarioRow(b), n).player = b.player
             /\ Row(ScenarioRow(b), n).score = b.score /\ b.score \in Int
  BY BestRuns DEF Row, ScenarioRow
<1>3. ASSUME NEW s \in ScenarioBoard(rs)
      PROVE  /\ s.score \in Int
             /\ \E b \in PerPlayerBest(rs) :
                  b.scenario = s.of /\ b.player = s.player /\ s.score <= b.score
  <2>1. PICK b \in PerPlayerBest(rs) :
           s = Row(ScenarioRow(b), RowNumber(ScenarioRows(rs), ScenarioRow(b)))
    BY <1>1
  <2> QED
    BY <1>2, <2>1
<1>4. ASSUME NEW s \in ScenarioBoard(rs), NEW t \in ScenarioBoard(rs),
             s.of = t.of, s.player = t.player
      PROVE  s = t
  <2>1. PICK b \in PerPlayerBest(rs) :
           s = Row(ScenarioRow(b), RowNumber(ScenarioRows(rs), ScenarioRow(b)))
    BY <1>1
  <2>2. PICK c \in PerPlayerBest(rs) :
           t = Row(ScenarioRow(c), RowNumber(ScenarioRows(rs), ScenarioRow(c)))
    BY <1>1
  <2>3. b = c
    BY <1>2, <1>4, <2>1, <2>2, BestIsOne
  <2> QED
    BY <2>1, <2>2, <2>3
<1> QED
  BY <1>3, <1>4 DEF Backed

\* Runs that come later take nothing away.
LEMMA StaysBacked ==
  ASSUME NEW rows, NEW rs, NEW more, AreRuns(rs), AreRuns(more), rs \subseteq more,
         Backed(rows, rs)
  PROVE  Backed(rows, more)
<1>1. ASSUME NEW s \in rows
      PROVE  \E b \in PerPlayerBest(more) :
                b.scenario = s.of /\ b.player = s.player /\ s.score <= b.score
  <2>1. PICK c \in PerPlayerBest(rs) : c.scenario = s.of /\ c.player = s.player /\ s.score <= c.score
    BY DEF Backed
  <2>2. c \in more /\ Counts(c) /\ c.score \in Int /\ c.at \in Int
    BY BestRuns
  <2>3. PICK b \in PerPlayerBest(more) :
           b.player = c.player /\ b.scenario = c.scenario /\ ~Better(c, b)
    BY <2>2, BestExists
  <2>4. b.score \in Int /\ b.at \in Int /\ s.score \in Int
    BY BestRuns DEF Backed
  <2> QED
    BY <2>1, <2>2, <2>3, <2>4 DEF Better
<1> QED
  BY <1>1 DEF Backed

\* Composites of the present runs keep up with rows backed by them.
LEMMA CompositesOfMore ==
  ASSUME NEW shownRows, NEW rs, NEW ls, AreRuns(rs), Backed(shownRows, rs), Scores \subseteq Nat
  PROVE  KeepUp(DifficultyBoard(rs, ls), shownRows, ls)
<1> SUFFICES ASSUME NEW row \in DifficultyBoard(rs, ls)
             PROVE  LET shown == {s \in shownRows : s.player = row.player /\ s.of \in ls[row.of]}
                    IN Total(shown) <= row.score /\ Cardinality(shown) <= row.matched
  BY DEF KeepUp
<1> DEFINE shown == {s \in shownRows : s.player = row.player /\ s.of \in ls[row.of]}
<1>1. PICK r \in DifficultyRows(rs, ls) : row = Row(r, RowNumber(DifficultyRows(rs, ls), r))
  BY BoardsRankRows, TopRows
<1>2. PICK d \in DOMAIN ls, p \in Players :
         Bests(rs, ls, d, p) # {} /\ r = Composite(d, p, Bests(rs, ls, d, p))
  BY DifficultyRowsAre DEF IsComposite
<1> DEFINE bests == Bests(rs, ls, d, p)
           behind(s, b) == b.scenario = s.of /\ s.score <= b.score
           run == [s \in shown |-> CHOOSE b \in bests : behind(s, b)]
<1>3. /\ row.of = d /\ row.player = p /\ row.score = Total(bests)
      /\ row.matched = Cardinality(bests)
  BY <1>1, <1>2 DEF Row, Composite
<1>4. IsFiniteSet(bests) /\ \A b \in bests : b.score \in Nat
  <2>1. \A b \in bests : b.score \in Scores
    BY BestRuns DEF Bests
  <2> QED
    BY <1>2, <2>1, BestsAre
<1>5. ASSUME NEW s \in shown
      PROVE  run[s] \in bests /\ run[s].scenario = s.of /\ s.score <= run[s].score
  <2>1. \E b \in bests : behind(s, b)
    BY <1>3 DEF Backed, Bests
  <2> HIDE DEF behind, bests, shown
  <2>2. run[s] \in bests /\ behind(s, run[s])
    BY <2>1
  <2> QED
    BY <2>2 DEF behind
<1>6. \A s, t \in shown : run[s] = run[t] => s = t
  BY <1>5 DEF Backed
<1>7. \A s \in shown : s.score \in Int
  BY DEF Backed
<1>8. run \in [shown -> bests]
  BY <1>5
<1> HIDE DEF run, shown, bests
<1>9. IsFiniteSet(shown) /\ Cardinality(shown) <= Cardinality(bests)
  <2>1. run \in Injection(shown, bests)
    BY <1>6, <1>8 DEF Injection, IsInjective
  <2> QED
    BY <1>4, <2>1, FS_Injection
<1>10. Total(shown) <= Total(bests)
  BY <1>4, <1>5, <1>6, <1>7, <1>8, <1>9, TotalOfBetter
<1> QED
  BY <1>3, <1>9, <1>10 DEF shown

-----------------------------------------------------------------------------
(* No demotion *)

\* The best runs after one more run: of the others, as they were; of its player,
\* it may have taken the place of one or come to them.
LEMMA BestsAfterRun ==
  ASSUME NEW rs, NEW r, AreRuns(rs), AreRuns(rs \cup {r}), r \notin rs, Counts(r)
  PROVE  LET old == PerPlayerBest(rs)
             new == PerPlayerBest(rs \cup {r})
             loser(b) == Better(r, b) /\ b.player = r.player /\ b.scenario = r.scenario
         IN /\ new \ {r} = {b \in old : ~loser(b)}
            /\ r \notin new => new = old
<1> DEFINE old == PerPlayerBest(rs)
           new == PerPlayerBest(rs \cup {r})
           loser(b) == Better(r, b) /\ b.player = r.player /\ b.scenario = r.scenario
<1>1. new \ {r} = {b \in old : ~loser(b)}
  BY DEF PerPlayerBest
<1>2. ASSUME r \notin new, NEW b \in old
      PROVE  ~loser(b)
  <2>1. ~Better(r, r)
    BY CountedRun DEF Better, AreRuns
  <2>2. PICK q \in rs : Counts(q) /\ q.player = r.player /\ q.scenario = r.scenario /\ Better(q, r)
    BY <1>2, <2>1 DEF PerPlayerBest
  <2>3. b \in rs /\ Counts(b) /\ (b.player = q.player /\ b.scenario = q.scenario => ~Better(q, b))
    BY <2>2 DEF PerPlayerBest
  <2>4. /\ q.score \in Int /\ q.at \in Int /\ r.score \in Int /\ r.at \in Int
        /\ b.score \in Int /\ b.at \in Int
    BY <2>2, <2>3, CountedRun DEF AreRuns
  <2> QED
    BY <2>2, <2>3, <2>4 DEF Better
<1>3. r \notin new => new = old
  <2> HIDE DEF old, new, loser
  <2> QED
    BY <1>1, <1>2
<1> QED
  BY <1>1, <1>3


\* The row of a player in a partition, when it is one of the leaderboard, has a
\* counterpart after the run that is not behind it.
LEMMA RanksFollow ==
  ASSUME NEW before, NEW after, NEW p,
         \A row \in before : row.player = p =>
           \E s \in after : s.of = row.of /\ s.player = p /\ RowNumber(after, s) <= RowNumber(before, row),
         \A row \in before \cup after : IsFiniteSet(Partition(before, row.of))
                                        /\ IsFiniteSet(Partition(after, row.of))
  PROVE  NotBehind(Top(before), Top(after), p)
<1> SUFFICES ASSUME NEW row \in Top(before), row.player = p
             PROVE  \E rank \in RankIn(Top(after), row.of, p) : rank <= row.rank
  BY DEF NotBehind
<1>1. PICK r \in before : RowNumber(before, r) <= MaxRank /\ row = Row(r, RowNumber(before, r))
  BY TopRows
<1>2. r.of = row.of /\ r.player = p /\ row.rank = RowNumber(before, r)
  BY <1>1 DEF Row
<1>3. PICK s \in after :
         s.of = r.of /\ s.player = p /\ RowNumber(after, s) <= RowNumber(before, r)
  BY <1>2
<1>4. RowNumber(after, s) \in Nat /\ RowNumber(before, r) \in Nat
  BY RowNumberCounts
<1> DEFINE top == Row(s, RowNumber(after, s))
<1>5. RowNumber(after, s) <= MaxRank
  BY <1>1, <1>3, <1>4, MaxRankAssumption
<1>6. top \in Top(after)
  BY <1>5, TopRows
<1>7. top.of = row.of /\ top.player = p /\ top.rank = RowNumber(after, s)
  BY <1>2, <1>3 DEF Row
<1>8. top.rank \in RankIn(Top(after), row.of, p)
  BY <1>6, <1>7 DEF RankIn
<1> QED
  BY <1>2, <1>3, <1>7, <1>8

\* A run more costs its player no place among the players of a scenario.
LEMMA ScenarioPlaces ==
  ASSUME NEW rs, NEW r, AreRuns(rs), AreRuns(rs \cup {r}), Counts(r)
  PROVE  NotBehind(ScenarioBoard(rs), ScenarioBoard(rs \cup {r}), r.player)
<1> DEFINE before == ScenarioRows(rs)
           after == ScenarioRows(rs \cup {r})
<1>1. ASSUME NEW row \in before, row.player = r.player
      PROVE  \E s \in after : /\ s.of = row.of /\ s.player = r.player
                              /\ RowNumber(after, s) <= RowNumber(before, row)
  <2>1. PICK b \in PerPlayerBest(rs) : row = ScenarioRow(b)
    BY DEF ScenarioRows
  <2>2. b.player = r.player /\ b \in rs \cup {r} /\ Counts(b)
    BY <1>1, <2>1, BestRuns DEF ScenarioRow
  <2>3. PICK c \in PerPlayerBest(rs \cup {r}) :
           c.player = b.player /\ c.scenario = b.scenario /\ ~Better(b, c)
    BY <2>2, BestExists
  <2> DEFINE s == ScenarioRow(c)
  <2>4. s \in after /\ s.of = row.of /\ s.player = row.player
    BY <2>1, <2>3 DEF ScenarioRows, ScenarioRow
  <2>5. ~Better(row, s)
    BY <2>1, <2>3 DEF ScenarioRow, Better
  <2>6. ASSUME NEW q \in after, q.of = s.of
        PROVE  q = s \/ (q \in before /\ q.player # s.player)
    <3>1. PICK o \in PerPlayerBest(rs \cup {r}) : q = ScenarioRow(o)
      BY DEF ScenarioRows
    <3>2. o.scenario = c.scenario
      BY <2>6, <3>1 DEF ScenarioRow
    <3>3. CASE o.player = c.player
      BY <3>1, <3>2, <3>3, BestIsOne
    <3>4. CASE o.player # c.player
      <4>1. o \in rs
        BY <3>4, <2>2, <2>3, BestRuns
      <4>2. o \in PerPlayerBest(rs)
        BY <4>1 DEF PerPlayerBest
      <4> QED
        BY <3>1, <3>4, <4>2 DEF ScenarioRows, ScenarioRow
    <3> QED
      BY <3>3, <3>4
  <2>7. IsFiniteSet(Partition(before, row.of)) /\ IsFiniteSet(Partition(after, s.of))
    BY ScenarioRowsAre
  <2>8. \A q \in before \cup after : q.score \in Int /\ q.at \in Int /\ q.player \in Int
    <3>1. \A q \in before \cup after : IsRow(q, Scenarios)
      BY ScenarioRowsAre
    <3> HIDE DEF before, after
    <3> QED
      BY <3>1, RowsCompare
  <2> HIDE DEF before, after, s
  <2>9. RowNumber(after, s) <= RowNumber(before, row)
    BY <2>4, <2>5, <2>6, <2>7, <2>8, PlaceIsKept
  <2> QED
    BY <1>1, <2>4, <2>9
<1>2. \A row \in before \cup after : /\ IsFiniteSet(Partition(before, row.of))
                                     /\ IsFiniteSet(Partition(after, row.of))
  BY ScenarioRowsAre
<1>3. NotBehind(Top(before), Top(after), r.player)
  <2> HIDE DEF before, after
  <2> QED
    BY <1>1, <1>2, RanksFollow
<1> QED
  BY <1>3, BoardsRankRows

\* A composite gets no worse by a run of its player with a score above zero.
LEMMA CompositeGrows ==
  ASSUME NEW rs, NEW r, NEW ls, AreRuns(rs), AreRuns(rs \cup {r}), r \notin rs,
         Counts(r), r.score > 0,
         NEW d, Bests(rs, ls, d, r.player) # {}
  PROVE  /\ Bests(rs \cup {r}, ls, d, r.player) # {}
         /\ ~Better(Composite(d, r.player, Bests(rs, ls, d, r.player)),
                    Composite(d, r.player, Bests(rs \cup {r}, ls, d, r.player)))
<1> DEFINE old == PerPlayerBest(rs)
           new == PerPlayerBest(rs \cup {r})
           B == Bests(rs, ls, d, r.player)
           C == Bests(rs \cup {r}, ls, d, r.player)
           loser(b) == Better(r, b) /\ b.player = r.player /\ b.scenario = r.scenario
<1>1. /\ new \ {r} = {b \in old : ~loser(b)}
      /\ r \notin new => new = old
  BY BestsAfterRun
<1>2. C \ {r} = {b \in B : ~loser(b)}
  BY <1>1 DEF Bests
<1>3. r.score \in Int /\ r.at \in Int
  BY CountedRun DEF AreRuns
<1>4. /\ IsFiniteSet(B) /\ Total(B) \in Int /\ LastAt(B) \in Int
      /\ \A b \in B : b.score \in Int /\ b.at \in Int /\ b.at <= LastAt(B)
  BY BestsAre
<1>5. CASE r \notin C
  <2>1. C = B
    <3>1. CASE r \notin new
      BY <1>1, <3>1 DEF Bests
    <3>2. CASE r \in new
      <4>1. r.scenario \notin ls[d]
        BY <1>5, <3>2 DEF Bests
      <4>2. \A b \in B : b.scenario # r.scenario
        BY <4>1 DEF Bests
      <4> QED
        BY <1>2, <1>5, <4>2
    <3> QED
      BY <3>1, <3>2
  <2>2. ~Better(Composite(d, r.player, B), Composite(d, r.player, B))
    BY <1>4 DEF Better, Composite, LastAt
  <2> QED
    BY <2>1, <2>2
<1>6. CASE r \in C
  <2>1. /\ IsFiniteSet(C) /\ Total(C) \in Int /\ LastAt(C) \in Int
        /\ \A c \in C : c.score \in Int /\ c.at \in Int
        /\ \E c \in C : c.at = LastAt(C)
    <3> DEFINE more == rs \cup {r}
    <3>1. Bests(more, ls, d, r.player) # {} /\ AreRuns(more)
      BY <1>6
    <3> HIDE DEF more
    <3> DEFINE bests == Bests(more, ls, d, r.player)
    <3>2. /\ IsFiniteSet(bests) /\ Total(bests) \in Int /\ LastAt(bests) \in Int
          /\ \A c \in bests : c.score \in Int /\ c.at \in Int
          /\ \E c \in bests : c.at = LastAt(bests)
      BY <3>1, BestsAre
    <3> QED
      BY <3>2 DEF more
  <2>2. Total(C) = r.score + Total(C \ {r})
    BY <1>6, <2>1, TotalRemove
  <2>3. ASSUME NEW b \in B, b.scenario = r.scenario
        PROVE  /\ loser(b)
               /\ C \ {r} = B \ {b}
    <3>1. b \in old /\ b \in rs /\ b.player = r.player /\ b # r
      BY BestRuns DEF Bests
    <3>2. loser(b)
      <4>1. SUFFICES ASSUME ~loser(b) PROVE FALSE
        OBVIOUS
      <4>2. b \in new /\ r \in new
        BY <1>1, <1>6, <3>1, <4>1 DEF Bests
      <4> QED
        BY <2>3, <3>1, <4>2, BestIsOne
    <3>3. \A c \in B : loser(c) => c = b
      BY <2>3, <3>1, BestIsOne DEF Bests
    <3> QED
      BY <1>2, <3>2, <3>3
  <2>4. CASE \E b \in B : b.scenario = r.scenario
    <3>1. PICK b \in B : b.scenario = r.scenario
      BY <2>4
    <3>2. loser(b) /\ C \ {r} = B \ {b}
      BY <2>3, <3>1
    <3>3. Total(B) = b.score + Total(C \ {r}) /\ Total(C \ {r}) \in Int
      <4>1. Total(B) = b.score + Total(B \ {b})
        BY <1>4, TotalRemove
      <4>2. Total(C \ {r}) \in Int
        BY <2>1, <2>2, <1>3, <1>4, <3>2, <4>1, TotalRemove, FS_RemoveElement
      <4> QED
        BY <3>2, <4>1, <4>2
    <3>4. b.score \in Int /\ b.at \in Int /\ b.at <= LastAt(B)
      BY <1>4
    <3>5. CASE r.score > b.score
      <4>1. Total(C) > Total(B)
        BY <1>3, <2>2, <3>3, <3>4, <3>5
      <4> QED
        BY <1>4, <1>6, <2>1, <4>1 DEF Better, Composite, LastAt
    <3>6. CASE r.score = b.score /\ r.at < b.at
      <4>1. PICK c \in C : c.at = LastAt(C)
        BY <2>1
      <4>2. c = r \/ c \in B
        BY <1>2
      <4>3. LastAt(C) <= LastAt(B)
        BY <1>3, <1>4, <3>4, <3>6, <4>1, <4>2
      <4>4. Total(C) = Total(B)
        BY <2>2, <3>3, <3>6
      <4> QED
        BY <1>4, <1>6, <2>1, <4>3, <4>4 DEF Better, Composite, LastAt
    <3> QED
      BY <3>2, <3>5, <3>6 DEF Better
  <2>5. CASE \A b \in B : b.scenario # r.scenario
    <3>1. C \ {r} = B
      BY <1>2, <2>5
    <3>2. Total(C) > Total(B)
      <4>1. Total(C) = r.score + Total(B)
        BY <2>2, <3>1
      <4> HIDE DEF B, C
      <4> QED
        BY <1>3, <1>4, <4>1
    <3> QED
      BY <1>4, <1>6, <2>1, <3>2 DEF Better, Composite, LastAt
  <2> QED
    BY <2>4, <2>5
<1> QED
  BY <1>5, <1>6

\* A run more costs its player no place among the players of a difficulty.
LEMMA DifficultyPlaces ==
  ASSUME NEW rs, NEW r, NEW ls, AreRuns(rs), AreRuns(rs \cup {r}), r \notin rs,
         Counts(r), r.score > 0
  PROVE  NotBehind(DifficultyBoard(rs, ls), DifficultyBoard(rs \cup {r}, ls), r.player)
<1> DEFINE before == DifficultyRows(rs, ls)
           after == DifficultyRows(rs \cup {r}, ls)
<1>1. ASSUME NEW row \in before, row.player = r.player
      PROVE  \E s \in after : /\ s.of = row.of /\ s.player = r.player
                              /\ RowNumber(after, s) <= RowNumber(before, row)
  <2>1. PICK d \in DOMAIN ls, p \in Players :
           Bests(rs, ls, d, p) # {} /\ row = Composite(d, p, Bests(rs, ls, d, p))
    BY DifficultyRowsAre DEF IsComposite
  <2>2. p = r.player
    BY <1>1, <2>1 DEF Composite
  <2> DEFINE s == Composite(d, p, Bests(rs \cup {r}, ls, d, p))
  <2>3. Bests(rs \cup {r}, ls, d, p) # {} /\ ~Better(row, s)
    BY <2>1, <2>2, CompositeGrows
  <2>4. s \in after /\ s.of = row.of /\ s.player = row.player
    <3>1. IsComposite(rs \cup {r}, ls, s)
      BY <2>3 DEF IsComposite
    <3> QED
      BY <2>1, <3>1, DifficultyRowsAre DEF Composite
  <2>5. ASSUME NEW q \in after, q.of = s.of
        PROVE  q = s \/ (q \in before /\ q.player # s.player)
    <3>1. PICK e \in DOMAIN ls, o \in Players :
             /\ Bests(rs \cup {r}, ls, e, o) # {}
             /\ q = Composite(e, o, Bests(rs \cup {r}, ls, e, o))
      BY DifficultyRowsAre DEF IsComposite
    <3>2. e = d /\ q.player = o /\ s.player = p
      BY <2>5, <3>1 DEF Composite
    <3>3. CASE o = p
      BY <3>1, <3>2, <3>3
    <3>4. CASE o # p
      <4>1. Bests(rs \cup {r}, ls, d, o) = Bests(rs, ls, d, o)
        <5>1. \A b : b.player = o => (b \in PerPlayerBest(rs \cup {r}) <=> b \in PerPlayerBest(rs))
          BY <2>2, <3>4 DEF PerPlayerBest
        <5> QED
          BY <5>1 DEF Bests
      <4>2. IsComposite(rs, ls, q)
        BY <3>1, <3>2, <4>1 DEF IsComposite
      <4> QED
        BY <3>2, <3>4, <4>2, DifficultyRowsAre
    <3> QED
      BY <3>3, <3>4
  <2>6. IsFiniteSet(Partition(before, row.of)) /\ IsFiniteSet(Partition(after, s.of))
    BY DifficultyRowsFinite
  <2>7. \A q \in before \cup after : q.score \in Int /\ q.at \in Int /\ q.player \in Int
    <3>1. \A q \in before \cup after : IsRow(q, DOMAIN ls)
      BY DifficultyRowsTyped
    <3> HIDE DEF before, after
    <3> QED
      BY <3>1, RowsCompare
  <2> HIDE DEF before, after, s
  <2>8. RowNumber(after, s) <= RowNumber(before, row)
    BY <2>3, <2>4, <2>5, <2>6, <2>7, PlaceIsKept
  <2> QED
    BY <1>1, <2>4, <2>8
<1>2. \A row \in before \cup after : /\ IsFiniteSet(Partition(before, row.of))
                                     /\ IsFiniteSet(Partition(after, row.of))
  BY DifficultyRowsFinite
<1>3. NotBehind(Top(before), Top(after), r.player)
  <2> HIDE DEF before, after
  <2> QED
    BY <1>1, <1>2, RanksFollow
<1> QED
  BY <1>3, BoardsRankRows

-----------------------------------------------------------------------------
(* Difficulties *)

\* The sync gets past its cascade while the refresh holds the leaderboard only
\* if there was nothing to delete, and so nothing for the refresh to read.
CascadeIsVoid == (sync.stage = "deleted" /\ HoldsBoard) => DOMAIN links = {}

\* An emptied leaderboard has no rows yet; what is committed is resolved.
Inv ==
  /\ refresh.stage \in {"idle", "truncated", "ranked", "emptied", "inserted", "checked"}
  /\ sync.stage \in {"idle", "deleting", "deleted"}
  /\ DOMAIN refresh.rows = {"scenario", "difficulty"}
  /\ DOMAIN boards = {"scenario", "difficulty"}
  /\ DifficultiesStay
  /\ CascadeIsVoid

-----------------------------------------------------------------------------
\* Rows of a difficulty board are about linked difficulties.
LEMMA BoardOfLinks ==
  ASSUME NEW rs, NEW ls, NEW row \in DifficultyBoard(rs, ls)
  PROVE  row.of \in DOMAIN ls
<1>1. ASSUME NEW rows, NEW q \in Top(rows)
      PROVE  \E r \in rows : q.of = r.of
  BY DEF Top, Row
<1>2. ASSUME NEW d, NEW p, NEW bests
      PROVE  Composite(d, p, bests).of = d
  BY DEF Composite
<1> DEFINE bests(d, p) == {b \in PerPlayerBest(rs) : b.scenario \in ls[d] /\ b.player = p}
           players(d) == {b.player : b \in {c \in PerPlayerBest(rs) : c.scenario \in ls[d]}}
           all == UNION {{Composite(d, p, bests(d, p)) : p \in players(d)} : d \in DOMAIN ls}
<1>3. row \in Top(all)
  BY DEF DifficultyBoard
<1>4. PICK r \in all : row.of = r.of
  <2> HIDE DEF all
  <2> QED
    BY <1>1, <1>3
<1>5. PICK d \in DOMAIN ls : \E p \in players(d) : r = Composite(d, p, bests(d, p))
  OBVIOUS
<1> QED
  BY <1>2, <1>4, <1>5

\* No leaderboard speaks of anything at first.
THEOREM InitInv == Init => Inv
  BY DEF Init, Inv, DifficultiesStay, CascadeIsVoid, HoldsBoard, Inserted, IdleRefresh,
         IdleSync, NoRows

\* The statements of the refresh that read no difficulties.
LEMMA RefreshMovesInv ==
  ASSUME Inv,
         TruncateScenarios \/ RankScenarios \/ TruncateDifficulties
  PROVE  Inv'
  BY DEF Inv, DifficultiesStay, CascadeIsVoid, HoldsBoard, Inserted, TruncateScenarios,
         RankScenarios, TruncateDifficulties, RefreshMoves, NoRows

\* The statement that ranks difficulties reads the committed links.
LEMMA RankDifficultiesInv ==
  ASSUME Inv, RankDifficulties
  PROVE  Inv'
<1>1. refresh'.stage = "inserted" /\ refresh.stage = "emptied" /\ UNCHANGED <<links, boards, sync>>
  BY DEF RankDifficulties, RefreshMoves
<1>2. refresh' = [stage |-> "inserted",
                  rows |-> [refresh.rows EXCEPT !.difficulty = DifficultyBoard(runs, links)]]
  BY DEF RankDifficulties, RefreshMoves
<1>3. refresh'.rows.difficulty = DifficultyBoard(runs, links) /\ DOMAIN refresh'.rows = DOMAIN refresh.rows
  BY <1>2 DEF Inv
<1>4. Inserted' \subseteq DOMAIN links
  BY <1>3, BoardOfLinks DEF Inserted
<1> QED
  BY <1>1, <1>3, <1>4 DEF Inv, DifficultiesStay, CascadeIsVoid, HoldsBoard

\* No step leaves a row of a difficulty that is gone.
LEMMA StepInv == Inv /\ [Next]_vars => Inv'
<1> SUFFICES ASSUME Inv, [Next]_vars
             PROVE  Inv'
  OBVIOUS
<1> USE DEF Inv, DifficultiesStay, CascadeIsVoid, HoldsBoard, Inserted
<1>1. CASE Upload
  BY <1>1 DEF Upload
<1>2. CASE TruncateScenarios \/ RankScenarios \/ TruncateDifficulties
  BY <1>2, RefreshMovesInv
<1>3. CASE RankDifficulties
  BY <1>3, RankDifficultiesInv
<1>4. CASE CheckDifficulties
  BY <1>4 DEF CheckDifficulties, RefreshMoves
<1>5. CASE RefreshCommits
  BY <1>5 DEF RefreshCommits, IdleRefresh, NoRows
<1>6. CASE SyncDeletes
  <2>1. /\ UNCHANGED <<links, boards, refresh>>
        /\ sync'.stage = (IF links = <<>> THEN "deleted" ELSE "deleting")
    BY <1>6 DEF SyncDeletes
  <2>2. links = <<>> => DOMAIN links = {}
    OBVIOUS
  <2> QED
    BY <2>1, <2>2
<1>7. CASE SyncCascades
  BY <1>7 DEF SyncCascades
<1>8. CASE SyncCommits
  <2>1. /\ sync.stage = "deleted" /\ sync'.stage = "idle" /\ UNCHANGED refresh
        /\ boards' = [boards EXCEPT !.difficulty = {row \in @ : row.of \notin DOMAIN links}]
    BY <1>8 DEF SyncCommits, IdleSync
  <2>2. {row.of : row \in boards'.difficulty} = {}
    BY <2>1
  <2>3. refresh.stage \in {"inserted", "checked"} => Inserted = {}
    BY <2>1
  <2> QED
    BY <2>1, <2>2, <2>3
<1>9. CASE RefreshAborts /\ faults' \in {faults, faults + 1}
  BY <1>9 DEF RefreshAborts, IdleRefresh, NoRows
<1>10. CASE SyncAborts /\ faults' \in {faults, faults + 1}
  BY <1>10 DEF SyncAborts, IdleSync
<1>11. CASE UNCHANGED vars
  BY <1>11 DEF vars
<1> QED
  BY <1>1, <1>2, <1>3, <1>4, <1>5, <1>6, <1>7, <1>8, <1>9, <1>10, <1>11
  DEF Next, BreakDeadlock, Fail

\* Whatever the interleaving of refreshes, syncs, deadlocks and faults, rows of
\* the benchmark leaderboard, committed or just inserted, are about difficulties
\* that are there.
THEOREM DifficultiesResolve == Spec => []DifficultiesStay
<1>1. Inv => DifficultiesStay
  BY DEF Inv
<1> QED
  BY InitInv, StepInv, <1>1, PTL DEF Spec

-----------------------------------------------------------------------------
(* The leaderboards, typed and kept up *)

\* Runs come one by one; what the sync is about to commit is typed too.
TypedInv ==
  /\ TypeOK
  /\ IsFiniteSet(runs)
  /\ DOMAIN sync.links \subseteq Difficulties
  /\ \A d \in DOMAIN sync.links : sync.links[d] \subseteq Scenarios

\* The runs are finitely many.
LEMMA RunsAre == TypedInv => AreRuns(runs)
BY DomainAssumption DEF TypedInv, TypeOK, AreRuns

\* An upload adds one run and touches nothing else.
LEMMA UploadAdds ==
  ASSUME Upload
  PROVE  /\ \E r \in Uploads \ runs : runs' = runs \cup {r}
         /\ UNCHANGED <<links, boards, refresh, sync, syncs, faults>>
BY DEF Upload

\* The runs stay finitely many.
LEMMA UploadRuns ==
  ASSUME TypedInv, NEW r \in Uploads
  PROVE  AreRuns(runs \cup {r}) /\ runs \cup {r} \subseteq Uploads
BY FS_AddElement, DomainAssumption DEF TypedInv, TypeOK, AreRuns

\* The variables have their types at first.
THEOREM InitTyped == Init => TypedInv
<1> SUFFICES ASSUME Init PROVE TypedInv
  OBVIOUS
<1>1. IsFiniteSet(runs)
  BY FS_EmptySet DEF Init
<1>2. links = <<>> /\ DOMAIN links = {} /\ sync.links = <<>> /\ DOMAIN sync.links = {}
  BY DEF Init, IdleSync
<1>3. \A ofs : IsBoard(boards.scenario, ofs) /\ IsBoard(boards.difficulty, ofs)
               /\ IsBoard(refresh.rows.scenario, ofs) /\ IsBoard(refresh.rows.difficulty, ofs)
  BY DEF Init, IdleRefresh, NoRows, IsBoard
<1> QED
  BY <1>1, <1>2, <1>3, DomainAssumption DEF Init, TypedInv, TypeOK, IdleRefresh, IdleSync

\* The refresh holds rows of both leaderboards, one after the other.
LEMMA RefreshTyped ==
  ASSUME TypedInv, Inv,
         TruncateScenarios \/ RankScenarios \/ TruncateDifficulties \/ RankDifficulties
           \/ CheckDifficulties
  PROVE  TypedInv'
<1>1. UNCHANGED <<runs, links, boards, sync, syncs, faults>>
  BY DEF TruncateScenarios, RankScenarios, TruncateDifficulties, RankDifficulties,
         CheckDifficulties, RefreshMoves
<1>2. refresh'.stage \in {"truncated", "ranked", "emptied", "inserted", "checked"}
  BY DEF TruncateScenarios, RankScenarios, TruncateDifficulties, RankDifficulties,
         CheckDifficulties, RefreshMoves
<1>3. IsBoard({}, Scenarios) /\ IsBoard({}, Difficulties)
  BY DEF IsBoard
<1>4. IsBoard(ScenarioBoard(runs), Scenarios) /\ IsBoard(DifficultyBoard(runs, links), Difficulties)
  <2>1. IsBoard(DifficultyBoard(runs, links), DOMAIN links) /\ DOMAIN links \subseteq Difficulties
    BY RunsAre, BoardsAre DEF TypedInv, TypeOK
  <2> QED
    BY <2>1, RunsAre, BoardsAre DEF IsBoard
<1>5. IsBoard(refresh.rows.scenario, Scenarios) /\ IsBoard(refresh.rows.difficulty, Difficulties)
  BY DEF TypedInv, TypeOK
<1>6. IsBoard(refresh'.rows.scenario, Scenarios) /\ IsBoard(refresh'.rows.difficulty, Difficulties)
  <2>1. CASE TruncateScenarios
    BY <1>3, <2>1 DEF TruncateScenarios, RefreshMoves, NoRows
  <2>2. CASE RankScenarios
    <3>1. refresh'.rows = [refresh.rows EXCEPT !.scenario = ScenarioBoard(runs)]
      BY <2>2 DEF RankScenarios, RefreshMoves
    <3> QED
      BY <1>4, <1>5, <3>1 DEF Inv
  <2>3. CASE TruncateDifficulties \/ CheckDifficulties
    BY <1>5, <2>3 DEF TruncateDifficulties, CheckDifficulties, RefreshMoves
  <2>4. CASE RankDifficulties
    <3>1. refresh'.rows = [refresh.rows EXCEPT !.difficulty = DifficultyBoard(runs, links)]
      BY <2>4 DEF RankDifficulties, RefreshMoves
    <3> QED
      BY <1>4, <1>5, <3>1 DEF Inv
  <2> QED
    BY <2>1, <2>2, <2>3, <2>4
<1> QED
  BY <1>1, <1>2, <1>6 DEF TypedInv, TypeOK

\* Every step keeps the variables to their types.
LEMMA StepTyped == TypedInv /\ Inv /\ [Next]_vars => TypedInv'
<1> SUFFICES ASSUME TypedInv, Inv, [Next]_vars
             PROVE  TypedInv'
  OBVIOUS
<1>1. CASE Upload
  <2>1. PICK r \in Uploads : runs' = runs \cup {r}
    BY <1>1, UploadAdds
  <2>2. IsFiniteSet(runs') /\ runs' \subseteq Uploads
    BY <2>1, UploadRuns DEF AreRuns
  <2> QED
    BY <1>1, <2>2, UploadAdds DEF TypedInv, TypeOK
<1>2. CASE TruncateScenarios \/ RankScenarios \/ TruncateDifficulties \/ RankDifficulties
           \/ CheckDifficulties
  BY <1>2, RefreshTyped
<1>3. ASSUME NEW ofs PROVE IsBoard({}, ofs)
  BY DEF IsBoard
<1>4. CASE RefreshCommits
  BY <1>3, <1>4 DEF RefreshCommits, IdleRefresh, NoRows, TypedInv, TypeOK
<1>5. CASE SyncDeletes
  <2>1. UNCHANGED <<runs, links, boards, refresh, faults>> /\ syncs' = syncs + 1 /\ syncs < MaxSyncs
    BY <1>5 DEF SyncDeletes
  <2>2. PICK linked \in SUBSET Scenarios :
           sync' = [stage |-> IF links = <<>> THEN "deleted" ELSE "deleting",
                    links |-> [d \in {syncs + 1} |-> linked]]
    BY <1>5 DEF SyncDeletes
  <2>3. syncs \in Nat /\ syncs + 1 \in 1..MaxSyncs
    BY <2>1, DomainAssumption DEF TypedInv, TypeOK
  <2>4. /\ DOMAIN sync'.links \subseteq Difficulties
        /\ \A d \in DOMAIN sync'.links : sync'.links[d] \subseteq Scenarios
        /\ sync'.stage \in {"deleting", "deleted"}
    BY <2>2, <2>3 DEF Difficulties
  <2> QED
    BY <2>1, <2>3, <2>4 DEF TypedInv, TypeOK
<1>6. CASE SyncCascades
  <2>1. /\ UNCHANGED <<runs, links, boards, refresh, syncs, faults>>
        /\ sync' = [sync EXCEPT !.stage = "deleted"]
    BY <1>6 DEF SyncCascades
  <2>2. sync'.stage \in {"idle", "deleting", "deleted"} /\ sync'.links = sync.links
    BY <2>1 DEF Inv
  <2> QED
    BY <2>1, <2>2 DEF TypedInv, TypeOK
<1>7. CASE SyncCommits
  <2>1. /\ UNCHANGED <<runs, refresh, syncs, faults>> /\ links' = sync.links /\ sync' = IdleSync
        /\ boards' = [boards EXCEPT !.difficulty = {row \in @ : row.of \notin DOMAIN links}]
    BY <1>7 DEF SyncCommits
  <2>2. /\ IsBoard(boards'.scenario, Scenarios) /\ IsBoard(boards'.difficulty, Difficulties)
    BY <2>1 DEF Inv, TypedInv, TypeOK, IsBoard
  <2>3. sync'.stage = "idle" /\ DOMAIN sync'.links = {}
    BY <2>1 DEF IdleSync
  <2> QED
    BY <2>1, <2>2, <2>3 DEF TypedInv, TypeOK
<1>8. ASSUME RefreshAborts \/ SyncAborts, faults' \in 0..MaxFaults
      PROVE  TypedInv'
  <2>1. CASE RefreshAborts
    BY <1>3, <1>8, <2>1 DEF RefreshAborts, IdleRefresh, NoRows, TypedInv, TypeOK
  <2>2. CASE SyncAborts
    <3>1. sync'.stage = "idle" /\ DOMAIN sync'.links = {}
      BY <2>2 DEF SyncAborts, IdleSync
    <3> QED
      BY <1>8, <2>2, <3>1 DEF SyncAborts, TypedInv, TypeOK
  <2> QED
    BY <1>8, <2>1, <2>2
<1>9. CASE BreakDeadlock
  <2>1. faults' \in 0..MaxFaults
    BY <1>9 DEF BreakDeadlock, TypedInv, TypeOK
  <2> QED
    BY <1>8, <1>9, <2>1 DEF BreakDeadlock
<1>10. CASE Fail
  <2>1. faults' \in 0..MaxFaults
    BY <1>10, DomainAssumption DEF Fail, TypedInv, TypeOK
  <2> QED
    BY <1>8, <1>10, <2>1 DEF Fail
<1>11. CASE UNCHANGED vars
  BY <1>11 DEF vars, TypedInv, TypeOK
<1> QED
  BY <1>1, <1>2, <1>4, <1>5, <1>6, <1>7, <1>9, <1>10, <1>11 DEF Next

\* Whatever is uploaded, synced, refreshed or cut off: both leaderboards, what is
\* committed of them and what a refresh has inserted, are rankings up to maxRank of
\* players and scenarios or difficulties there have been.
THEOREM LeaderboardTyping == Spec => []TypeOK
<1>1. Inv /\ TypedInv => TypeOK
  BY DEF TypedInv
<1> QED
  BY InitInv, StepInv, InitTyped, StepTyped, <1>1, PTL DEF Spec

-----------------------------------------------------------------------------
\* The scenario leaderboard of a refresh is backed by the runs, which only get
\* more, until its composites are made of them.
KeptUpInv ==
  /\ KeepUp(boards.difficulty, boards.scenario, links)
  /\ refresh.stage \in {"inserted", "checked"} =>
       KeepUp(refresh.rows.difficulty, refresh.rows.scenario, links)
  /\ refresh.stage \in {"ranked", "emptied"} => Backed(refresh.rows.scenario, runs)

\* An empty leaderboard is behind nothing.
LEMMA KeepUpOfNothing == \A rows, ls : KeepUp({}, rows, ls)
BY DEF KeepUp

\* Every step keeps the composites up with the scenario leaderboard.
LEMMA StepKeptUp ==
  ASSUME Scores \subseteq Nat, TypedInv, Inv, KeptUpInv, [Next]_vars
  PROVE  KeptUpInv'
<1>1. CASE Upload
  <2>1. PICK r \in Uploads : runs' = runs \cup {r}
    BY <1>1, UploadAdds
  <2>2. AreRuns(runs) /\ AreRuns(runs') /\ runs \subseteq runs'
    BY <2>1, RunsAre, UploadRuns
  <2>3. UNCHANGED <<links, boards, refresh>>
    BY <1>1, UploadAdds
  <2>4. Backed(refresh.rows.scenario, runs) => Backed(refresh.rows.scenario, runs')
    BY <2>2, StaysBacked
  <2> QED
    BY <2>3, <2>4 DEF KeptUpInv
<1>2. CASE TruncateScenarios \/ TruncateDifficulties \/ CheckDifficulties
  BY <1>2 DEF TruncateScenarios, TruncateDifficulties, CheckDifficulties, RefreshMoves, KeptUpInv
<1>3. CASE RankScenarios
  <2>1. /\ refresh'.stage = "ranked" /\ UNCHANGED <<runs, links, boards>>
        /\ refresh'.rows = [refresh.rows EXCEPT !.scenario = ScenarioBoard(runs)]
    BY <1>3 DEF RankScenarios, RefreshMoves
  <2>2. Backed(refresh'.rows.scenario, runs')
    BY <2>1, RunsAre, ScenarioBoardBacked DEF Inv
  <2> QED
    BY <2>1, <2>2 DEF KeptUpInv
<1>4. CASE RankDifficulties
  <2>1. /\ refresh.stage = "emptied" /\ refresh'.stage = "inserted" /\ UNCHANGED <<runs, links, boards>>
        /\ refresh'.rows = [refresh.rows EXCEPT !.difficulty = DifficultyBoard(runs, links)]
    BY <1>4 DEF RankDifficulties, RefreshMoves
  <2>2. /\ refresh'.rows.difficulty = DifficultyBoard(runs, links)
        /\ refresh'.rows.scenario = refresh.rows.scenario
    BY <2>1 DEF Inv
  <2>3. KeepUp(refresh'.rows.difficulty, refresh'.rows.scenario, links')
    BY <2>1, <2>2, RunsAre, CompositesOfMore DEF KeptUpInv
  <2> QED
    BY <2>1, <2>3 DEF KeptUpInv
<1>5. CASE RefreshCommits
  BY <1>5 DEF RefreshCommits, IdleRefresh, KeptUpInv
<1>6. CASE SyncDeletes \/ SyncCascades
  <2>1. UNCHANGED <<runs, links, boards, refresh>>
    BY <1>6 DEF SyncDeletes, SyncCascades
  <2> QED
    BY <2>1 DEF KeptUpInv
<1>7. CASE SyncCommits
  <2>1. /\ sync.stage = "deleted" /\ UNCHANGED <<runs, refresh>>
        /\ boards' = [boards EXCEPT !.difficulty = {row \in @ : row.of \notin DOMAIN links}]
    BY <1>7 DEF SyncCommits
  <2>2. boards'.difficulty = {}
    BY <2>1 DEF Inv, DifficultiesStay
  <2>3. refresh.stage \in {"inserted", "checked"} => refresh.rows.difficulty = {}
    <3>1. refresh.stage \in {"inserted", "checked"} => Inserted = {}
      BY <2>1 DEF Inv, DifficultiesStay, CascadeIsVoid, HoldsBoard
    <3> QED
      BY <3>1 DEF Inserted
  <2> QED
    BY <2>1, <2>2, <2>3, KeepUpOfNothing DEF KeptUpInv
<1>8. CASE BreakDeadlock \/ Fail
  <2>1. /\ UNCHANGED <<runs, links, boards>>
        /\ refresh' = IdleRefresh \/ UNCHANGED refresh
    BY <1>8 DEF BreakDeadlock, Fail, RefreshAborts, SyncAborts
  <2> QED
    BY <2>1 DEF KeptUpInv, IdleRefresh
<1>9. CASE UNCHANGED vars
  BY <1>9 DEF vars, KeptUpInv
<1> QED
  BY <1>1, <1>2, <1>3, <1>4, <1>5, <1>6, <1>7, <1>8, <1>9 DEF Next

\* As long as no score is negative, the benchmark leaderboard is never behind
\* the scenario leaderboard, for any runs, links and number of refreshes.
THEOREM CompositesKeepUp ==
  ASSUME Scores \subseteq Nat
  PROVE  Spec => []CompositeKeepsUp
<1>1. Init => KeptUpInv
  BY KeepUpOfNothing DEF Init, IdleRefresh, NoRows, KeptUpInv
<1>2. TypedInv /\ Inv /\ KeptUpInv /\ [Next]_vars => KeptUpInv'
  BY StepKeptUp
<1>3. KeptUpInv => CompositeKeepsUp
  BY DEF KeptUpInv, KeepUp, CompositeKeepsUp
<1> QED
  BY InitInv, StepInv, InitTyped, StepTyped, <1>1, <1>2, <1>3, PTL DEF Spec

\* Uploading a run with a score above zero never costs its player a place, on
\* either leaderboard, whoever else has uploaded what.
THEOREM NobodyDemoted == Spec => NoDemotionByOwnRun
<1> DEFINE kept == \A r \in runs' \ runs :
              (Counts(r) /\ r.score > 0) =>
                 /\ NotBehind(ScenarioBoard(runs), ScenarioBoard(runs'), r.player)
                 /\ NotBehind(DifficultyBoard(runs, links), DifficultyBoard(runs', links), r.player)
<1>1. ASSUME TypedInv, [Next]_vars, runs' # runs
      PROVE  kept
  <2>1. Upload
    BY <1>1 DEF Next, TruncateScenarios, RankScenarios, TruncateDifficulties, RankDifficulties,
                CheckDifficulties, RefreshMoves, RefreshCommits, SyncDeletes, SyncCascades,
                SyncCommits, BreakDeadlock, Fail, RefreshAborts, SyncAborts, vars
  <2>2. PICK r \in Uploads \ runs : runs' = runs \cup {r}
    BY <2>1, UploadAdds
  <2>3. AreRuns(runs) /\ AreRuns(runs \cup {r})
    BY <1>1, RunsAre, UploadRuns
  <2>4. ASSUME Counts(r), r.score > 0
        PROVE  /\ NotBehind(ScenarioBoard(runs), ScenarioBoard(runs'), r.player)
               /\ NotBehind(DifficultyBoard(runs, links), DifficultyBoard(runs', links), r.player)
    BY <2>2, <2>3, <2>4, ScenarioPlaces, DifficultyPlaces
  <2> QED
    BY <2>2, <2>4
<1>2. TypedInv /\ [Next]_vars => [kept]_runs
  BY <1>1
<1> QED
  BY InitInv, StepInv, InitTyped, StepTyped, <1>2, PTL DEF Spec, NoDemotionByOwnRun
=============================================================================
