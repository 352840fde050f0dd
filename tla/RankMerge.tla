------------------------------ MODULE RankMerge ------------------------------
(***************************************************************************)
(* How one difficulty of the source file is merged with what Kovaak's      *)
(* reports about it: ranks, scenarios in their groups, links.              *)
(*                                                                         *)
(* The two documents are built up step by step; what the code computes     *)
(* from them are operators.  A name is [key, spelling, padded]: two names  *)
(* with one key differ in case only, a padded one has blanks around it.    *)
(***************************************************************************)
EXTENDS Integers, Sequences, SequencesExt

CONSTANTS Names,             \* the names that are not blank
          Thresholds,        \* the rank_maxes
          Blank,             \* a name or a color of blanks only
          NotAString,        \* a color that is no JSON string
          Junk,              \* a threshold that is no number
          Counts,            \* scenario counts; parseBenchmarks refuses negative ones
          MaxInt,            \* the greatest int
          MaxRanks, MaxEntries, MaxGroups    \* bounds of the two documents

ASSUME MergeAssumption ==
  /\ \A name \in Names : DOMAIN name = {"key", "spelling", "padded"}
  /\ MaxInt \in Nat
  /\ Counts \subseteq 0..MaxInt
  /\ MaxEntries \in Nat /\ MaxEntries < MaxInt
  /\ "color" \notin {Blank, NotAString}

VARIABLES
  rankColors,   \* the members of rankColors in the source file, in order
  categories,   \* the categories of the difficulty: the counts of their subcategories
  progress      \* the scenarios in Kovaak's answer: their names and rank_maxes

mergeVars == <<rankColors, categories, progress>>

RankColors == [name : Names \cup {Blank}, color : {"color", Blank, NotAString}]

MergeInit == rankColors = <<>> /\ categories = <<>> /\ progress = <<>>

AddRank ==
  /\ Len(rankColors) < MaxRanks
  /\ \E r \in RankColors : rankColors' = Append(rankColors, r)
  /\ UNCHANGED <<categories, progress>>

Groups == Len(FlattenSeq(categories)) + Len(categories)

AddCategory ==
  /\ Groups < MaxGroups
  /\ categories' = Append(categories, <<>>)
  /\ UNCHANGED <<rankColors, progress>>

AddSubcategory ==
  /\ Groups < MaxGroups
  /\ categories # <<>>
  /\ \E n \in Counts :
       categories' = [categories EXCEPT ![Len(categories)] = Append(@, n)]
  /\ UNCHANGED <<rankColors, progress>>

AddEntry ==
  /\ Len(progress) < MaxEntries
  /\ \E name \in Names \cup {Blank}, maxes \in Thresholds :
       progress' = Append(progress, [name |-> name, maxes |-> maxes])
  /\ UNCHANGED <<rankColors, categories>>

MergeNext == AddRank \/ AddCategory \/ AddSubcategory \/ AddEntry

MergeSpec == MergeInit /\ [][MergeNext]_mergeVars

-----------------------------------------------------------------------------
(* Ranks *)

\* A loop that skips what is not at one of the places kept, and appends the rest.
KeptOf(s, kept) ==
  LET out[n \in 0..Len(s)] ==
        IF n = 0 THEN <<>>
        ELSE IF n \in kept THEN Append(out[n - 1], s[n])
        ELSE out[n - 1]
  IN out[Len(s)]

Trim(name) == [name EXCEPT !.padded = FALSE]

\* parseOrderedRankColors
SourceRanks == KeptOf(rankColors, {i \in DOMAIN rankColors : rankColors[i].color # NotAString})

Trimmed(ranks) ==
  [i \in DOMAIN ranks |-> [name |-> Trim(ranks[i].name), color |-> ranks[i].color]]

\* mergedRanksFromSource
MergedRanks ==
  Trimmed(KeptOf(SourceRanks, {i \in DOMAIN SourceRanks : /\ SourceRanks[i].name # Blank
                                                          /\ SourceRanks[i].color # Blank}))

-----------------------------------------------------------------------------
(* Scenarios *)

\* normalizeThresholdsFromAny drops what is not a positive number.
Normalized(maxes) == SelectSeq(maxes, LAMBDA v : v # Junk /\ v > 0)

\* parseProgressScenarios
ProgressScenarios ==
  LET named == KeptOf(progress, {i \in DOMAIN progress : progress[i].name # Blank})
  IN [i \in DOMAIN named |-> [name |-> Trim(named[i].name),
                              thresholds |-> Normalized(named[i].maxes)]]

\* int arithmetic.
Wrap(n) == IF n > MaxInt THEN n - 2 * (MaxInt + 1) ELSE n

NoGroup == [category |-> 0, subcategory |-> 0]

Placed(def, group) == [name |-> def.name, thresholds |-> def.thresholds, group |-> group]

PlaceAll(defs, group) == [i \in DOMAIN defs |-> Placed(defs[i], group)]

\* Variant: the count is not added to the position.
EndFromStart(position, count) ==
  IF count > Len(ProgressScenarios) THEN Len(ProgressScenarios) ELSE count

\* Where a group that starts at position ends.  The code raises negative counts
\* to zero; none gets here.
End(position, count) ==
  LET end == Wrap(position + count)
  IN IF end > Len(ProgressScenarios) THEN Len(ProgressScenarios) ELSE end

\* The subcategories in order, each with its place and its count.
Subcategories ==
  LET upTo[c \in 0..Len(categories)] ==
        IF c = 0 THEN <<>>
        ELSE upTo[c - 1] \o [s \in DOMAIN categories[c] |->
                               [category |-> c, subcategory |-> s, count |-> categories[c][s]]]
  IN upTo[Len(categories)]

\* progressScenarios[position:end] panics if end is before position.
Take(walk, sub) ==
  LET end == End(walk.position, sub.count) IN
  IF walk.panicked \/ end < walk.position
  THEN [walk EXCEPT !.panicked = TRUE]
  ELSE [walk EXCEPT
         !.out = @ \o PlaceAll(SubSeq(ProgressScenarios, walk.position + 1, end),
                               [category |-> sub.category, subcategory |-> sub.subcategory]),
         !.position = end]

Walk ==
  LET after[k \in 0..Len(Subcategories)] ==
        IF k = 0 THEN [position |-> 0, out |-> <<>>, panicked |-> FALSE]
        ELSE Take(after[k - 1], Subcategories[k])
  IN after[Len(Subcategories)]

\* Variant: what is left over is dropped.
DropLeftovers ==
  IF categories = <<>> THEN PlaceAll(ProgressScenarios, NoGroup) ELSE Walk.out

\* applyProgressScenariosToDifficulty; what is left over goes to the last
\* category, to no subcategory.
MergedScenarios ==
  IF categories = <<>> THEN PlaceAll(ProgressScenarios, NoGroup)
  ELSE Walk.out \o PlaceAll(SubSeq(ProgressScenarios, Walk.position + 1, Len(ProgressScenarios)),
                            [category |-> Len(categories), subcategory |-> 0])

Panics == categories # <<>> /\ Walk.panicked

-----------------------------------------------------------------------------
(* Links *)

\* Variant: names are compared as they are written.
LinkExactly(links, merged) ==
  IF \E i \in DOMAIN links : links[i].name = merged.name
  THEN links ELSE Append(links, merged)

\* The first of the scenarios whose names differ in case only.
Link(links, merged) ==
  IF \E i \in DOMAIN links : links[i].name.key = merged.name.key
  THEN links ELSE Append(links, merged)

\* collectScenarioLinks
ScenarioLinks ==
  LET out[n \in 0..Len(MergedScenarios)] ==
        IF n = 0 THEN <<>> ELSE Link(out[n - 1], MergedScenarios[n])
  IN out[Len(MergedScenarios)]

-----------------------------------------------------------------------------
(* Properties *)

\* How many scenarios the first k subcategories ask for.
Asked ==
  LET upTo[k \in 0..Len(Subcategories)] ==
        IF k = 0 THEN 0 ELSE upTo[k - 1] + Subcategories[k].count
  IN upTo

\* The group of the i-th scenario by the running totals of the counts: the
\* first subcategory whose total reaches i, else the last category's rest.
GroupOf(i) ==
  LET reached == {k \in DOMAIN Subcategories : Asked[k] >= i} IN
  IF categories = <<>> THEN NoGroup
  ELSE IF reached = {} THEN [category |-> Len(categories), subcategory |-> 0]
  ELSE LET sub == Subcategories[Min(reached)]
       IN [category |-> sub.category, subcategory |-> sub.subcategory]

\* Unless the merge panics, every scenario Kovaak's names is placed exactly
\* once, in Kovaak's order, in the group its position falls in.
ScenariosFillGroups ==
  ~Panics => MergedScenarios = [i \in DOMAIN ProgressScenarios |->
                                  Placed(ProgressScenarios[i], GroupOf(i))]

\* The slice expression is in range unless a count is so large that adding the
\* position overflows.
PanicsOnlyOnOverflow ==
  Panics => \E k \in DOMAIN Subcategories :
              Subcategories[k].count > MaxInt - Len(ProgressScenarios)

\* The place of i among those kept.
PlaceIn(kept, i) == Cardinality({j \in kept : j <= i})

\* The list has, for each of those kept, the entry made of it, in their order,
\* and no other.
IsListOf(list, kept, entry) ==
  /\ Len(list) = Cardinality(kept)
  /\ \A i \in kept : list[PlaceIn(kept, i)] = entry[i]

\* Nothing of either list is doubled or changes places: ranks are the members of
\* rankColors that have both a name and a color, links the first of the scenarios
\* whose names differ in case only.
OrderIsKept ==
  LET complete == {i \in DOMAIN rankColors : /\ rankColors[i].name # Blank
                                             /\ rankColors[i].color = "color"}
      key(i) == MergedScenarios[i].name.key
      first == {i \in DOMAIN MergedScenarios : \A j \in 1..i - 1 : key(j) # key(i)}
  IN /\ IsListOf(MergedRanks, complete,
                 [i \in complete |-> [name |-> Trim(rankColors[i].name), color |-> "color"]])
     /\ IsListOf(ScenarioLinks, first, MergedScenarios)
=============================================================================
