-------------------------- MODULE CatalogueTxProofs --------------------------
(***************************************************************************)
(* For any files, any scenarios and any interleaving with the API.         *)
(***************************************************************************)
EXTENDS CatalogueTx, TLAPS

Place == {"stage", "b", "d", "l"}

-----------------------------------------------------------------------------
\* No statement is followed by the second half of an ensureScenario.
LEMMA NextStages ==
  /\ AfterBenchmark.stage \in {"upserting", "committing"}
  /\ AfterDifficulty.stage \in {"inserting", "upserting", "committing"}
  /\ AfterLink.stage \in {"ensuring", "inserting", "upserting", "committing"}
  /\ DOMAIN AfterBenchmark = Place /\ DOMAIN AfterDifficulty = Place /\ DOMAIN AfterLink = Place
  BY DEF Place, AfterBenchmark, AfterDifficulty, AfterLink, At

\* No transaction is open in Idle.
LEMMA IdleStage == Idle.stage = "idle" /\ DOMAIN Idle = Place
  BY DEF Idle, At, Place

-----------------------------------------------------------------------------
(* The rows of file f that are written when the transaction has come to p *)

BenchRow(f, c) == [name |-> f[c].name, data |-> f[c].data]

DiffRow(f, c, e) ==
  [kid |-> f[c].difficulties[e].kid, benchmark |-> f[c].name, name |-> f[c].difficulties[e].name,
   sort |-> e - 1, data |-> f[c].difficulties[e].data]

LinkRow(f, c, e, m) ==
  [kid |-> f[c].difficulties[e].kid, scenario |-> f[c].difficulties[e].links[m], sort |-> m - 1]

Upserted(p, c) ==
  p.stage = "committing" \/ c < p.b \/ (c = p.b /\ p.stage # "upserting")

Cleared(p, c) ==
  p.stage = "committing" \/ c < p.b \/ (c = p.b /\ p.stage \notin {"upserting", "clearing"})

Written(p, c, e) ==
  \/ p.stage = "committing" \/ c < p.b
  \/ /\ c = p.b /\ p.stage \notin {"upserting", "clearing"}
     /\ e < p.d \/ (e = p.d /\ p.stage # "inserting")

Linked(p, c, e, m) ==
  \/ p.stage = "committing" \/ c < p.b
  \/ /\ c = p.b /\ p.stage \notin {"upserting", "clearing"}
     /\ e < p.d \/ (e = p.d /\ p.stage # "inserting" /\ m < p.l)

\* Difficulties of tables t that are not deleted yet.
Old(t, f, p, x) ==
  /\ x \in t.difficulties
  /\ x.benchmark \in Names(f)
  /\ \A c \in DOMAIN f : Cleared(p, c) => x.benchmark # f[c].name

HasBenchmark(t, f, p, x) ==
  \/ \E c \in DOMAIN f : Upserted(p, c) /\ x = BenchRow(f, c)
  \/ /\ x \in t.benchmarks /\ x.name \in Names(f)
     /\ \A c \in DOMAIN f : Upserted(p, c) => x.name # f[c].name

HasDifficulty(t, f, p, x) ==
  \/ \E c \in DOMAIN f : \E e \in DOMAIN f[c].difficulties : Written(p, c, e) /\ x = DiffRow(f, c, e)
  \/ Old(t, f, p, x)

HasLink(t, f, p, x) ==
  \/ \E c \in DOMAIN f : \E e \in DOMAIN f[c].difficulties :
       \E m \in DOMAIN f[c].difficulties[e].links : Linked(p, c, e, m) /\ x = LinkRow(f, c, e, m)
  \/ x \in t.links /\ \E y \in t.difficulties : y.kid = x.kid /\ Old(t, f, p, y)

\* What the transaction sees at p, if it began with tables t.
DraftIs(t, f, dr, p) ==
  /\ dr.benchmarks = {x \in t.benchmarks \cup Image(f).benchmarks : HasBenchmark(t, f, p, x)}
  /\ dr.difficulties = {x \in t.difficulties \cup Image(f).difficulties : HasDifficulty(t, f, p, x)}
  /\ dr.links = {x \in t.links \cup Image(f).links : HasLink(t, f, p, x)}

Positioned(f, p) ==
  \/ p.stage = "committing"
  \/ p.stage = "deleting" /\ p.b = 0
  \/ p.stage \in {"upserting", "clearing"} /\ p.b \in DOMAIN f /\ p.d = 0
  \/ /\ p.stage \in {"inserting", "ensuring", "linking"}
     /\ p.b \in DOMAIN f /\ p.d \in DOMAIN f[p.b].difficulties
     /\ IF p.stage = "inserting" THEN p.l = 0
        ELSE p.l \in DOMAIN f[p.b].difficulties[p.d].links

UniqueKids(difficulties) == \A x, y \in difficulties : x.kid = y.kid => x = y

Recorded(t) ==
  t = [benchmarks |-> t.benchmarks, difficulties |-> t.difficulties, links |-> t.links]

ImageInv ==
  /\ Recorded(tables) /\ Recorded(draft) /\ DOMAIN at = Place
  /\ IF synced = None THEN tables = Empty
     ELSE synced \in Files /\ Accepted(synced) /\ tables = Image(synced)
  /\ at # Idle =>
       /\ file \in Files /\ Accepted(file) /\ Positioned(file, at)
       /\ IF at.stage = "deleting" THEN draft = tables
          ELSE DraftIs(tables, file, draft, at) /\ UniqueKids(draft.difficulties)

-----------------------------------------------------------------------------
(* What the operators above say of single rows *)

\* Which rows the image of a file has.
LEMMA ImageRows ==
  ASSUME NEW f
  PROVE  /\ Recorded(Image(f))
         /\ \A x : x \in Image(f).benchmarks <=> \E c \in DOMAIN f : x = BenchRow(f, c)
         /\ Image(f).difficulties = Difficulties(f)
         /\ \A x : x \in Difficulties(f) <=>
              \E c \in DOMAIN f : \E e \in DOMAIN f[c].difficulties : x = DiffRow(f, c, e)
         /\ \A x : x \in Image(f).links <=>
              \E c \in DOMAIN f : \E e \in DOMAIN f[c].difficulties :
                \E m \in DOMAIN f[c].difficulties[e].links : x = LinkRow(f, c, e, m)
<1>1. Recorded(Image(f)) /\ Image(f).difficulties = Difficulties(f)
  BY DEF Recorded, Image
<1>2. \A x : x \in Image(f).benchmarks <=> \E c \in DOMAIN f : x = BenchRow(f, c)
  BY DEF Image, BenchRow
<1>3. \A x : x \in Difficulties(f) <=>
        \E c \in DOMAIN f : \E e \in DOMAIN f[c].difficulties : x = DiffRow(f, c, e)
  BY DEF Difficulties, DiffRow
<1>4. \A x : x \in Image(f).links <=>
        \E c \in DOMAIN f : \E e \in DOMAIN f[c].difficulties :
          \E m \in DOMAIN f[c].difficulties[e].links : x = LinkRow(f, c, e, m)
  BY DEF Image, LinkRow
<1> QED
  BY <1>1, <1>2, <1>3, <1>4

\* Which rows the draft has at a place in the file, spelled out.
LEMMA DraftRows ==
  ASSUME NEW t, NEW f, NEW dr, NEW p
  PROVE  DraftIs(t, f, dr, p) <=>
           /\ \A x : x \in dr.benchmarks <=> HasBenchmark(t, f, p, x)
           /\ \A x : x \in dr.difficulties <=> HasDifficulty(t, f, p, x)
           /\ \A x : x \in dr.links <=> HasLink(t, f, p, x)
<1>1. \A x : HasBenchmark(t, f, p, x) => x \in t.benchmarks \cup Image(f).benchmarks
  BY ImageRows DEF HasBenchmark
<1>2. \A x : HasDifficulty(t, f, p, x) => x \in t.difficulties \cup Image(f).difficulties
  BY ImageRows DEF HasDifficulty, Old
<1>3. \A x : HasLink(t, f, p, x) => x \in t.links \cup Image(f).links
  BY ImageRows DEF HasLink
<1> QED
  BY <1>1, <1>2, <1>3 DEF DraftIs

\* Names and kids of an accepted file tell its rows apart.
LEMMA AcceptedRows ==
  ASSUME NEW f \in Files, Accepted(f)
  PROVE  /\ UniqueKids(Difficulties(f))
         /\ \A c, b \in DOMAIN f : f[c].name = f[b].name => c = b
         /\ \A c, b \in DOMAIN f :
              \A e \in DOMAIN f[c].difficulties : \A d \in DOMAIN f[b].difficulties :
                DiffRow(f, c, e).kid = DiffRow(f, b, d).kid => c = b /\ e = d
<1>1. UniqueKids(Difficulties(f)) /\ \A c, b \in DOMAIN f : f[c].name = f[b].name => c = b
  BY DEF Accepted, UniqueKids
<1>2. ASSUME NEW c \in DOMAIN f, NEW b \in DOMAIN f,
             NEW e \in DOMAIN f[c].difficulties, NEW d \in DOMAIN f[b].difficulties,
             DiffRow(f, c, e).kid = DiffRow(f, b, d).kid
      PROVE  c = b /\ e = d
  <2>1. DiffRow(f, c, e) = DiffRow(f, b, d)
    BY <1>1, <1>2, ImageRows DEF UniqueKids
  <2>2. f[c].name = f[b].name /\ e - 1 = d - 1
    BY <2>1 DEF DiffRow
  <2>3. c = b
    BY <1>1, <2>2
  <2>4. e \in Nat /\ d \in Nat
    BY <2>3, FilesAssumption DEF IsSeq
  <2> QED
    BY <2>2, <2>3, <2>4
<1> QED
  BY <1>1, <1>2

\* The committed tables: no kovaaks id occurs twice, no link hangs in the air.
LEMMA KeptTables ==
  ASSUME ImageInv
  PROVE  /\ UniqueKids(tables.difficulties)
         /\ \A x \in tables.links : \E y \in tables.difficulties : y.kid = x.kid
<1>1. CASE synced = None
  BY <1>1 DEF ImageInv, Empty, UniqueKids
<1>2. CASE synced # None
  <2>1. synced \in Files /\ Accepted(synced) /\ tables = Image(synced)
    BY <1>2 DEF ImageInv
  <2>2. \A c, e, m : LinkRow(synced, c, e, m).kid = DiffRow(synced, c, e).kid
    BY DEF LinkRow, DiffRow
  <2> QED
    BY <2>1, <2>2, ImageRows, AcceptedRows
<1> QED
  BY <1>1, <1>2

-----------------------------------------------------------------------------
(* The order of the statements *)

\* A file is a sequence of benchmarks of sequences of difficulties.
LEMMA FileShape ==
  ASSUME file \in Files
  PROVE  /\ Len(file) \in Nat /\ DOMAIN file = 1..Len(file)
         /\ \A c \in DOMAIN file :
              /\ Len(file[c].difficulties) \in Nat
              /\ DOMAIN file[c].difficulties = 1..Len(file[c].difficulties)
              /\ \A e \in DOMAIN file[c].difficulties :
                   /\ Len(file[c].difficulties[e].links) \in Nat
                   /\ DOMAIN file[c].difficulties[e].links = 1..Len(file[c].difficulties[e].links)
  BY FilesAssumption DEF IsSeq

\* Where a transaction goes first, nothing of the file has been written.
LEMMA FirstPlace ==
  ASSUME file \in Files, at.b = 0
  PROVE  /\ Positioned(file, AfterBenchmark) /\ AfterBenchmark.stage # "deleting"
         /\ \A c \in DOMAIN file :
              /\ ~Upserted(AfterBenchmark, c) /\ ~Cleared(AfterBenchmark, c)
              /\ \A e, m : ~Written(AfterBenchmark, c, e) /\ ~Linked(AfterBenchmark, c, e, m)
<1>1. CASE 0 < Len(file)
  <2>1. AfterBenchmark = At("upserting", 1, 0, 0)
    BY <1>1 DEF AfterBenchmark
  <2> QED
    BY <1>1, <2>1, FileShape DEF At, Positioned, Upserted, Cleared, Written, Linked
<1>2. CASE ~(0 < Len(file))
  BY <1>2, FileShape DEF AfterBenchmark, At, Positioned
<1> QED
  BY <1>1, <1>2

\* Once benchmark b is cleared, its difficulties follow, or the next benchmark.
LEMMA ClearedPlace ==
  ASSUME file \in Files, Positioned(file, at), at.stage = "clearing"
  PROVE  /\ Positioned(file, AfterDifficulty) /\ AfterDifficulty.stage # "deleting"
         /\ \A c \in DOMAIN file :
              /\ Upserted(AfterDifficulty, c) <=> Upserted(at, c)
              /\ Cleared(AfterDifficulty, c) <=> (Cleared(at, c) \/ c = at.b)
              /\ \A e \in DOMAIN file[c].difficulties :
                   /\ Written(AfterDifficulty, c, e) <=> Written(at, c, e)
                   /\ \A m \in DOMAIN file[c].difficulties[e].links :
                        Linked(AfterDifficulty, c, e, m) <=> Linked(at, c, e, m)
<1>1. at.b \in DOMAIN file /\ at.d = 0
  BY DEF Positioned
<1> USE FileShape DEF At, Positioned, Upserted, Cleared, Written, Linked
<1>2. CASE 0 < Len(Benchmark.difficulties)
  <2>1. AfterDifficulty = At("inserting", at.b, 1, 0)
    BY <1>1, <1>2 DEF AfterDifficulty
  <2> QED
    BY <1>1, <1>2, <2>1 DEF Benchmark
<1>3. CASE ~(0 < Len(Benchmark.difficulties)) /\ at.b < Len(file)
  <2>1. AfterDifficulty = At("upserting", at.b + 1, 0, 0)
    BY <1>1, <1>3 DEF AfterDifficulty, AfterBenchmark
  <2> QED
    BY <1>1, <1>3, <2>1 DEF Benchmark
<1>4. CASE ~(0 < Len(Benchmark.difficulties)) /\ ~(at.b < Len(file))
  <2>1. AfterDifficulty = At("committing", 0, 0, 0)
    BY <1>1, <1>4 DEF AfterDifficulty, AfterBenchmark
  <2> QED
    BY <1>1, <1>4, <2>1 DEF Benchmark
<1> QED
  BY <1>2, <1>3, <1>4

\* Once a difficulty or a link is inserted, the next link, difficulty or
\* benchmark follows.
LEMMA LinkedPlace ==
  ASSUME file \in Files, Positioned(file, at), at.stage \in {"inserting", "linking"}
  PROVE  /\ Positioned(file, AfterLink) /\ AfterLink.stage # "deleting"
         /\ \A c \in DOMAIN file :
              /\ Upserted(AfterLink, c) <=> Upserted(at, c)
              /\ Cleared(AfterLink, c) <=> Cleared(at, c)
              /\ \A e \in DOMAIN file[c].difficulties :
                   /\ Written(AfterLink, c, e) <=> (Written(at, c, e) \/ (c = at.b /\ e = at.d))
                   /\ \A m \in DOMAIN file[c].difficulties[e].links :
                        Linked(AfterLink, c, e, m) <=>
                          (Linked(at, c, e, m) \/ (c = at.b /\ e = at.d /\ m = at.l))
<1>1. /\ at.b \in DOMAIN file /\ at.d \in DOMAIN file[at.b].difficulties
      /\ IF at.stage = "inserting" THEN at.l = 0
         ELSE at.l \in DOMAIN file[at.b].difficulties[at.d].links
  BY DEF Positioned
<1>2. Benchmark = file[at.b] /\ Difficulty = file[at.b].difficulties[at.d]
  BY DEF Benchmark, Difficulty
<1>2a. /\ at.b \in Nat /\ at.d \in Nat
       /\ \A c \in DOMAIN file : c \in Nat /\ c <= Len(file)
       /\ \A e \in DOMAIN file[at.b].difficulties : e \in Nat /\ e <= Len(Benchmark.difficulties)
  BY <1>1, <1>2, FileShape
<1>2b. DOMAIN Difficulty.links = 1..Len(Difficulty.links) /\ Len(Difficulty.links) \in Nat
  BY <1>1, <1>2, FileShape
<1>2c. /\ at.l \in Nat /\ at.l <= Len(Difficulty.links)
       /\ \A m \in DOMAIN file[at.b].difficulties[at.d].links :
            m \in Nat /\ 0 < m /\ m <= Len(Difficulty.links)
  <2>1. CASE at.stage = "inserting"
    BY <1>1, <1>2, <1>2b, <2>1
  <2>2. CASE at.stage = "linking"
    BY <1>1, <1>2, <1>2b, <2>2
  <2> QED
    BY <2>1, <2>2
<1> USE FileShape DEF At, Positioned, Upserted, Cleared, Written, Linked
<1>3. CASE at.l < Len(Difficulty.links)
  <2>1. AfterLink = At("ensuring", at.b, at.d, at.l + 1)
    BY <1>3 DEF AfterLink
  <2>2. Positioned(file, AfterLink) /\ AfterLink.stage # "deleting"
    <3>1. /\ AfterLink.stage = "ensuring" /\ AfterLink.b = at.b /\ AfterLink.d = at.d
          /\ AfterLink.l = at.l + 1
      BY ONLY <2>1 DEF At
    <3>2. at.l + 1 \in DOMAIN file[at.b].difficulties[at.d].links
      <4>1. at.l \in Nat /\ Len(Difficulty.links) \in Nat
        BY ONLY <1>2b, <1>2c
      <4>2. at.l + 1 \in 1..Len(Difficulty.links)
        BY ONLY <1>3, <4>1
      <4> QED
        BY ONLY <1>2, <1>2b, <4>2
    <3> QED
      BY ONLY <1>1, <3>1, <3>2 DEF Positioned
  <2>3. ASSUME NEW c \in DOMAIN file
        PROVE  /\ Upserted(AfterLink, c) <=> Upserted(at, c)
               /\ Cleared(AfterLink, c) <=> Cleared(at, c)
    BY <1>1, <1>3, <2>1
  <2>4. ASSUME NEW c \in DOMAIN file, NEW e \in DOMAIN file[c].difficulties
        PROVE  Written(AfterLink, c, e) <=> (Written(at, c, e) \/ (c = at.b /\ e = at.d))
    BY <1>1, <1>2, <1>3, <2>1
  <2>5. ASSUME NEW c \in DOMAIN file, NEW e \in DOMAIN file[c].difficulties,
               NEW m \in DOMAIN file[c].difficulties[e].links
        PROVE  Linked(AfterLink, c, e, m) <=>
                 (Linked(at, c, e, m) \/ (c = at.b /\ e = at.d /\ m = at.l))
    <3>1. CASE c = at.b /\ e = at.d
      BY <1>1, <1>2a, <1>2c, <1>3, <2>1, <3>1
    <3>2. CASE ~(c = at.b /\ e = at.d)
      BY <1>1, <1>2a, <1>2c, <1>3, <2>1, <3>2
    <3> QED
      BY <3>1, <3>2
  <2> QED
    BY <2>2, <2>3, <2>4, <2>5
<1>4. CASE ~(at.l < Len(Difficulty.links)) /\ at.d < Len(Benchmark.difficulties)
  <2>1. AfterLink = At("inserting", at.b, at.d + 1, 0)
    BY <1>4 DEF AfterLink, AfterDifficulty
  <2>2. Positioned(file, AfterLink) /\ AfterLink.stage # "deleting"
    BY <1>1, <1>2, <1>4, <2>1
  <2>3. ASSUME NEW c \in DOMAIN file
        PROVE  /\ Upserted(AfterLink, c) <=> Upserted(at, c)
               /\ Cleared(AfterLink, c) <=> Cleared(at, c)
    BY <1>1, <1>4, <2>1
  <2>4. ASSUME NEW c \in DOMAIN file, NEW e \in DOMAIN file[c].difficulties
        PROVE  Written(AfterLink, c, e) <=> (Written(at, c, e) \/ (c = at.b /\ e = at.d))
    BY <1>1, <1>2, <1>4, <2>1
  <2>5. ASSUME NEW c \in DOMAIN file, NEW e \in DOMAIN file[c].difficulties,
               NEW m \in DOMAIN file[c].difficulties[e].links
        PROVE  Linked(AfterLink, c, e, m) <=>
                 (Linked(at, c, e, m) \/ (c = at.b /\ e = at.d /\ m = at.l))
    <3>1. CASE c = at.b /\ e = at.d
      BY <1>1, <1>2a, <1>2c, <1>4, <2>1, <3>1
    <3>2. CASE c = at.b /\ e # at.d
      <4>1. e \in Nat
        BY <1>2a, <3>2
      <4> QED
        BY <1>1, <1>2a, <1>4, <2>1, <3>2, <4>1
    <3>3. CASE c # at.b
      BY <1>1, <1>2a, <1>4, <2>1, <3>3
    <3> QED
      BY <3>1, <3>2, <3>3
  <2> QED
    BY <2>2, <2>3, <2>4, <2>5
<1>5. CASE ~(at.l < Len(Difficulty.links)) /\ ~(at.d < Len(Benchmark.difficulties)) /\ at.b < Len(file)
  <2>1. AfterLink = At("upserting", at.b + 1, 0, 0)
    BY <1>5 DEF AfterLink, AfterDifficulty, AfterBenchmark
  <2>2. Positioned(file, AfterLink) /\ AfterLink.stage # "deleting"
    BY <1>1, <1>2, <1>5, <2>1
  <2>3. ASSUME NEW c \in DOMAIN file
        PROVE  /\ Upserted(AfterLink, c) <=> Upserted(at, c)
               /\ Cleared(AfterLink, c) <=> Cleared(at, c)
    BY <1>1, <1>5, <2>1
  <2>4. ASSUME NEW c \in DOMAIN file, NEW e \in DOMAIN file[c].difficulties
        PROVE  Written(AfterLink, c, e) <=> (Written(at, c, e) \/ (c = at.b /\ e = at.d))
    BY <1>1, <1>2, <1>5, <2>1
  <2>5. ASSUME NEW c \in DOMAIN file, NEW e \in DOMAIN file[c].difficulties,
               NEW m \in DOMAIN file[c].difficulties[e].links
        PROVE  Linked(AfterLink, c, e, m) <=>
                 (Linked(at, c, e, m) \/ (c = at.b /\ e = at.d /\ m = at.l))
    <3>1. CASE c = at.b /\ e = at.d
      BY <1>1, <1>2a, <1>2c, <1>5, <2>1, <3>1
    <3>2. CASE c = at.b /\ e # at.d
      <4>1. e \in Nat /\ e <= Len(Benchmark.difficulties)
        BY <1>2a, <3>2
      <4> QED
        BY <1>1, <1>2a, <1>5, <2>1, <3>2, <4>1
    <3>3. CASE c # at.b
      BY <1>1, <1>2a, <1>5, <2>1, <3>3
    <3> QED
      BY <3>1, <3>2, <3>3
  <2> QED
    BY <2>2, <2>3, <2>4, <2>5
<1>6. CASE ~(at.l < Len(Difficulty.links)) /\ ~(at.d < Len(Benchmark.difficulties)) /\ ~(at.b < Len(file))
  <2>1. AfterLink = At("committing", 0, 0, 0)
    BY <1>6 DEF AfterLink, AfterDifficulty, AfterBenchmark
  <2> QED
    BY <1>1, <1>2, <1>6, <2>1
<1> QED
  BY <1>3, <1>4, <1>5, <1>6

-----------------------------------------------------------------------------
(* One statement at a time *)

\* Statement p clears benchmark b, inserts its difficulty d, or its link l; q is next.
Clears(f, p, q, b) ==
  \A c \in DOMAIN f :
    /\ Upserted(q, c) <=> Upserted(p, c)
    /\ Cleared(q, c) <=> (Cleared(p, c) \/ c = b)
    /\ \A e \in DOMAIN f[c].difficulties :
         /\ Written(q, c, e) <=> Written(p, c, e)
         /\ \A m \in DOMAIN f[c].difficulties[e].links : Linked(q, c, e, m) <=> Linked(p, c, e, m)

Inserts(f, p, q, b, d) ==
  \A c \in DOMAIN f :
    /\ Upserted(q, c) <=> Upserted(p, c)
    /\ Cleared(q, c) <=> Cleared(p, c)
    /\ \A e \in DOMAIN f[c].difficulties :
         /\ Written(q, c, e) <=> (Written(p, c, e) \/ (c = b /\ e = d))
         /\ \A m \in DOMAIN f[c].difficulties[e].links : Linked(q, c, e, m) <=> Linked(p, c, e, m)

Links(f, p, q, b, d, l) ==
  \A c \in DOMAIN f :
    /\ Upserted(q, c) <=> Upserted(p, c)
    /\ Cleared(q, c) <=> Cleared(p, c)
    /\ \A e \in DOMAIN f[c].difficulties :
         /\ Written(q, c, e) <=> Written(p, c, e)
         /\ \A m \in DOMAIN f[c].difficulties[e].links :
              Linked(q, c, e, m) <=> (Linked(p, c, e, m) \/ (c = b /\ e = d /\ m = l))

\* What is written so far has its rows; old rows have theirs.
LEMMA DraftHas ==
  ASSUME NEW t, NEW f, NEW dr, NEW p, DraftIs(t, f, dr, p)
  PROVE  /\ \A c \in DOMAIN f : \A e \in DOMAIN f[c].difficulties :
              Written(p, c, e) => DiffRow(f, c, e) \in dr.difficulties
         /\ \A y : Old(t, f, p, y) => y \in dr.difficulties
         /\ \A c, e, m : Linked(p, c, e, m) => Written(p, c, e)
         /\ \A c, e, m : LinkRow(f, c, e, m).kid = DiffRow(f, c, e).kid
  BY DraftRows DEF HasDifficulty, Linked, Written, LinkRow, DiffRow

Gone(t, f) == {d \in t.difficulties : d.benchmark \notin Names(f)}

Removed(t, f) == [Without(t, Gone(t, f)) EXCEPT !.benchmarks = {b \in @ : b.name \in Names(f)}]

\* DELETE of the benchmarks that are not listed.
LEMMA RemovedDraft ==
  ASSUME NEW t, NEW f, NEW p, Recorded(t), UniqueKids(t.difficulties),
         \A x \in t.links : \E y \in t.difficulties : y.kid = x.kid,
         \A c \in DOMAIN f : /\ ~Upserted(p, c) /\ ~Cleared(p, c)
                             /\ \A e, m : ~Written(p, c, e) /\ ~Linked(p, c, e, m),
         NEW dr, dr = Removed(t, f)
  PROVE  DraftIs(t, f, dr, p) /\ UniqueKids(dr.difficulties) /\ Recorded(dr)
<1>1. dr = [benchmarks |-> {b \in t.benchmarks : b.name \in Names(f)},
            difficulties |-> t.difficulties \ Gone(t, f),
            links |-> {link \in t.links : \A d \in Gone(t, f) : link.kid # d.kid}]
  BY DEF Without, Recorded, Removed
<1>2. \A x : Old(t, f, p, x) <=> x \in t.difficulties \ Gone(t, f)
  BY DEF Old, Gone
<1>3. \A x : x \in dr.links <=> HasLink(t, f, p, x)
  <2>1. ASSUME NEW x, x \in t.links
        PROVE  (\A d \in Gone(t, f) : x.kid # d.kid) <=> (\E y \in t.difficulties : y.kid = x.kid /\ Old(t, f, p, y))
    <3>1. PICK y \in t.difficulties : y.kid = x.kid
      BY <2>1
    <3>2. \A z \in t.difficulties : z.kid = x.kid => z = y
      BY <3>1 DEF UniqueKids
    <3> QED
      BY <1>2, <3>1, <3>2 DEF Gone
  <2> QED
    BY <1>1, <2>1 DEF HasLink
<1>4. \A x : x \in dr.difficulties <=> HasDifficulty(t, f, p, x)
  BY <1>1, <1>2 DEF HasDifficulty
<1>5. \A x : x \in dr.benchmarks <=> HasBenchmark(t, f, p, x)
  BY <1>1 DEF HasBenchmark
<1>6. UniqueKids(dr.difficulties)
  BY <1>1 DEF UniqueKids
<1> QED
  BY <1>1, <1>3, <1>4, <1>5, <1>6, DraftRows DEF Recorded

\* INSERT INTO benchmarks ... ON CONFLICT DO UPDATE
LEMMA UpsertedDraft ==
  ASSUME NEW t, NEW f \in Files, Accepted(f), NEW dr, NEW p, NEW q, NEW b \in DOMAIN f,
         DraftIs(t, f, dr, p), Recorded(dr), ~Upserted(p, b),
         \A c \in DOMAIN f :
           /\ Upserted(q, c) <=> (Upserted(p, c) \/ c = b)
           /\ Cleared(q, c) <=> Cleared(p, c)
           /\ \A e, m : (Written(q, c, e) <=> Written(p, c, e)) /\ (Linked(q, c, e, m) <=> Linked(p, c, e, m)),
         NEW dr2,
         dr2 = [dr EXCEPT !.benchmarks = {x \in @ : x.name # f[b].name} \cup {BenchRow(f, b)}]
  PROVE  DraftIs(t, f, dr2, q) /\ dr2.difficulties = dr.difficulties /\ Recorded(dr2)
<1>1. dr2 = [benchmarks |-> {x \in dr.benchmarks : x.name # f[b].name} \cup {BenchRow(f, b)},
             difficulties |-> dr.difficulties, links |-> dr.links]
  BY DEF Recorded
<1>2. \A x : x \in dr.benchmarks <=> HasBenchmark(t, f, p, x)
  BY DraftRows
<1>3. \A c \in DOMAIN f : f[c].name = f[b].name => c = b
  BY AcceptedRows
<1>4. \A x : x \in dr2.benchmarks <=> HasBenchmark(t, f, q, x)
  BY <1>1, <1>2, <1>3 DEF HasBenchmark, BenchRow
<1>5. \A x : Old(t, f, q, x) <=> Old(t, f, p, x)
  BY DEF Old
<1>6. \A x : (HasDifficulty(t, f, q, x) <=> HasDifficulty(t, f, p, x)) /\ (HasLink(t, f, q, x) <=> HasLink(t, f, p, x))
  BY <1>5 DEF HasDifficulty, HasLink
<1> QED
  BY <1>1, <1>4, <1>6, DraftRows DEF Recorded

\* DELETE of the difficulties of one benchmark
LEMMA ClearedDraft ==
  ASSUME NEW t, NEW f \in Files, Accepted(f), NEW dr, NEW p, NEW q, NEW b \in DOMAIN f,
         DraftIs(t, f, dr, p), Recorded(dr), UniqueKids(dr.difficulties),
         \A e : ~Written(p, b, e),
         Clears(f, p, q, b),
         NEW dr2,
         dr2 = Without(dr, {x \in dr.difficulties : x.benchmark = f[b].name})
  PROVE  DraftIs(t, f, dr2, q) /\ UniqueKids(dr2.difficulties) /\ Recorded(dr2)
<1> USE DEF Clears
<1> DEFINE gone == {x \in dr.difficulties : x.benchmark = f[b].name}
<1>1. dr2 = [benchmarks |-> dr.benchmarks, difficulties |-> dr.difficulties \ gone,
             links |-> {x \in dr.links : \A y \in gone : x.kid # y.kid}]
  BY DEF Without, Recorded
<1>2. \A c \in DOMAIN f : f[c].name = f[b].name => c = b
  BY AcceptedRows
<1>3. \A x : Old(t, f, q, x) <=> Old(t, f, p, x) /\ x.benchmark # f[b].name
  BY DEF Old
<1>4. ASSUME NEW c \in DOMAIN f, NEW e \in DOMAIN f[c].difficulties, Written(p, c, e)
      PROVE  DiffRow(f, c, e) \in dr.difficulties /\ DiffRow(f, c, e) \notin gone
  BY <1>2, <1>4, DraftHas DEF DiffRow
<1>5. \A x : x \in dr2.difficulties <=> HasDifficulty(t, f, q, x)
  <2>1. \A x : x \in dr.difficulties <=> HasDifficulty(t, f, p, x)
    BY DraftRows
  <2> QED
    BY <1>1, <1>3, <1>4, <2>1 DEF HasDifficulty
<1>6. \A x : x \in dr2.links <=> HasLink(t, f, q, x)
  <2>1. \A x : x \in dr.links <=> HasLink(t, f, p, x)
    BY DraftRows
  <2>2. ASSUME NEW x \in dr.links, \A y \in gone : x.kid # y.kid
        PROVE  HasLink(t, f, q, x)
    <3>1. CASE \E y \in t.difficulties : y.kid = x.kid /\ Old(t, f, p, y)
      BY <1>3, <2>2, <3>1, DraftHas, <2>1 DEF HasLink
    <3> QED
      BY <2>1, <3>1 DEF HasLink
  <2>3. ASSUME NEW x, HasLink(t, f, q, x)
        PROVE  x \in dr.links /\ \A y \in gone : x.kid # y.kid
    <3>1. CASE x \in t.links /\ \E y \in t.difficulties : y.kid = x.kid /\ Old(t, f, q, y)
      <4>1. PICK y \in t.difficulties : y.kid = x.kid /\ Old(t, f, q, y)
        BY <3>1
      <4>2. Old(t, f, p, y) /\ y \in dr.difficulties /\ y \notin gone
        BY <1>3, <4>1, DraftHas
      <4> QED
        BY <2>1, <3>1, <4>1, <4>2 DEF HasLink, UniqueKids
    <3>2. CASE \E c \in DOMAIN f : \E e \in DOMAIN f[c].difficulties :
                 \E m \in DOMAIN f[c].difficulties[e].links : Linked(q, c, e, m) /\ x = LinkRow(f, c, e, m)
      <4>1. PICK c \in DOMAIN f : \E e \in DOMAIN f[c].difficulties :
                 \E m \in DOMAIN f[c].difficulties[e].links : Linked(q, c, e, m) /\ x = LinkRow(f, c, e, m)
        BY <3>2
      <4>2. PICK e \in DOMAIN f[c].difficulties :
                 \E m \in DOMAIN f[c].difficulties[e].links : Linked(q, c, e, m) /\ x = LinkRow(f, c, e, m)
        BY <4>1
      <4>3. PICK m \in DOMAIN f[c].difficulties[e].links : Linked(q, c, e, m) /\ x = LinkRow(f, c, e, m)
        BY <4>2
      <4>4. Linked(p, c, e, m) /\ Written(p, c, e) /\ x.kid = DiffRow(f, c, e).kid
        BY <4>3, DraftHas
      <4>5. DiffRow(f, c, e) \in dr.difficulties /\ DiffRow(f, c, e) \notin gone
        BY <1>4, <4>4
      <4>6. x \in dr.links
        BY <2>1, <4>3, <4>4 DEF HasLink
      <4> QED
        BY <4>4, <4>5, <4>6 DEF UniqueKids
    <3> QED
      BY <2>3, <3>1, <3>2 DEF HasLink
  <2> QED
    BY <1>1, <2>2, <2>3
<1>7. \A x : x \in dr2.benchmarks <=> HasBenchmark(t, f, q, x)
  BY <1>1, DraftRows DEF HasBenchmark
<1>8. UniqueKids(dr2.difficulties)
  BY <1>1 DEF UniqueKids
<1> QED
  BY <1>1, <1>5, <1>6, <1>7, <1>8, DraftRows DEF Recorded

WithDifficulty(dr, row) == [dr EXCEPT !.difficulties = @ \cup {row}]

FreeKid(difficulties, kid) == \A x \in difficulties : x.kid # kid

\* INSERT INTO benchmark_difficulties
LEMMA InsertedDraft ==
  ASSUME NEW t, NEW f \in Files, NEW dr, NEW p, NEW q, NEW b \in DOMAIN f, NEW d \in DOMAIN f[b].difficulties,
         DraftIs(t, f, dr, p), Recorded(dr), UniqueKids(dr.difficulties),
         FreeKid(dr.difficulties, DiffRow(f, b, d).kid),
         Inserts(f, p, q, b, d),
         NEW dr2,
         dr2 = WithDifficulty(dr, DiffRow(f, b, d))
  PROVE  DraftIs(t, f, dr2, q) /\ UniqueKids(dr2.difficulties) /\ Recorded(dr2)
<1> USE DEF Inserts, FreeKid
<1>1. dr2 = [benchmarks |-> dr.benchmarks, difficulties |-> dr.difficulties \cup {DiffRow(f, b, d)},
             links |-> dr.links]
  BY DEF Recorded, WithDifficulty
<1>2. \A x : Old(t, f, q, x) <=> Old(t, f, p, x)
  BY DEF Old
<1>3. \A x : x \in dr2.difficulties <=> HasDifficulty(t, f, q, x)
  <2>1. \A x : x \in dr.difficulties <=> HasDifficulty(t, f, p, x)
    BY DraftRows
  <2> QED
    BY <1>1, <1>2, <2>1 DEF HasDifficulty
<1>4. \A x : (HasBenchmark(t, f, q, x) <=> HasBenchmark(t, f, p, x)) /\ (HasLink(t, f, q, x) <=> HasLink(t, f, p, x))
  BY <1>2 DEF HasBenchmark, HasLink
<1>5. UniqueKids(dr2.difficulties)
  BY <1>1 DEF UniqueKids
<1> QED
  BY <1>1, <1>3, <1>4, <1>5, DraftRows DEF Recorded

\* INSERT INTO benchmark_scenario_links ... ON CONFLICT DO UPDATE: nothing is replaced.
LEMMA LinkedDraft ==
  ASSUME NEW t, NEW f \in Files, Accepted(f), NEW dr, NEW p, NEW q, NEW b \in DOMAIN f,
         NEW d \in DOMAIN f[b].difficulties, NEW l \in DOMAIN f[b].difficulties[d].links,
         DraftIs(t, f, dr, p), Recorded(dr), UniqueKids(dr.difficulties),
         Written(p, b, d), Cleared(p, b), ~Linked(p, b, d, l),
         Links(f, p, q, b, d, l),
         NEW dr2,
         dr2 = [dr EXCEPT !.links =
                  {x \in @ : x.kid # DiffRow(f, b, d).kid \/ x.scenario # f[b].difficulties[d].links[l]}
                  \cup {LinkRow(f, b, d, l)}]
  PROVE  DraftIs(t, f, dr2, q) /\ dr2.difficulties = dr.difficulties /\ Recorded(dr2)
<1> USE DEF Links
<1>1. \A x : x \in dr.links <=> HasLink(t, f, p, x)
  BY DraftRows
<1>2. ASSUME NEW x \in dr.links, x.kid = DiffRow(f, b, d).kid, x.scenario = f[b].difficulties[d].links[l]
      PROVE  FALSE
  <2>1. CASE \E y \in t.difficulties : y.kid = x.kid /\ Old(t, f, p, y)
    <3>1. PICK y \in t.difficulties : y.kid = x.kid /\ Old(t, f, p, y)
      BY <2>1
    <3>2. y = DiffRow(f, b, d)
      BY <1>2, <3>1, DraftHas DEF UniqueKids
    <3>3. y.benchmark # f[b].name
      BY <3>1 DEF Old
    <3> QED
      BY <3>2, <3>3 DEF DiffRow
  <2>2. CASE \E c \in DOMAIN f : \E e \in DOMAIN f[c].difficulties :
               \E m \in DOMAIN f[c].difficulties[e].links : Linked(p, c, e, m) /\ x = LinkRow(f, c, e, m)
    <3>1. PICK c \in DOMAIN f : \E e \in DOMAIN f[c].difficulties :
               \E m \in DOMAIN f[c].difficulties[e].links : Linked(p, c, e, m) /\ x = LinkRow(f, c, e, m)
      BY <2>2
    <3>2. PICK e \in DOMAIN f[c].difficulties :
               \E m \in DOMAIN f[c].difficulties[e].links : Linked(p, c, e, m) /\ x = LinkRow(f, c, e, m)
      BY <3>1
    <3>3. PICK m \in DOMAIN f[c].difficulties[e].links : Linked(p, c, e, m) /\ x = LinkRow(f, c, e, m)
      BY <3>2
    <3>4. c = b /\ e = d
      BY <1>2, <3>3, AcceptedRows, DraftHas
    <3>5. f[b].difficulties[d].links[m] = f[b].difficulties[d].links[l]
      BY <1>2, <3>3, <3>4 DEF LinkRow
    <3>6. m = l
      BY <3>3, <3>4, <3>5, FilesAssumption
    <3> QED
      BY <3>3, <3>4, <3>6
  <2> QED
    BY <1>1, <1>2, <2>1, <2>2 DEF HasLink
<1>3. dr2 = [benchmarks |-> dr.benchmarks, difficulties |-> dr.difficulties,
             links |-> dr.links \cup {LinkRow(f, b, d, l)}]
  BY <1>2 DEF Recorded
<1>4. \A x : Old(t, f, q, x) <=> Old(t, f, p, x)
  BY DEF Old
<1>5. \A x : x \in dr2.links <=> HasLink(t, f, q, x)
  BY <1>1, <1>3, <1>4 DEF HasLink
<1>6. \A x : /\ HasBenchmark(t, f, q, x) <=> HasBenchmark(t, f, p, x)
             /\ HasDifficulty(t, f, q, x) <=> HasDifficulty(t, f, p, x)
  BY <1>4 DEF HasBenchmark, HasDifficulty
<1> QED
  BY <1>3, <1>5, <1>6, DraftRows DEF Recorded

\* At the COMMIT nothing is missing and nothing is left over.
LEMMA CommittedDraft ==
  ASSUME NEW t, NEW f, NEW dr, NEW p, DraftIs(t, f, dr, p), Recorded(dr), p.stage = "committing"
  PROVE  dr = Image(f)
<1>1. \A x : ~Old(t, f, p, x)
  BY DEF Old, Names, Cleared
<1>2. \A x : x \in dr.benchmarks <=> x \in Image(f).benchmarks
  BY DraftRows, ImageRows DEF HasBenchmark, Upserted, Names
<1>3. \A x : x \in dr.difficulties <=> x \in Image(f).difficulties
  BY <1>1, DraftRows, ImageRows DEF HasDifficulty, Written
<1>4. \A x : x \in dr.links <=> x \in Image(f).links
  BY <1>1, DraftRows, ImageRows DEF HasLink, Linked
<1>5. /\ dr.benchmarks = Image(f).benchmarks /\ dr.difficulties = Image(f).difficulties
      /\ dr.links = Image(f).links
  BY <1>2, <1>3, <1>4
<1>6. Recorded(Image(f))
  BY ImageRows
<1> QED
  BY <1>5, <1>6 DEF Recorded

-----------------------------------------------------------------------------
(* The invariant *)

\* Empty tables are the image of the empty file.
THEOREM ImageInit == Init => ImageInv
  BY IdleStage DEF Init, ImageInv, Empty, Recorded

\* A transaction that breaks off leaves the tables as they were.
LEMMA EndsImage ==
  ASSUME ImageInv, NEW how, Ends(how), UNCHANGED <<tables, synced>>
  PROVE  ImageInv'
  BY IdleStage DEF ImageInv, Ends, Empty, Recorded

\* A transaction begins with the committed tables as its draft.
LEMMA BeginImage ==
  ASSUME ImageInv, Begin
  PROVE  ImageInv'
<1>1. PICK f \in Files :
        /\ file' = f
        /\ IF Accepted(f)
             THEN at' = At("deleting", 0, 0, 0) /\ draft' = tables
             ELSE UNCHANGED <<at, draft>>
  BY DEF Begin
<1>2. at = Idle /\ UNCHANGED <<tables, synced>>
  BY DEF Begin
<1>3. CASE Accepted(f)
  <2>1. at' = At("deleting", 0, 0, 0) /\ draft' = tables
    BY <1>1, <1>3
  <2>2. Positioned(file', at') /\ DOMAIN at' = Place /\ at'.stage = "deleting"
    BY <2>1 DEF At, Positioned, Place
  <2> QED
    BY <1>1, <1>2, <1>3, <2>1, <2>2 DEF ImageInv
<1>4. CASE ~Accepted(f)
  BY <1>1, <1>2, <1>4 DEF ImageInv
<1> QED
  BY <1>3, <1>4

\* The DELETE of the benchmarks the file does not list.
LEMMA DeleteImage ==
  ASSUME ImageInv, DeleteRemoved
  PROVE  ImageInv'
<1>1. /\ at' = AfterBenchmark /\ draft' = Removed(tables, file) /\ at.b = 0
      /\ UNCHANGED <<tables, synced, file>> /\ file \in Files /\ Accepted(file)
  BY IdleStage DEF DeleteRemoved, ImageInv, Positioned, Removed, Gone
<1>2. Recorded(tables)
  BY DEF ImageInv
<1>3. /\ DraftIs(tables, file, draft', AfterBenchmark) /\ UniqueKids(draft'.difficulties)
      /\ Recorded(draft')
  BY <1>1, <1>2, KeptTables, FirstPlace, RemovedDraft
<1> QED
  BY <1>1, <1>3, FirstPlace, NextStages DEF ImageInv

\* The upsert of a benchmark.
LEMMA UpsertImage ==
  ASSUME ImageInv, UpsertBenchmark
  PROVE  ImageInv'
<1>1. /\ file \in Files /\ Accepted(file) /\ Positioned(file, at) /\ at.stage = "upserting"
      /\ DraftIs(tables, file, draft, at) /\ UniqueKids(draft.difficulties) /\ Recorded(draft)
      /\ at.b \in DOMAIN file /\ DOMAIN at = Place
  BY IdleStage DEF ImageInv, UpsertBenchmark, Positioned
<1>2. /\ at' = [at EXCEPT !.stage = "clearing"]
      /\ draft' = [draft EXCEPT !.benchmarks = {x \in @ : x.name # file[at.b].name} \cup {BenchRow(file, at.b)}]
      /\ UNCHANGED <<tables, synced, file>>
  BY DEF UpsertBenchmark, Benchmark, BenchRow
<1>3. /\ at'.stage = "clearing" /\ at'.b = at.b /\ at'.d = at.d /\ at'.l = at.l /\ DOMAIN at' = Place
  BY <1>1, <1>2 DEF Place
<1>4. ~Upserted(at, at.b)
  BY <1>1, FileShape DEF Upserted
<1>5. \A c \in DOMAIN file :
        /\ Upserted(at', c) <=> (Upserted(at, c) \/ c = at.b)
        /\ Cleared(at', c) <=> Cleared(at, c)
        /\ \A e, m : /\ Written(at', c, e) <=> Written(at, c, e)
                     /\ Linked(at', c, e, m) <=> Linked(at, c, e, m)
  BY <1>1, <1>3 DEF Upserted, Cleared, Written, Linked
<1>6. DraftIs(tables, file, draft', at') /\ draft'.difficulties = draft.difficulties /\ Recorded(draft')
  BY <1>1, <1>2, <1>4, <1>5, UpsertedDraft
<1>7. Positioned(file, at')
  BY <1>1, <1>3 DEF Positioned
<1> QED
  BY <1>1, <1>2, <1>3, <1>6, <1>7 DEF ImageInv

\* The DELETE of the difficulties of a benchmark.
LEMMA ClearImage ==
  ASSUME ImageInv, ClearHierarchy
  PROVE  ImageInv'
<1>1. /\ file \in Files /\ Accepted(file) /\ Positioned(file, at) /\ at.stage = "clearing"
      /\ DraftIs(tables, file, draft, at) /\ UniqueKids(draft.difficulties) /\ Recorded(draft)
      /\ at.b \in DOMAIN file
  BY IdleStage DEF ImageInv, ClearHierarchy, Positioned
<1>2. /\ at' = AfterDifficulty
      /\ draft' = Without(draft, {x \in draft.difficulties : x.benchmark = file[at.b].name})
      /\ UNCHANGED <<tables, synced, file>>
  BY DEF ClearHierarchy, Benchmark
<1>3. \A e : ~Written(at, at.b, e)
  BY <1>1, FileShape DEF Written
<1>4. Clears(file, at, at', at.b)
  BY <1>1, <1>2, ClearedPlace DEF Clears
<1>5. DraftIs(tables, file, draft', at') /\ UniqueKids(draft'.difficulties) /\ Recorded(draft')
  BY <1>1, <1>2, <1>3, <1>4, ClearedDraft
<1> QED
  BY <1>1, <1>2, <1>5, ClearedPlace, NextStages DEF ImageInv

\* The INSERT of a difficulty.
LEMMA InsertImage ==
  ASSUME ImageInv, InsertDifficulty
  PROVE  ImageInv'
<1>1. /\ file \in Files /\ Accepted(file) /\ Positioned(file, at) /\ at.stage = "inserting"
      /\ DraftIs(tables, file, draft, at) /\ UniqueKids(draft.difficulties) /\ Recorded(draft)
      /\ at.b \in DOMAIN file /\ at.d \in DOMAIN file[at.b].difficulties /\ at.l = 0
  BY IdleStage DEF ImageInv, InsertDifficulty, Positioned
<1>2. NewDifficulty = DiffRow(file, at.b, at.d)
  BY DEF NewDifficulty, DiffRow, Difficulty, Benchmark
<1>3. /\ at' = AfterLink
      /\ draft' = WithDifficulty(draft, DiffRow(file, at.b, at.d))
      /\ UNCHANGED <<tables, synced, file>>
  BY <1>2 DEF InsertDifficulty, WithDifficulty
<1>4. FreeKid(draft.difficulties, DiffRow(file, at.b, at.d).kid)
  BY <1>2 DEF InsertDifficulty, Collides, FreeKid
<1>5. Inserts(file, at, at', at.b, at.d)
  <2>1. ASSUME NEW c \in DOMAIN file, NEW e \in DOMAIN file[c].difficulties,
               NEW m \in DOMAIN file[c].difficulties[e].links
        PROVE  m # 0
    BY <1>1, FileShape
  <2> QED
    BY <1>1, <1>3, <2>1, LinkedPlace DEF Inserts
<1>6. DraftIs(tables, file, draft', at') /\ UniqueKids(draft'.difficulties) /\ Recorded(draft')
  <2>1. /\ file \in Files /\ at.b \in DOMAIN file /\ at.d \in DOMAIN file[at.b].difficulties
        /\ DraftIs(tables, file, draft, at) /\ Recorded(draft) /\ UniqueKids(draft.difficulties)
    BY <1>1
  <2>2. draft' = WithDifficulty(draft, DiffRow(file, at.b, at.d))
    BY <1>3
  <2> QED
    BY ONLY <2>1, <2>2, <1>4, <1>5, InsertedDraft
<1> QED
  BY <1>1, <1>3, <1>6, LinkedPlace, NextStages DEF ImageInv

\* Looking a scenario up moves nothing.
LEMMA EnsureImage ==
  ASSUME ImageInv, EnsureScenario
  PROVE  ImageInv'
<1>1. /\ file \in Files /\ Accepted(file) /\ Positioned(file, at) /\ at.stage = "ensuring"
      /\ DraftIs(tables, file, draft, at) /\ UniqueKids(draft.difficulties) /\ DOMAIN at = Place
  BY IdleStage DEF ImageInv, EnsureScenario
<1>2. at' = [at EXCEPT !.stage = "linking"] /\ UNCHANGED <<tables, synced, file, draft>>
  BY DEF EnsureScenario
<1>3. at'.stage = "linking" /\ at'.b = at.b /\ at'.d = at.d /\ at'.l = at.l /\ DOMAIN at' = Place
  BY <1>1, <1>2 DEF Place
<1>4. \A c, e, m :
        /\ Upserted(at', c) <=> Upserted(at, c)
        /\ Cleared(at', c) <=> Cleared(at, c)
        /\ Written(at', c, e) <=> Written(at, c, e)
        /\ Linked(at', c, e, m) <=> Linked(at, c, e, m)
  BY <1>1, <1>3 DEF Upserted, Cleared, Written, Linked
<1>5. \A x : Old(tables, file, at', x) <=> Old(tables, file, at, x)
  BY <1>4 DEF Old
<1>6. DraftIs(tables, file, draft, at')
  <2>1. \A x : HasBenchmark(tables, file, at', x) <=> HasBenchmark(tables, file, at, x)
    BY <1>4 DEF HasBenchmark
  <2>2. \A x : HasDifficulty(tables, file, at', x) <=> HasDifficulty(tables, file, at, x)
    BY <1>4, <1>5 DEF HasDifficulty
  <2>3. \A x : HasLink(tables, file, at', x) <=> HasLink(tables, file, at, x)
    BY <1>4, <1>5 DEF HasLink
  <2> QED
    BY <1>1, <2>1, <2>2, <2>3, DraftRows
<1>7. Positioned(file, at')
  BY <1>1, <1>3 DEF Positioned
<1> QED
  BY <1>1, <1>2, <1>3, <1>6, <1>7 DEF ImageInv

\* The upsert of a link.
LEMMA LinkImage ==
  ASSUME ImageInv, InsertLink
  PROVE  ImageInv'
<1>1. /\ file \in Files /\ Accepted(file) /\ Positioned(file, at) /\ at.stage = "linking"
      /\ DraftIs(tables, file, draft, at) /\ UniqueKids(draft.difficulties) /\ Recorded(draft)
      /\ at.b \in DOMAIN file /\ at.d \in DOMAIN file[at.b].difficulties
      /\ at.l \in DOMAIN file[at.b].difficulties[at.d].links
  BY IdleStage DEF ImageInv, InsertLink, Positioned
<1>2. /\ Difficulty.kid = DiffRow(file, at.b, at.d).kid
      /\ Scenario = file[at.b].difficulties[at.d].links[at.l]
      /\ [kid |-> Difficulty.kid, scenario |-> Scenario, sort |-> at.l - 1] = LinkRow(file, at.b, at.d, at.l)
  BY DEF Difficulty, Benchmark, Scenario, DiffRow, LinkRow
<1>3. /\ at' = AfterLink
      /\ draft' = [draft EXCEPT !.links =
           {x \in @ : x.kid # DiffRow(file, at.b, at.d).kid
                      \/ x.scenario # file[at.b].difficulties[at.d].links[at.l]}
           \cup {LinkRow(file, at.b, at.d, at.l)}]
      /\ UNCHANGED <<tables, synced, file>>
  BY <1>2 DEF InsertLink
<1>4. Written(at, at.b, at.d) /\ Cleared(at, at.b) /\ ~Linked(at, at.b, at.d, at.l)
  BY <1>1, FileShape DEF Written, Cleared, Linked
<1>5. Links(file, at, at', at.b, at.d, at.l)
  BY <1>1, <1>3, <1>4, LinkedPlace DEF Links
<1>6. DraftIs(tables, file, draft', at') /\ draft'.difficulties = draft.difficulties /\ Recorded(draft')
  BY <1>1, <1>3, <1>4, <1>5, LinkedDraft
<1> QED
  BY <1>1, <1>3, <1>6, LinkedPlace, NextStages DEF ImageInv

\* At its COMMIT the draft is the image of the file.
LEMMA CommitImage ==
  ASSUME ImageInv, Commit
  PROVE  ImageInv'
<1>1. /\ file \in Files /\ Accepted(file) /\ at.stage = "committing"
      /\ DraftIs(tables, file, draft, at) /\ Recorded(draft)
  BY IdleStage DEF ImageInv, Commit
<1>2. tables' = Image(file) /\ synced' = file /\ at' = Idle /\ draft' = Empty
  BY <1>1, CommittedDraft DEF Commit, Ends
<1>3. Recorded(Image(file)) /\ file # None
  BY <1>1, ImageRows, FilesAssumption
<1> QED
  BY <1>1, <1>2, <1>3, IdleStage DEF ImageInv, Empty, Recorded

\* Every step keeps the draft what its place in the file says.
LEMMA ImageStep == ImageInv /\ [Next]_vars => ImageInv'
<1> SUFFICES ASSUME ImageInv, [Next]_vars
             PROVE  ImageInv'
  OBVIOUS
<1>1. CASE Begin \/ DeleteRemoved \/ UpsertBenchmark \/ ClearHierarchy \/ InsertDifficulty
  BY <1>1, BeginImage, DeleteImage, UpsertImage, ClearImage, InsertImage
<1>2. CASE EnsureScenario \/ InsertLink \/ Commit
  BY <1>2, EnsureImage, LinkImage, CommitImage
<1>3. CASE RefuseNames \/ RefuseBenchmark \/ RefuseDifficulty \/ RefuseScenario
  BY <1>3, EndsImage DEF RefuseNames, RefuseBenchmark, RefuseDifficulty, RefuseScenario, Refuse
<1>3a. CASE ScenarioNotFound \/ Abort
  BY <1>3a, EndsImage DEF ScenarioNotFound, Abort
<1>4. CASE \E name \in Scenarios : ApiInserts(name) \/ ApiEnds(name)
  BY <1>4 DEF ApiInserts, ApiEnds, tx, ImageInv
<1>5. CASE UNCHANGED vars
  BY <1>5 DEF vars, tx, ImageInv
<1> QED
  BY <1>1, <1>2, <1>3, <1>3a, <1>4, <1>5 DEF Next

\* After any sequence of syncs, completed, refused or broken off at any statement,
\* the tables are the image of the last file that was committed.
THEOREM TablesAlwaysImage == Spec => []TablesAreImage
<1>1. ImageInv => TablesAreImage
  BY DEF ImageInv, TablesAreImage
<1> QED
  BY ImageInit, ImageStep, <1>1, PTL DEF Spec

-----------------------------------------------------------------------------
(* Which files are refused *)

\* What is written at p has met neither an old row with its kovaaks id nor a row
\* with its name.
Apart(t, f, p) ==
  /\ \A b, c \in DOMAIN f : b < c =>
       \A d \in DOMAIN f[b].difficulties : \A old \in t.difficulties :
         Written(p, b, d) => (old.kid # f[b].difficulties[d].kid \/ old.benchmark # f[c].name)
  /\ \A b \in DOMAIN f : \A d, e \in DOMAIN f[b].difficulties :
       (Written(p, b, d) /\ Written(p, b, e) /\ d # e) =>
         f[b].difficulties[d].name # f[b].difficulties[e].name

\* What is written at p could be stored.
Stored(f, p) ==
  \A c \in DOMAIN f :
    /\ Upserted(p, c) => Storable(f[c])
    /\ \A e \in DOMAIN f[c].difficulties :
         /\ Written(p, c, e) => Storable(f[c].difficulties[e])
         /\ \A m \in DOMAIN f[c].difficulties[e].links :
              Linked(p, c, e, m) => f[c].difficulties[e].links[m] \notin Unfit

ApartInv ==
  /\ (at # Idle /\ at.stage # "deleting") => Apart(tables, file, at) /\ Stored(file, at)
  /\ outcome = "refused" => MovesUp(file, tables) \/ RepeatsName(file) \/ ~Fits(file)

\* A statement that writes no difficulty leaves them apart.
LEMMA SameApart ==
  ASSUME NEW t, NEW f, NEW p, NEW q, Apart(t, f, p),
         \A c \in DOMAIN f : \A e \in DOMAIN f[c].difficulties : Written(q, c, e) => Written(p, c, e)
  PROVE  Apart(t, f, q)
  BY DEF Apart

\* A statement that writes nothing leaves what is stored.
LEMMA SameStored ==
  ASSUME NEW f, NEW p, NEW q, Stored(f, p),
         \A c \in DOMAIN f :
           /\ Upserted(q, c) => Upserted(p, c)
           /\ \A e \in DOMAIN f[c].difficulties :
                /\ Written(q, c, e) => Written(p, c, e)
                /\ \A m \in DOMAIN f[c].difficulties[e].links : Linked(q, c, e, m) => Linked(p, c, e, m)
  PROVE  Stored(f, q)
  BY DEF Stored

\* Old rows of a benchmark listed later than b are there until it is cleared.
LEMMA LaterIsOld ==
  ASSUME NEW t, NEW f \in Files, Accepted(f), NEW p, NEW old \in t.difficulties,
         NEW c \in DOMAIN f, old.benchmark = f[c].name, ~Cleared(p, c)
  PROVE  Old(t, f, p, old)
<1>1. \A e \in DOMAIN f : f[e].name = f[c].name => e = c
  BY AcceptedRows
<1> QED
  BY <1>1 DEF Old, Names

\* The statement that inserts difficulty d of benchmark b finds nothing in its way.
LEMMA InsertedApart ==
  ASSUME ImageInv, ApartInv, InsertDifficulty
  PROVE  Apart(tables, file, AfterLink)
<1>1. /\ file \in Files /\ Accepted(file) /\ Positioned(file, at) /\ at.stage = "inserting"
      /\ DraftIs(tables, file, draft, at)
      /\ at.b \in DOMAIN file /\ at.d \in DOMAIN file[at.b].difficulties
      /\ Apart(tables, file, at)
  BY IdleStage DEF ImageInv, ApartInv, InsertDifficulty, Positioned
<1>2. \A x \in draft.difficulties :
        /\ x.kid # file[at.b].difficulties[at.d].kid
        /\ x.benchmark = file[at.b].name => x.name # file[at.b].difficulties[at.d].name
  BY DEF InsertDifficulty, Collides, NewDifficulty, Difficulty, Benchmark
<1>3. \A c \in DOMAIN file : \A e \in DOMAIN file[c].difficulties :
        Written(AfterLink, c, e) <=> (Written(at, c, e) \/ (c = at.b /\ e = at.d))
  BY <1>1, LinkedPlace
<1>4. ASSUME NEW c \in DOMAIN file, at.b < c, NEW old \in tables.difficulties,
             old.kid = file[at.b].difficulties[at.d].kid, old.benchmark = file[c].name
      PROVE  FALSE
  <2>1. ~Cleared(at, c)
    BY <1>1, <1>4, FileShape DEF Cleared
  <2>2. Old(tables, file, at, old)
    BY <1>1, <1>4, <2>1, LaterIsOld
  <2> QED
    BY <1>1, <1>2, <1>4, <2>2, DraftHas
<1>5. ASSUME NEW e \in DOMAIN file[at.b].difficulties, Written(at, at.b, e)
      PROVE  file[at.b].difficulties[e].name # file[at.b].difficulties[at.d].name
  <2>1. DiffRow(file, at.b, e) \in draft.difficulties
    BY <1>1, <1>5, DraftHas
  <2> QED
    BY <1>2, <2>1 DEF DiffRow
<1> QED
  BY <1>1, <1>3, <1>4, <1>5 DEF Apart

\* That difficulty can be stored, and so can the link a statement inserts.
LEMMA InsertedStored ==
  ASSUME ImageInv, ApartInv, InsertDifficulty
  PROVE  Stored(file, AfterLink)
<1>1. /\ file \in Files /\ Positioned(file, at) /\ at.stage = "inserting" /\ at.l = 0
      /\ at.b \in DOMAIN file /\ at.d \in DOMAIN file[at.b].difficulties
      /\ Stored(file, at)
  BY IdleStage DEF ImageInv, ApartInv, InsertDifficulty, Positioned
<1>2. Storable(file[at.b].difficulties[at.d])
  BY DEF InsertDifficulty, Difficulty, Benchmark
<1>3. \A c \in DOMAIN file : \A e \in DOMAIN file[c].difficulties :
        \A m \in DOMAIN file[c].difficulties[e].links : m # 0
  BY <1>1, FileShape
<1> QED
  BY <1>1, <1>2, <1>3, LinkedPlace DEF Stored

\* The scenario of a link that is inserted can be stored.
LEMMA LinkedStored ==
  ASSUME ImageInv, ApartInv, InsertLink
  PROVE  Stored(file, AfterLink)
<1>1. /\ file \in Files /\ Positioned(file, at) /\ at.stage = "linking" /\ Stored(file, at)
      /\ at.b \in DOMAIN file /\ at.d \in DOMAIN file[at.b].difficulties
  BY IdleStage DEF ImageInv, ApartInv, InsertLink, Positioned
<1>2. file[at.b].difficulties[at.d].links[at.l] \notin Unfit
  BY DEF InsertLink, Scenario, Difficulty, Benchmark
<1>3. Written(at, at.b, at.d)
  BY <1>1, FileShape DEF Written
<1> QED
  BY <1>1, <1>2, <1>3, LinkedPlace DEF Stored

\* A difficulty is refused because of an old row that a later benchmark still has,
\* of a row with its name that the file has put there itself, or of its own values.
LEMMA RefusalExplained ==
  ASSUME ImageInv, RefuseDifficulty
  PROVE  MovesUp(file, tables) \/ RepeatsName(file) \/ ~Fits(file)
<1>1. /\ file \in Files /\ Accepted(file) /\ Positioned(file, at) /\ at.stage = "inserting"
      /\ DraftIs(tables, file, draft, at)
      /\ at.b \in DOMAIN file /\ at.d \in DOMAIN file[at.b].difficulties
  BY IdleStage DEF ImageInv, RefuseDifficulty, Positioned
<1>1a. CASE ~Collides
  <2>1. ~Storable(file[at.b].difficulties[at.d])
    BY <1>1a DEF RefuseDifficulty, Difficulty, Benchmark
  <2> QED
    BY <1>1, <2>1 DEF Fits
<1> SUFFICES ASSUME Collides PROVE MovesUp(file, tables) \/ RepeatsName(file)
  BY <1>1a
<1>2. PICK x \in draft.difficulties :
        \/ x.kid = file[at.b].difficulties[at.d].kid
        \/ x.benchmark = file[at.b].name /\ x.name = file[at.b].difficulties[at.d].name
  BY DEF Collides, NewDifficulty, Difficulty, Benchmark
<1>3. HasDifficulty(tables, file, at, x)
  BY <1>1, DraftRows
<1>4. CASE Old(tables, file, at, x)
  <2>1. PICK c \in DOMAIN file : x.benchmark = file[c].name
    BY <1>4 DEF Old, Names
  <2>2. ~Cleared(at, c) /\ ~(x.benchmark = file[at.b].name)
    BY <1>1, <1>4, <2>1 DEF Old, Cleared
  <2>3. at.b < c
    BY <1>1, <2>2, FileShape DEF Cleared
  <2>4. x \in tables.difficulties
    BY <1>4 DEF Old
  <2> QED
    BY <1>1, <1>2, <2>1, <2>2, <2>3, <2>4 DEF MovesUp
<1>5. ASSUME NEW c \in DOMAIN file, NEW e \in DOMAIN file[c].difficulties,
             Written(at, c, e), x = DiffRow(file, c, e)
      PROVE  RepeatsName(file)
  <2>1. ~(c = at.b /\ e = at.d)
    BY <1>1, <1>5, FileShape DEF Written
  <2>2. x.kid # DiffRow(file, at.b, at.d).kid
    BY <1>1, <1>5, <2>1, AcceptedRows
  <2>3. x.benchmark = file[at.b].name /\ x.name = file[at.b].difficulties[at.d].name
    BY <1>2, <2>2 DEF DiffRow
  <2>4. x \in Difficulties(file) /\ DiffRow(file, at.b, at.d) \in Difficulties(file)
    BY <1>1, <1>5, ImageRows
  <2> QED
    BY <2>2, <2>3, <2>4 DEF RepeatsName, DiffRow
<1> QED
  BY <1>3, <1>4, <1>5 DEF HasDifficulty

\* Nothing has been refused at first.
THEOREM ApartInit == Init => ApartInv
  BY DEF Init, ApartInv

\* An end with a reason the file gives keeps refusals explained.
LEMMA EndsApart ==
  ASSUME NEW how, Ends(how), UNCHANGED tables,
         how = "refused" => MovesUp(file, tables) \/ RepeatsName(file) \/ ~Fits(file)
  PROVE  ApartInv'
  BY DEF Ends, ApartInv, MovesUp, RepeatsName, Difficulties, Fits

\* Names, a benchmark or a scenario are refused because of their own values.
LEMMA ValuesRefused ==
  ASSUME ImageInv, RefuseNames \/ RefuseBenchmark \/ RefuseScenario
  PROVE  ~Fits(file)
<1>1. at # Idle /\ file \in Files /\ Positioned(file, at)
  BY IdleStage DEF ImageInv, RefuseNames, RefuseBenchmark, RefuseScenario
<1>2. CASE RefuseNames
  <2>1. PICK c \in DOMAIN file : file[c].name \in Unfit
    BY <1>2 DEF RefuseNames, Names
  <2> QED
    BY <2>1 DEF Fits, Storable
<1>3. CASE RefuseBenchmark
  BY <1>1, <1>3 DEF RefuseBenchmark, Positioned, Benchmark, Fits
<1>4. CASE RefuseScenario
  <2>1. /\ at.b \in DOMAIN file /\ at.d \in DOMAIN file[at.b].difficulties
        /\ at.l \in DOMAIN file[at.b].difficulties[at.d].links
    BY <1>1, <1>4 DEF RefuseScenario, Positioned
  <2>2. file[at.b].difficulties[at.d].links[at.l] \in Unfit
    BY <1>4 DEF RefuseScenario, Scenario, Difficulty, Benchmark
  <2> QED
    BY <2>1, <2>2 DEF Fits
<1> QED
  BY <1>2, <1>3, <1>4

\* Every step keeps refusals explained.
LEMMA ApartStep == ImageInv /\ ApartInv /\ [Next]_vars => ApartInv'
<1> SUFFICES ASSUME ImageInv, ApartInv, [Next]_vars
             PROVE  ApartInv'
  OBVIOUS
<1> DEFINE Same == UNCHANGED <<tables, file, outcome>>
<1>0. ASSUME Same, at' # Idle /\ at'.stage # "deleting" => Apart(tables, file, at') /\ Stored(file, at')
      PROVE  ApartInv'
  BY <1>0 DEF ApartInv, Apart, Stored, MovesUp, RepeatsName, Difficulties, Fits, Upserted, Written, Linked
<1>1. CASE Begin
  <2>1. outcome' # "refused" /\ (at' = Idle \/ at'.stage = "deleting")
    BY <1>1 DEF Begin, At
  <2> QED
    BY <2>1 DEF ApartInv
<1>2. CASE DeleteRemoved
  <2>1. file \in Files /\ at.b = 0 /\ at' = AfterBenchmark /\ Same
    BY <1>2, IdleStage DEF DeleteRemoved, ImageInv, Positioned
  <2>2. Apart(tables, file, AfterBenchmark) /\ Stored(file, AfterBenchmark)
    BY <2>1, FirstPlace DEF Apart, Stored
  <2> QED
    BY <1>0, <2>1, <2>2
<1>3. CASE UpsertBenchmark
  <2>1. /\ file \in Files /\ at.stage = "upserting" /\ DOMAIN at = Place /\ Same
        /\ at' = [at EXCEPT !.stage = "clearing"] /\ Apart(tables, file, at)
        /\ Stored(file, at) /\ Storable(file[at.b]) /\ at.b \in DOMAIN file
    BY <1>3, IdleStage DEF UpsertBenchmark, ImageInv, ApartInv, Benchmark, Positioned
  <2>2. at'.stage = "clearing" /\ at'.b = at.b
    BY <2>1 DEF Place
  <2>3. \A c, e : Written(at', c, e) => Written(at, c, e)
    BY <2>1, <2>2 DEF Written
  <2>4. Apart(tables, file, at')
    BY <2>1, <2>3, SameApart
  <2>5. \A c, e, m : /\ Upserted(at', c) => Upserted(at, c) \/ c = at.b
                     /\ Linked(at', c, e, m) => Linked(at, c, e, m)
    BY <2>1, <2>2 DEF Upserted, Linked
  <2>6. Stored(file, at')
    BY <2>1, <2>3, <2>5 DEF Stored
  <2> QED
    BY <1>0, <2>1, <2>4, <2>6
<1>4. CASE ClearHierarchy
  <2>1. /\ file \in Files /\ at.stage = "clearing" /\ Positioned(file, at) /\ Same
        /\ at' = AfterDifficulty /\ Apart(tables, file, at) /\ Stored(file, at)
    BY <1>4, IdleStage DEF ClearHierarchy, ImageInv, ApartInv
  <2>2. Apart(tables, file, at') /\ Stored(file, at')
    BY <2>1, ClearedPlace, SameApart, SameStored
  <2> QED
    BY <1>0, <2>1, <2>2
<1>5. CASE InsertDifficulty
  <2>1. Same /\ at' = AfterLink
    BY <1>5 DEF InsertDifficulty
  <2> QED
    BY <1>0, <1>5, <2>1, InsertedApart, InsertedStored
<1>6. CASE RefuseDifficulty
  BY <1>6, RefusalExplained, EndsApart DEF RefuseDifficulty, Refuse
<1>6a. CASE RefuseNames \/ RefuseBenchmark \/ RefuseScenario
  BY <1>6a, ValuesRefused, EndsApart DEF RefuseNames, RefuseBenchmark, RefuseScenario, Refuse
<1>7. CASE ScenarioNotFound \/ Abort
  BY <1>7, EndsApart DEF ScenarioNotFound, Abort
<1>8. CASE EnsureScenario
  <2>1. /\ at.stage = "ensuring" /\ DOMAIN at = Place /\ Same
        /\ at' = [at EXCEPT !.stage = "linking"] /\ Apart(tables, file, at) /\ Stored(file, at)
    BY <1>8, IdleStage DEF EnsureScenario, ImageInv, ApartInv
  <2>2. at'.stage = "linking" /\ at'.b = at.b /\ at'.d = at.d /\ at'.l = at.l
    BY <2>1 DEF Place
  <2>3. \A c, e, m : /\ Upserted(at', c) => Upserted(at, c)
                     /\ Written(at', c, e) => Written(at, c, e)
                     /\ Linked(at', c, e, m) => Linked(at, c, e, m)
    BY <2>1, <2>2 DEF Upserted, Written, Linked
  <2>4. Apart(tables, file, at') /\ Stored(file, at')
    BY <2>1, <2>3, SameApart, SameStored
  <2> QED
    BY <1>0, <2>1, <2>4
<1>9. CASE InsertLink
  <2>1. /\ file \in Files /\ at.stage = "linking" /\ Positioned(file, at) /\ Same
        /\ at' = AfterLink /\ Apart(tables, file, at)
    BY <1>9, IdleStage DEF InsertLink, ImageInv, ApartInv
  <2>2. Written(at, at.b, at.d)
    BY <2>1, FileShape DEF Written, Positioned
  <2>3. \A c \in DOMAIN file : \A e \in DOMAIN file[c].difficulties :
          Written(at', c, e) => Written(at, c, e)
    BY <2>1, <2>2, LinkedPlace
  <2>4. Apart(tables, file, at')
    BY <2>1, <2>3, SameApart
  <2> QED
    BY <1>0, <1>9, <2>1, <2>4, LinkedStored
<1>10. CASE Commit
  BY <1>10 DEF Commit, Ends, ApartInv
<1>11. CASE (\E name \in Scenarios : ApiInserts(name) \/ ApiEnds(name)) \/ UNCHANGED vars
  <2>1. Same /\ UNCHANGED at
    BY <1>11 DEF ApiInserts, ApiEnds, vars, tx
  <2> QED
    BY <1>0, <2>1 DEF ApartInv
<1> QED
  BY <1>1, <1>2, <1>3, <1>4, <1>5, <1>6, <1>6a, <1>7, <1>8, <1>9, <1>10, <1>11 DEF Next

\* At the COMMIT every difficulty of the file is written.
LEMMA ApartAtCommit ==
  ASSUME NEW t, NEW f \in Files, Accepted(f), NEW p, Apart(t, f, p), p.stage = "committing"
  PROVE  ~MovesUp(f, t) /\ ~RepeatsName(f)
<1>1. \A c, e : Written(p, c, e)
  BY DEF Written
<1>2. ~MovesUp(f, t)
  BY <1>1 DEF MovesUp, Apart
<1>3. ASSUME NEW x \in Difficulties(f), NEW y \in Difficulties(f), x # y,
             x.benchmark = y.benchmark, x.name = y.name
      PROVE  FALSE
  <2>1. PICK b \in DOMAIN f : \E d \in DOMAIN f[b].difficulties : x = DiffRow(f, b, d)
    BY ImageRows
  <2>2. PICK d \in DOMAIN f[b].difficulties : x = DiffRow(f, b, d)
    BY <2>1
  <2>3. PICK c \in DOMAIN f : \E e \in DOMAIN f[c].difficulties : y = DiffRow(f, c, e)
    BY ImageRows
  <2>4. PICK e \in DOMAIN f[c].difficulties : y = DiffRow(f, c, e)
    BY <2>3
  <2>5. f[b].name = f[c].name /\ f[b].difficulties[d].name = f[c].difficulties[e].name
    BY <1>3, <2>2, <2>4 DEF DiffRow
  <2>6. b = c
    BY <2>5, AcceptedRows
  <2>7. d # e
    BY <1>3, <2>2, <2>4, <2>6
  <2> QED
    BY <1>1, <2>5, <2>6, <2>7 DEF Apart
<1> QED
  BY <1>2, <1>3 DEF RepeatsName

\* At the COMMIT every row of the file is stored.
LEMMA StoredAtCommit ==
  ASSUME NEW f, NEW p, Stored(f, p), p.stage = "committing"
  PROVE  Fits(f)
<1>1. \A c, e, m : Upserted(p, c) /\ Written(p, c, e) /\ Linked(p, c, e, m)
  BY DEF Upserted, Written, Linked
<1> QED
  BY <1>1 DEF Stored, Fits

\* For any history of syncs: a file that parses is refused only for one of three
\* reasons, and a transaction that gets as far as its COMMIT had none of them.
THEOREM RefusalsAlwaysExplained == Spec => []RefusalsExplained
<1>1. ASSUME ImageInv, ApartInv
      PROVE  RefusalsExplained
  <2>1. ASSUME at.stage = "committing"
        PROVE  ~MovesUp(file, tables) /\ ~RepeatsName(file) /\ Fits(file)
    <3>1. file \in Files /\ Accepted(file) /\ Apart(tables, file, at) /\ Stored(file, at)
      BY <1>1, <2>1, IdleStage DEF ImageInv, ApartInv
    <3> QED
      BY <2>1, <3>1, ApartAtCommit, StoredAtCommit
  <2> QED
    BY <1>1, <2>1 DEF RefusalsExplained, ApartInv
<1> QED
  BY ImageInit, ImageStep, ApartInit, ApartStep, <1>1, PTL DEF Spec

-----------------------------------------------------------------------------
(* Scenarios that were not found *)

\* A scenario that was missed has been committed, and a snapshot taken since shows it.
MissedInv ==
  /\ missed \subseteq scenarios
  /\ (at.stage = "linking" /\ Scenario \in missed) => visible

\* Nothing has been missed at first.
THEOREM MissedInit == Init => MissedInv
  BY IdleStage DEF Init, MissedInv

\* Scenarios never go away, and every ensureScenario takes a new snapshot.
LEMMA MissedStep == ImageInv /\ MissedInv /\ [Next]_vars => MissedInv'
<1> SUFFICES ASSUME ImageInv, MissedInv, [Next]_vars
             PROVE  MissedInv'
  OBVIOUS
<1> USE NextStages, IdleStage DEF MissedInv
<1>1. CASE Begin
  <2>1. UNCHANGED <<missed, scenarios>> /\ at'.stage # "linking"
    BY <1>1 DEF Begin, At
  <2> QED
    BY <2>1
<1>2. CASE DeleteRemoved \/ ClearHierarchy \/ InsertDifficulty \/ InsertLink
  BY <1>2 DEF DeleteRemoved, ClearHierarchy, InsertDifficulty, InsertLink
<1>3. CASE UpsertBenchmark
  <2>1. UNCHANGED <<missed, scenarios>> /\ at' = [at EXCEPT !.stage = "clearing"]
    BY <1>3 DEF UpsertBenchmark
  <2> QED
    BY <2>1 DEF ImageInv, Place
<1>4. CASE RefuseNames \/ RefuseBenchmark \/ RefuseDifficulty \/ RefuseScenario \/ Abort
  BY <1>4 DEF RefuseNames, RefuseBenchmark, RefuseDifficulty, RefuseScenario, Abort, Refuse, Ends
<1>5. CASE EnsureScenario
  <2>1. /\ UNCHANGED <<missed, scenarios, file>> /\ at' = [at EXCEPT !.stage = "linking"]
        /\ visible' = (Scenario \in scenarios \cup own)
    BY <1>5 DEF EnsureScenario
  <2>2. at'.b = at.b /\ at'.d = at.d /\ at'.l = at.l
    BY <2>1 DEF ImageInv, Place
  <2>3. Scenario' = Scenario
    BY <2>1, <2>2 DEF Scenario, Difficulty, Benchmark
  <2> QED
    BY <2>1, <2>3
<1>6. CASE ScenarioNotFound
  BY <1>6 DEF ScenarioNotFound, Ends
<1>7. CASE Commit
  BY <1>7 DEF Commit, Ends
<1>8. CASE (\E name \in Scenarios : ApiInserts(name) \/ ApiEnds(name)) \/ UNCHANGED vars
  <2>1. /\ UNCHANGED <<missed, file, at, visible>> /\ scenarios \subseteq scenarios'
        /\ Scenario' = Scenario
    BY <1>8 DEF ApiInserts, ApiEnds, vars, tx, Scenario, Difficulty, Benchmark
  <2> QED
    BY <2>1
<1> QED
  BY <1>1, <1>2, <1>3, <1>4, <1>5, <1>6, <1>7, <1>8 DEF Next

\* ensureScenario fails for want of a row at most once per scenario, however the
\* statement and the API's transactions, committed or rolled back, interleave.
THEOREM ScenariosFailOnce == Spec => NoScenarioFailsTwice
<1>1. ASSUME MissedInv, [Next]_vars
      PROVE  [outcome # "norows" /\ outcome' = "norows" => Scenario \notin missed]_vars
  <2> SUFFICES ASSUME Next, outcome # "norows", outcome' = "norows"
               PROVE  Scenario \notin missed
    BY <1>1
  <2>1. ScenarioNotFound
    BY DEF Next, Begin, DeleteRemoved, RefuseNames, UpsertBenchmark, RefuseBenchmark,
           ClearHierarchy, InsertDifficulty, RefuseDifficulty, EnsureScenario, RefuseScenario,
           InsertLink, Commit, Abort, Refuse, Ends, ApiInserts, ApiEnds, tx
  <2> QED
    BY <1>1, <2>1 DEF ScenarioNotFound, MissedInv
<1> QED
  BY ImageInit, ImageStep, MissedInit, MissedStep, <1>1, PTL DEF Spec, NoScenarioFailsTwice
=============================================================================
