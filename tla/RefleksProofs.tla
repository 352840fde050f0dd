----------------------------- MODULE RefleksProofs -----------------------------
(***************************************************************************)
(* What TLAPS proves about Refleks: whatever Parse accepts is what the     *)
(* client wrote, for any contents, limits and symbols.                     *)
(*                                                                         *)
(* A reader that faces an encoding, but for a part q that is cut off the   *)
(* end of the file, passes it: it fails if what it has read does not fit   *)
(* the limits, it may fail if something is cut off, and else it has kept   *)
(* what was written and stands before what comes next.  This is shown for  *)
(* symbols, strings, the entries of each section, the sections, and the    *)
(* file.  A file that passes the checksum is cut off, or has a tail, only  *)
(* if the client failed while it wrote; and no such file parses.           *)
(***************************************************************************)
EXTENDS Refleks, Lemmas

-----------------------------------------------------------------------------
(* Readers *)

\* What a reader is.
Reader ==
  [left : Seq(Nat), ok : BOOLEAN, got : Seq(Nat), name : Seq(Nat),
   stats : UNION {[S -> Seq(Nat)] : S \in SUBSET Seq(Nat)}, row : Seq(Seq(Nat)),
   events : Seq(Seq(Seq(Nat))), trace : Seq(Seq(Nat)), env : Seq(Seq(Nat))]

\* The parts of the file it holds.
Parts(r) == [name |-> r.name, stats |-> r.stats, events |-> r.events, trace |-> r.trace,
             env |-> r.env]

\* If all went well, the reader is before rest, of which q has been cut off.
Before(r, q, rest) == r.ok => r.left \o q = rest

\* Reader s has come from reader r to the tail of the file; it had to fail if what
\* it has read does not fit, and else only if something is cut off.
Passed(r, s, q, tail, fits) ==
  /\ s \in Reader
  /\ s.ok => r.ok /\ fits /\ s.left \o q = tail
  /\ r.ok /\ fits /\ q = <<>> => s.ok

\* Joining sequences.
LEMMA Joining ==
  \A a, b \in Seq(Nat) : a \o b \in Seq(Nat) /\ a \o <<>> = a /\ <<>> \o a = a
OBVIOUS

\* The order in which they are joined does not matter.
LEMMA JoiningMore == \A a, b, c \in Seq(Nat) : (a \o b) \o c = a \o (b \o c)
OBVIOUS

\* What is left, a, is a part e and what comes after it, but for q.
Cut(a, q, e, tail) ==
  /\ a \in Seq(Nat) /\ q \in Seq(Nat) /\ e \in Seq(Nat) /\ tail \in Seq(Nat)
  /\ a \o q = e \o tail

\* Whoever reads as much as a part is long, reads the part, and then stands before
\* what comes after it.
LEMMA Splitting ==
  ASSUME NEW a, NEW q, NEW e, NEW tail, Cut(a, q, e, tail)
  PROVE  /\ q = <<>> => Len(a) >= Len(e)
         /\ Len(a) >= Len(e) =>
              /\ SubSeq(a, 1, Len(e)) = e
              /\ SubSeq(a, Len(e) + 1, Len(a)) \in Seq(Nat)
              /\ SubSeq(a, Len(e) + 1, Len(a)) \o q = tail
<1>0. /\ a \in Seq(Nat) /\ q \in Seq(Nat) /\ e \in Seq(Nat) /\ tail \in Seq(Nat)
      /\ a \o q = e \o tail
  BY DEF Cut
<1> DEFINE c == a \o q
<1>1. /\ c \in Seq(Nat) /\ Len(c) = Len(a) + Len(q) /\ Len(c) = Len(e) + Len(tail)
      /\ \A i \in 1..Len(c) : c[i] = IF i <= Len(a) THEN a[i] ELSE q[i - Len(a)]
      /\ \A i \in 1..Len(c) : c[i] = IF i <= Len(e) THEN e[i] ELSE tail[i - Len(e)]
  BY <1>0
<1>2. Len(a) \in Nat /\ Len(q) \in Nat /\ Len(e) \in Nat /\ Len(tail) \in Nat
  BY <1>0
<1>3. q = <<>> => Len(a) >= Len(e)
  BY <1>1, <1>2
<1>4. ASSUME Len(a) >= Len(e)
      PROVE  /\ SubSeq(a, 1, Len(e)) = e
             /\ SubSeq(a, Len(e) + 1, Len(a)) \in Seq(Nat)
             /\ SubSeq(a, Len(e) + 1, Len(a)) \o q = tail
  <2> DEFINE d == SubSeq(a, Len(e) + 1, Len(a))
  <2>1. /\ d \in Seq(Nat) /\ Len(d) = Len(a) - Len(e)
        /\ \A i \in 1..Len(d) : d[i] = a[i + Len(e)]
    BY <1>0, <1>4
  <2>2. /\ SubSeq(a, 1, Len(e)) \in Seq(Nat) /\ Len(SubSeq(a, 1, Len(e))) = Len(e)
        /\ \A i \in 1..Len(e) : SubSeq(a, 1, Len(e))[i] = a[i]
    BY <1>0, <1>4
  <2>3. \A i \in 1..Len(e) : a[i] = e[i]
    <3> TAKE i \in 1..Len(e)
    <3>1. i \in 1..Len(c) /\ i <= Len(a) /\ i <= Len(e)
      BY <1>1, <1>2, <1>4
    <3> HIDE DEF c
    <3> QED
      BY <1>1, <3>1
  <2>4. SubSeq(a, 1, Len(e)) = e
    BY <1>0, <2>2, <2>3
  <2> HIDE DEF d
  <2>5. /\ d \o q \in Seq(Nat) /\ Len(d \o q) = Len(tail)
        /\ \A i \in 1..Len(tail) : (d \o q)[i] = IF i <= Len(d) THEN d[i] ELSE q[i - Len(d)]
    <3>1. /\ d \o q \in Seq(Nat) /\ Len(d \o q) = Len(d) + Len(q)
          /\ \A i \in 1..Len(d \o q) :
               (d \o q)[i] = IF i <= Len(d) THEN d[i] ELSE q[i - Len(d)]
      <4>1. d \in Seq(Nat)
        BY <2>1
      <4> QED
        BY ONLY <1>0, <4>1, JoinedElements
    <3>2. Len(d) + Len(q) = Len(tail)
      <4>1. Len(a) + Len(q) = Len(e) + Len(tail)
        BY <1>1
      <4>2. Len(d) = Len(a) - Len(e)
        BY <2>1
      <4> QED
        BY ONLY <1>2, <4>1, <4>2
    <3> QED
      BY <3>1, <3>2
  <2>6. ASSUME NEW i \in 1..Len(tail) PROVE (d \o q)[i] = tail[i]
    <3>1. /\ i + Len(e) \in 1..Len(c) /\ ~(i + Len(e) <= Len(e)) /\ (i + Len(e)) - Len(e) = i
          /\ i <= Len(d) <=> i + Len(e) <= Len(a)
          /\ (i + Len(e)) - Len(a) = i - Len(d)
      BY <1>1, <1>2, <2>1
    <3> HIDE DEF c
    <3>2. c[i + Len(e)] = tail[i]
      BY <1>1, <3>1
    <3>3. c[i + Len(e)] = IF i <= Len(d) THEN a[i + Len(e)] ELSE q[i - Len(d)]
      BY <1>1, <3>1
    <3>4. i <= Len(d) => i \in 1..Len(d)
      BY <1>2, <2>1
    <3> QED
      BY <2>1, <2>5, <3>2, <3>3, <3>4
  <2>7. d \o q = tail
    <3> HIDE DEF c
    <3> QED
      BY <1>0, <2>5, <2>6, SameElements
  <2> QED
    BY <2>1, <2>4, <2>7 DEF d
<1> QED
  BY <1>3, <1>4

\* Sequences of symbols.
AreParts(parts) == parts \in Seq(Seq(Nat))

\* What FlattenSeq joins can be taken apart again from the front.
LEMMA Flattened ==
  ASSUME NEW parts, AreParts(parts)
  PROVE  \E rest \in [0..Len(parts) -> Seq(Nat)] :
           /\ rest[0] = FlattenSeq(parts) /\ rest[Len(parts)] = <<>>
           /\ \A k \in 1..Len(parts) : rest[k - 1] = parts[k] \o rest[k]
<1>n. PICK N : N = Len(parts)
  OBVIOUS
<1>0. N = Len(parts) /\ N \in Nat
  BY <1>n DEF AreParts
<1> DEFINE F == [k \in 1..N |-> [x \in Seq(Nat) |-> x \o parts[k]]]
           B == [k \in 1..N |-> [x \in Seq(Nat) |-> parts[N + 1 - k] \o x]]
<1>1. \A k \in 1..N : parts[k] \in Seq(Nat) /\ N + 1 - k \in 1..N
  BY <1>0 DEF AreParts
<1>2. <<>> \in Seq(Nat)
  OBVIOUS
<1>3. PICK out \in [0..N -> Seq(Nat)] : out[0] = <<>> /\ \A k \in 1..N : out[k] = F[k][out[k - 1]]
  <2>1. IsLoop(N, Seq(Nat), <<>>, F)
    BY <1>0, <1>1, <1>2 DEF IsLoop
  <2> HIDE DEF F
  <2> QED
    BY <2>1, LoopExists
<1>4. PICK back \in [0..N -> Seq(Nat)] : back[0] = <<>> /\ \A k \in 1..N : back[k] = B[k][back[k - 1]]
  <2>1. IsLoop(N, Seq(Nat), <<>>, B)
    BY <1>0, <1>1, <1>2 DEF IsLoop
  <2> HIDE DEF B
  <2> QED
    BY <2>1, LoopExists
<1>5. \A k \in 1..N : out[k - 1] \in Seq(Nat) /\ back[k - 1] \in Seq(Nat) /\ k - 1 \in 0..N
  <2>1. \A k \in 1..N : k - 1 \in 0..N
    BY <1>0
  <2> QED
    BY <1>3, <1>4, <2>1
<1>6. /\ \A k \in 1..N : out[k] = out[k - 1] \o parts[k]
      /\ \A k \in 1..N : back[k] = parts[N + 1 - k] \o back[k - 1]
  BY <1>3, <1>4, <1>5
<1> DEFINE rest == [k \in 0..N |-> back[N - k]]
<1>7. /\ rest \in [0..N -> Seq(Nat)] /\ rest[N] = <<>>
      /\ \A k \in 1..N : rest[k - 1] = parts[k] \o rest[k]
  <2>1. \A k \in 0..N : N - k \in 0..N
    BY <1>0
  <2>2. rest \in [0..N -> Seq(Nat)] /\ rest[N] = <<>>
    BY <1>0, <1>4, <2>1
  <2>3. ASSUME NEW k \in 1..N PROVE rest[k - 1] = parts[k] \o rest[k]
    <3>1. /\ k - 1 \in 0..N /\ k \in 0..N /\ N + 1 - k \in 1..N
          /\ N - (k - 1) = N + 1 - k /\ N + 1 - (N + 1 - k) = k /\ (N + 1 - k) - 1 = N - k
      BY <1>0
    <3>2. back[N + 1 - k] = parts[k] \o back[N - k]
      BY <1>6, <3>1
    <3> QED
      BY <3>1, <3>2
  <2> QED
    BY <2>2, <2>3
<1> HIDE DEF F, B, rest
<1>8. rest[0] = out[N]
  <2> DEFINE T == {k \in 0..N : out[k] \o rest[k] = rest[0]}
  <2>1. 0 \in T
    <3>0. 0 \in 0..N /\ rest \in [0..N -> Seq(Nat)]
      BY <1>0, <1>7
    <3>1. out[0] = <<>> /\ rest[0] \in Seq(Nat) /\ 0 \in 0..N
      BY <1>3, <3>0
    <3>2. <<>> \o rest[0] = rest[0]
      BY ONLY <3>1, Joining
    <3> QED
      BY <3>1, <3>2
  <2>2. ASSUME NEW k \in 0..(N - 1), k \in T PROVE k + 1 \in T
    <3>1. k + 1 \in 1..N /\ k + 1 \in 0..N /\ (k + 1) - 1 = k /\ k \in 0..N
      BY <1>0
    <3>2. out[k + 1] = out[k] \o parts[k + 1] /\ rest[k] = parts[k + 1] \o rest[k + 1]
      BY <1>6, <1>7, <3>1
    <3>3. /\ out[k] \in Seq(Nat) /\ parts[k + 1] \in Seq(Nat) /\ rest[k + 1] \in Seq(Nat)
      BY <1>1, <1>3, <1>7, <3>1
    <3>4. (out[k] \o parts[k + 1]) \o rest[k + 1] = out[k] \o (parts[k + 1] \o rest[k + 1])
      BY <3>3, JoiningMore, Zenon
    <3> QED
      BY <2>2, <3>1, <3>2, <3>4
  <2>3. 0..N \subseteq T
    <3> HIDE DEF T
    <3> QED
      BY <1>0, <2>1, <2>2, LoopInduction
  <2>4. N \in 0..N
    BY <1>0
  <2>5. out[N] \o rest[N] = rest[0] /\ out[N] \in Seq(Nat) /\ rest[N] = <<>>
    BY <1>3, <1>7, <2>3, <2>4
  <2>6. out[N] \o <<>> = out[N]
    BY ONLY <2>5, Joining
  <2> QED
    BY <2>5, <2>6
<1>9. FlattenSeq(parts) = out[N]
  <2>1. CASE N = 0
    <3>1. Len(parts) = 0 /\ parts = <<>> /\ out[N] = <<>>
      BY <1>0, <1>3, <2>1, NoElements DEF AreParts
    <3> QED
      BY <3>1 DEF FlattenSeq
  <2>2. CASE N # 0
    <3> DEFINE IsFlat(g) == g = [i \in 1..N |-> IF i = 1 THEN parts[i] ELSE g[i - 1] \o parts[i]]
               h == [i \in 1..N |-> out[i]]
    <3>1. \A i \in 1..N : h[i] = IF i = 1 THEN parts[i] ELSE h[i - 1] \o parts[i]
      <4> TAKE i \in 1..N
      <4>1. CASE i = 1
        <5>1. 1 \in 1..N /\ 1 - 1 = 0
          BY <4>1
        <5>2. out[1] = <<>> \o parts[1] /\ parts[1] \in Seq(Nat)
          BY <1>1, <1>3, <1>6, <5>1
        <5>3. out[1] = parts[1]
          BY ONLY <5>2, Joining
        <5> QED
          BY <4>1, <5>1, <5>3
      <4>2. CASE i # 1
        <5>1. i - 1 \in 1..N
          BY <1>0, <4>2
        <5> QED
          BY <1>6, <4>2, <5>1
      <4> QED
        BY <4>1, <4>2
    <3>2. IsFlat(h)
      <4>1. h = [i \in 1..N |-> h[i]]
        OBVIOUS
      <4> HIDE DEF h
      <4> QED
        BY <3>1, <4>1
    <3>3. PICK g : IsFlat(g) /\ g = CHOOSE f : IsFlat(f)
      <4> HIDE DEF h
      <4> QED
        BY <3>2
    <3>4. /\ \A i \in 1..N : g[i] = IF i = 1 THEN parts[i] ELSE g[i - 1] \o parts[i]
          /\ FlattenSeq(parts) = g[N]
      BY <1>0, <2>2, <3>3 DEF FlattenSeq
    <3> DEFINE T == {k \in 0..(N - 1) : g[k + 1] = out[k + 1]}
    <3>5. 0 \in T
      <4>1. 1 \in 1..N /\ N - 1 \in Nat
        BY <1>0, <2>2
      <4>2. g[1] = parts[1] /\ out[1] = parts[1]
        BY <3>1, <3>4, <4>1
      <4> QED
        BY <4>1, <4>2
    <3>6. ASSUME NEW k \in 0..((N - 1) - 1), k \in T PROVE k + 1 \in T
      <4>1. (k + 1) + 1 \in 1..N /\ (k + 1) + 1 # 1 /\ ((k + 1) + 1) - 1 = k + 1 /\ k + 1 \in 0..(N - 1)
        BY <1>0
      <4>2. g[(k + 1) + 1] = g[k + 1] \o parts[(k + 1) + 1]
        BY <3>4, <4>1
      <4>3. out[(k + 1) + 1] = out[k + 1] \o parts[(k + 1) + 1]
        BY <1>6, <4>1
      <4> QED
        BY <3>6, <4>1, <4>2, <4>3
    <3>7. 0..(N - 1) \subseteq T
      <4>1. N - 1 \in Nat
        BY <1>0, <2>2
      <4> HIDE DEF T
      <4> QED
        BY <3>5, <3>6, <4>1, LoopInduction
    <3>8. N - 1 \in 0..(N - 1) /\ (N - 1) + 1 = N
      BY <1>0, <2>2
    <3> QED
      BY <3>4, <3>7, <3>8
  <2> QED
    BY <2>1, <2>2
<1> QED
  BY <1>0, <1>7, <1>8, <1>9

\* What is left after each part, with a tail behind the last.
TakesApart(rest, parts, tail) ==
  /\ rest \in [0..Len(parts) -> Seq(Nat)]
  /\ rest[0] = FlattenSeq(parts) \o tail /\ rest[Len(parts)] = tail
  /\ \A k \in 1..Len(parts) : rest[k - 1] = parts[k] \o rest[k]

\* And so it can be with a tail behind it.
LEMMA FlattenedBefore ==
  ASSUME NEW parts, AreParts(parts), NEW tail, tail \in Seq(Nat)
  PROVE  FlattenSeq(parts) \in Seq(Nat) /\ \E rest : TakesApart(rest, parts, tail)
<1>0. PICK N : N = Len(parts)
  OBVIOUS
<1>1. N \in Nat /\ \A k \in 1..N : parts[k] \in Seq(Nat)
  BY <1>0 DEF AreParts
<1>2. PICK short \in [0..N -> Seq(Nat)] :
        /\ short[0] = FlattenSeq(parts) /\ short[N] = <<>>
        /\ \A k \in 1..N : short[k - 1] = parts[k] \o short[k]
  BY <1>0, Flattened
<1> DEFINE rest == [k \in 0..N |-> short[k] \o tail]
<1>3. \A k \in 0..N : short[k] \in Seq(Nat) /\ short[k] \o tail \in Seq(Nat)
  BY <1>2, Joining
<1>4. rest \in [0..N -> Seq(Nat)]
  BY <1>3
<1>5. 0 \in 0..N /\ N \in 0..N /\ \A k \in 1..N : k - 1 \in 0..N /\ k \in 0..N
  BY <1>1
<1>6. rest[0] = FlattenSeq(parts) \o tail /\ FlattenSeq(parts) \in Seq(Nat)
  BY <1>2, <1>3, <1>5
<1>7. rest[N] = tail
  BY <1>2, <1>5, Joining
<1>8. ASSUME NEW k \in 1..N PROVE rest[k - 1] = parts[k] \o rest[k]
  <2>1. short[k - 1] = parts[k] \o short[k]
    BY <1>2
  <2>2. rest[k - 1] = short[k - 1] \o tail /\ rest[k] = short[k] \o tail
    BY <1>5
  <2>3. parts[k] \in Seq(Nat) /\ short[k] \in Seq(Nat)
    BY <1>1, <1>3, <1>5
  <2>4. (parts[k] \o short[k]) \o tail = parts[k] \o (short[k] \o tail)
    BY <2>3, JoiningMore, Zenon
  <2> QED
    BY <2>1, <2>2, <2>4
<1> HIDE DEF rest
<1>9. TakesApart(rest, parts, tail)
  BY <1>0, <1>4, <1>6, <1>7, <1>8 DEF TakesApart
<1> QED
  BY <1>6, <1>9

-----------------------------------------------------------------------------
(* Reading numbers and strings *)

\* A reader is what it was but for what it has read last, what is left, and
\* whether all went well.
Untouched(r, s) == Parts(s) = Parts(r) /\ s.row = r.row

\* Reader r is before e and then the tail, but for what has been cut off.
Facing(r, q, e, tail) ==
  /\ r \in Reader /\ q \in Seq(Nat) /\ e \in Seq(Nat) /\ tail \in Seq(Nat)
  /\ Before(r, q, e \o tail)

\* Reading as many symbols as something is long, reads it.
LEMMA SymbolsPassed ==
  ASSUME NEW r, NEW q, NEW e, NEW tail, Facing(r, q, e, tail)
  PROVE  /\ Passed(r, ReadSymbols(r, Len(e)), q, tail, TRUE)
         /\ ReadSymbols(r, Len(e)).ok => ReadSymbols(r, Len(e)).got = e
<1>0. /\ r \in Reader /\ q \in Seq(Nat) /\ e \in Seq(Nat) /\ tail \in Seq(Nat)
      /\ Before(r, q, e \o tail)
  BY DEF Facing
<1> DEFINE n == Len(e)
           a == SubSeq(r.left, 1, n)
           b == SubSeq(r.left, n + 1, Len(r.left))
<1>1. r.left \in Seq(Nat) /\ r.ok \in BOOLEAN /\ Len(r.left) \in Nat /\ n \in Nat
  BY <1>0 DEF Reader
<1>2. CASE ~r.ok \/ Len(r.left) < n
  <2>1. ReadSymbols(r, n) = [r EXCEPT !.ok = FALSE]
    BY <1>2 DEF ReadSymbols, Failed
  <2>2. [r EXCEPT !.ok = FALSE] \in Reader /\ ~[r EXCEPT !.ok = FALSE].ok
    BY <1>0 DEF Reader
  <2>3. r.ok => q # <<>>
    <3>1. r.ok => r.left \o q = e \o tail
      BY <1>0 DEF Before
    <3>2. r.ok => Cut(r.left, q, e, tail)
      BY <1>0, <1>1, <3>1 DEF Cut
    <3>3. r.ok /\ q = <<>> => Len(r.left) >= Len(e)
      BY <3>2, Splitting
    <3> QED
      BY <1>1, <1>2, <3>3
  <2> QED
    BY <2>1, <2>2, <2>3 DEF Passed
<1>3. CASE r.ok /\ Len(r.left) >= n
  <2>1. r.left \o q = e \o tail
    BY <1>0, <1>3 DEF Before
  <2>2. a = e /\ b \in Seq(Nat) /\ b \o q = tail
    <3>1. PICK left \in Seq(Nat) : left = r.left
      BY <1>1
    <3>2. Cut(left, q, e, tail) /\ Len(left) >= Len(e)
      BY <1>0, <1>1, <1>3, <2>1, <3>1 DEF Cut
    <3>3. /\ SubSeq(left, 1, Len(e)) = e
          /\ SubSeq(left, Len(e) + 1, Len(left)) \in Seq(Nat)
          /\ SubSeq(left, Len(e) + 1, Len(left)) \o q = tail
      BY <3>2, Splitting
    <3> QED
      BY <3>1, <3>3
  <2>3. ReadSymbols(r, n) = [r EXCEPT !.got = a, !.left = b]
    BY <1>1, <1>3 DEF ReadSymbols
  <2> HIDE DEF a, b
  <2>4. /\ [r EXCEPT !.got = a, !.left = b] \in Reader
        /\ [r EXCEPT !.got = a, !.left = b].ok = r.ok
        /\ [r EXCEPT !.got = a, !.left = b].got = a
        /\ [r EXCEPT !.got = a, !.left = b].left = b
    BY <1>0, <2>2 DEF Reader
  <2> QED
    BY <1>3, <2>2, <2>3, <2>4 DEF Passed
<1>4. (~r.ok \/ Len(r.left) < n) \/ (r.ok /\ Len(r.left) >= n)
  BY <1>1
<1> QED
  BY <1>2, <1>3, <1>4

\* Whatever is left, a reader stays one, and does not touch what is complete.
LEMMA SymbolsRead ==
  ASSUME NEW r \in Reader, NEW n \in Nat
  PROVE  /\ ReadSymbols(r, n) \in Reader /\ Untouched(r, ReadSymbols(r, n))
         /\ ReadSymbols(r, n).ok => r.ok /\ Len(ReadSymbols(r, n).got) = n
<1> DEFINE a == SubSeq(r.left, 1, n)
           b == SubSeq(r.left, n + 1, Len(r.left))
<1>1. r.left \in Seq(Nat) /\ r.ok \in BOOLEAN /\ Len(r.left) \in Nat
  BY DEF Reader
<1>2. CASE ~r.ok \/ Len(r.left) < n
  <2>1. ReadSymbols(r, n) = [r EXCEPT !.ok = FALSE]
    BY <1>2 DEF ReadSymbols, Failed
  <2>2. /\ [r EXCEPT !.ok = FALSE] \in Reader /\ ~[r EXCEPT !.ok = FALSE].ok
        /\ Untouched(r, [r EXCEPT !.ok = FALSE])
    BY DEF Reader, Untouched, Parts
  <2> QED
    BY <2>1, <2>2
<1>3. CASE r.ok /\ Len(r.left) >= n
  <2>1. a \in Seq(Nat) /\ b \in Seq(Nat) /\ Len(a) = n
    BY <1>1, <1>3
  <2>2. ReadSymbols(r, n) = [r EXCEPT !.got = a, !.left = b]
    BY <1>1, <1>3 DEF ReadSymbols
  <2> HIDE DEF a, b
  <2>3. /\ [r EXCEPT !.got = a, !.left = b] \in Reader
        /\ [r EXCEPT !.got = a, !.left = b].got = a
        /\ Untouched(r, [r EXCEPT !.got = a, !.left = b])
    BY <2>1 DEF Reader, Untouched, Parts
  <2> QED
    BY <1>3, <2>1, <2>2, <2>3
<1> QED
  BY <1>1, <1>2, <1>3

\* A reader that has failed stays one.
LEMMA FailedRead ==
  ASSUME NEW r \in Reader
  PROVE  Failed(r) \in Reader /\ ~Failed(r).ok /\ Untouched(r, Failed(r))
BY DEF Failed, Reader, Untouched, Parts

\* Numbers are read as written, unless they are above the limit.
LEMMA CountRead ==
  ASSUME NEW r \in Reader, NEW limit \in Nat
  PROVE  /\ ReadCount(r, limit) \in Reader /\ Untouched(r, ReadCount(r, limit))
         /\ ReadCount(r, limit).ok => r.ok /\ ReadCount(r, limit).got[1] \in 0..limit
<1>1. PICK s : s = ReadSymbols(r, 1)
  OBVIOUS
<1>2. s \in Reader /\ Untouched(r, s) /\ (s.ok => r.ok /\ Len(s.got) = 1)
  BY <1>1, SymbolsRead
<1>3. s.got \in Seq(Nat)
  BY <1>2 DEF Reader
<1>4. s.ok => s.got[1] \in Nat
  BY <1>2, <1>3
<1>5. Failed(s) \in Reader /\ ~Failed(s).ok /\ Untouched(s, Failed(s))
  BY <1>2, FailedRead
<1>6. ReadCount(r, limit) = IF s.ok /\ s.got[1] > limit THEN Failed(s) ELSE s
  BY <1>1 DEF ReadCount
<1>7. Untouched(r, Failed(s))
  BY <1>2, <1>5 DEF Untouched
<1> QED
  BY <1>2, <1>4, <1>5, <1>6, <1>7

\* The number is the one that was written.
LEMMA CountPassed ==
  ASSUME NEW r, NEW q, NEW n \in Nat, NEW tail, NEW limit \in Nat, Facing(r, q, <<n>>, tail)
  PROVE  /\ Passed(r, ReadCount(r, limit), q, tail, n <= limit)
         /\ ReadCount(r, limit).ok => ReadCount(r, limit).got = <<n>>
<1>1. PICK s, e : s = ReadSymbols(r, 1) /\ e = <<n>>
  OBVIOUS
<1>2. e \in Seq(Nat) /\ Len(e) = 1 /\ e[1] = n
  BY <1>1
<1>3. Passed(r, s, q, tail, TRUE) /\ (s.ok => s.got = e)
  <2>1. Facing(r, q, e, tail)
    BY <1>1
  <2>2. /\ Passed(r, ReadSymbols(r, Len(e)), q, tail, TRUE)
        /\ ReadSymbols(r, Len(e)).ok => ReadSymbols(r, Len(e)).got = e
    BY <2>1, SymbolsPassed
  <2> QED
    BY <1>1, <1>2, <2>2
<1>4. ReadCount(r, limit) = IF s.ok /\ s.got[1] > limit THEN Failed(s) ELSE s
  BY <1>1 DEF ReadCount
<1>5. s.ok => (s.got[1] > limit <=> ~(n <= limit))
  BY <1>2, <1>3
<1>6. Failed(s) \in Reader /\ ~Failed(s).ok
  BY <1>3, FailedRead DEF Passed
<1> QED
  BY <1>1, <1>3, <1>4, <1>5, <1>6 DEF Passed

\* Strings are read as written, unless they are above the limit.
LEMMA StringRead ==
  ASSUME NEW r \in Reader, NEW limit \in Nat
  PROVE  /\ ReadString(r, limit) \in Reader /\ Untouched(r, ReadString(r, limit))
         /\ ReadString(r, limit).ok => r.ok
<1>1. PICK s : s = ReadCount(r, limit)
  OBVIOUS
<1>2. s \in Reader /\ Untouched(r, s) /\ (s.ok => r.ok /\ s.got[1] \in 0..limit)
  BY <1>1, CountRead
<1>3. ReadString(r, limit) = IF s.ok THEN ReadSymbols(s, s.got[1]) ELSE s
  BY <1>1 DEF ReadString
<1>4. ASSUME s.ok
      PROVE  ReadSymbols(s, s.got[1]) \in Reader /\ Untouched(s, ReadSymbols(s, s.got[1]))
  <2>1. PICK n : n = s.got[1] /\ n \in Nat
    BY <1>2, <1>4
  <2> QED
    BY <1>2, <2>1, SymbolsRead
<1>5. s.ok => Untouched(r, ReadSymbols(s, s.got[1]))
  BY <1>2, <1>4 DEF Untouched
<1> QED
  BY <1>2, <1>3, <1>4, <1>5

\* The string is the one that was written.
LEMMA StringPassed ==
  ASSUME NEW r, NEW q, NEW string \in Seq(Nat), NEW tail, NEW limit \in Nat,
         Facing(r, q, EncodedString(string), tail)
  PROVE  /\ Passed(r, ReadString(r, limit), q, tail, Len(string) <= limit)
         /\ ReadString(r, limit).ok => ReadString(r, limit).got = string
<1>1. PICK s, n, rest : s = ReadCount(r, limit) /\ n = Len(string) /\ rest = string \o tail
  OBVIOUS
<1>0. /\ r \in Reader /\ q \in Seq(Nat) /\ tail \in Seq(Nat)
      /\ Before(r, q, EncodedString(string) \o tail)
  BY DEF Facing
<1>2. n \in Nat /\ rest \in Seq(Nat) /\ <<n>> \in Seq(Nat)
  BY <1>0, <1>1, Joining
<1>3. EncodedString(string) \o tail = <<n>> \o rest
  <2>0. <<n>> \in Seq(Nat)
    BY <1>2
  <2>1. PICK length \in Seq(Nat) : length = <<n>>
    BY <2>0
  <2>2. (length \o string) \o tail = length \o (string \o tail)
    BY <1>0, <2>1, JoiningMore, Zenon
  <2> QED
    BY <1>1, <2>1, <2>2, Zenon DEF EncodedString
<1>4. Passed(r, s, q, rest, n <= limit) /\ (s.ok => s.got = <<n>>)
  <2>1. Before(r, q, <<n>> \o rest)
    BY <1>0, <1>3, Zenon
  <2>2. Facing(r, q, <<n>>, rest)
    BY <1>0, <1>2, <2>1 DEF Facing
  <2>3. /\ Passed(r, ReadCount(r, limit), q, rest, n <= limit)
        /\ ReadCount(r, limit).ok => ReadCount(r, limit).got = <<n>>
    BY <1>2, <2>2, CountPassed
  <2> QED
    BY <1>1, <2>3
<1>5. ReadString(r, limit) = IF s.ok THEN ReadSymbols(s, s.got[1]) ELSE s
  BY <1>1 DEF ReadString
<1>6. CASE s.ok
  <2>1. ReadString(r, limit) = ReadSymbols(s, Len(string))
    BY <1>1, <1>4, <1>5, <1>6
  <2>2. Facing(s, q, string, tail)
    BY <1>0, <1>1, <1>4, <1>6 DEF Passed, Before, Facing
  <2>3. /\ Passed(s, ReadSymbols(s, Len(string)), q, tail, TRUE)
        /\ ReadSymbols(s, Len(string)).ok => ReadSymbols(s, Len(string)).got = string
    BY <2>2, SymbolsPassed
  <2> QED
    BY <1>1, <1>4, <1>6, <2>1, <2>3 DEF Passed
<1>7. CASE ~s.ok
  BY <1>1, <1>4, <1>5, <1>7 DEF Passed
<1> QED
  BY <1>6, <1>7

\* A reader that has passed something is before what follows.
LEMMA PassedBefore ==
  ASSUME NEW r, NEW s, NEW q, NEW tail, NEW f, Passed(r, s, q, tail, f)
  PROVE  s \in Reader /\ Before(s, q, tail)
BY DEF Passed, Before

-----------------------------------------------------------------------------
(* Reading the stats *)

\* Stats as they are kept and as they are written.
Stats == UNION {[S -> Seq(Nat)] : S \in SUBSET Seq(Nat)}
IsStat(stat) == /\ stat \in [key : Seq(Nat), tag : 1..4, value : Seq(Nat)]
                /\ stat.tag # 1 => Len(stat.value) = 1

\* The value of an entry as it is kept, and whether it is within the limits.
KeptValue(stat) == IF stat.tag = 4 THEN AsBool(stat.value) ELSE stat.value
FitsStat(stat) == Len(stat.key) <= MaxString /\ (stat.tag = 1 => Len(stat.value) <= MaxString)

\* Booleans are kept as one symbol.
LEMMA BoolTyped == \A symbols : AsBool(symbols) \in Seq(Nat)
BY DEF AsBool

\* An entry is stored among the others.
LEMMA StoredTyped ==
  ASSUME NEW stats \in Stats, NEW key \in Seq(Nat), NEW value \in Seq(Nat)
  PROVE  Stored(stats, key, value) \in Stats
<1>1. PICK S \in SUBSET Seq(Nat) : stats \in [S -> Seq(Nat)]
  BY DEF Stats
<1>2. PICK T : T = S \cup {key}
  OBVIOUS
<1>3. Stored(stats, key, value) = [k \in T |-> IF k = key THEN value ELSE stats[k]]
  BY <1>1, <1>2 DEF Stored
<1>4. \A k \in T : (IF k = key THEN value ELSE stats[k]) \in Seq(Nat)
  BY <1>1, <1>2
<1>5. Stored(stats, key, value) \in [T -> Seq(Nat)]
  BY <1>3, <1>4, Zenon
<1>6. T \in SUBSET Seq(Nat)
  BY <1>2
<1> QED
  BY <1>5, <1>6 DEF Stats

\* The limits are numbers.
LEMMA Limits ==
  /\ MaxFileName \in Nat /\ MaxString \in Nat /\ MaxStats \in Nat
  /\ MaxRows \in Nat /\ MaxCols \in Nat /\ MaxPoints \in Nat
BY RefleksAssumption

\* Reading an entry leaves a reader.
LEMMA StatRead ==
  ASSUME NEW r \in Reader
  PROVE  ReadStat(r) \in Reader
<1>1. PICK key, tag : key = ReadString(r, MaxString) /\ tag = ReadSymbols(key, 1)
  OBVIOUS
<1>2. key \in Reader /\ tag \in Reader
  <2>1. key \in Reader
    BY <1>1, Limits, StringRead
  <2> QED
    BY <1>1, <2>1, SymbolsRead
<1>3. PICK value : value = IF tag.ok /\ tag.got = <<1>> THEN ReadString(tag, MaxString)
                           ELSE IF tag.ok /\ tag.got[1] \in 2..4 THEN ReadSymbols(tag, 1)
                           ELSE Failed(tag)
  OBVIOUS
<1>4. value \in Reader
  BY <1>2, <1>3, Limits, StringRead, SymbolsRead, FailedRead
<1>5. PICK kept : kept = IF tag.got = <<4>> THEN AsBool(value.got) ELSE value.got
  OBVIOUS
<1>6. key.got \in Seq(Nat) /\ value.got \in Seq(Nat) /\ value.stats \in Stats
  BY <1>2, <1>4 DEF Reader, Stats
<1>7. kept \in Seq(Nat)
  BY <1>5, <1>6, BoolTyped
<1>8. PICK stats : stats = Stored(value.stats, key.got, kept) /\ stats \in Stats
  BY <1>6, <1>7, StoredTyped
<1>9. ReadStat(r) = IF value.ok THEN [value EXCEPT !.stats = stats] ELSE value
  BY <1>1, <1>3, <1>5, <1>8 DEF ReadStat
<1>10. [value EXCEPT !.stats = stats] \in Reader
  BY <1>4, <1>8 DEF Reader, Stats
<1> QED
  BY <1>4, <1>9, <1>10

\* An entry is read as written.
LEMMA StatPassed ==
  ASSUME NEW r, NEW q, NEW stat, NEW tail, IsStat(stat), Facing(r, q, EncodedStat(stat), tail)
  PROVE  /\ Passed(r, ReadStat(r), q, tail, FitsStat(stat))
         /\ ReadStat(r).ok =>
              Parts(ReadStat(r)) =
                [Parts(r) EXCEPT !.stats = Stored(@, stat.key, KeptValue(stat))]
<1>1. PICK key, tag : key = ReadString(r, MaxString) /\ tag = ReadSymbols(key, 1)
  OBVIOUS
<1>2. PICK value : value = IF tag.ok /\ tag.got = <<1>> THEN ReadString(tag, MaxString)
                           ELSE IF tag.ok /\ tag.got[1] \in 2..4 THEN ReadSymbols(tag, 1)
                           ELSE Failed(tag)
  OBVIOUS
<1>3. PICK kept : kept = IF tag.got = <<4>> THEN AsBool(value.got) ELSE value.got
  OBVIOUS
<1>4. ReadStat(r) = IF value.ok THEN [value EXCEPT !.stats = Stored(@, key.got, kept)] ELSE value
  BY <1>1, <1>2, <1>3 DEF ReadStat
<1>5. stat.key \in Seq(Nat) /\ stat.tag \in 1..4 /\ stat.value \in Seq(Nat)
  BY DEF IsStat
<1>0. /\ r \in Reader /\ q \in Seq(Nat) /\ tail \in Seq(Nat)
      /\ Before(r, q, EncodedStat(stat) \o tail)
  BY DEF Facing
<1>6. PICK t, k, v : /\ t = <<stat.tag>> /\ k = EncodedString(stat.key)
                     /\ v = IF stat.tag = 1 THEN EncodedString(stat.value) ELSE stat.value
  OBVIOUS
<1>7. t \in Seq(Nat) /\ Len(t) = 1 /\ k \in Seq(Nat) /\ v \in Seq(Nat)
  <2>1. \A s \in Seq(Nat) : EncodedString(s) \in Seq(Nat)
    BY DEF EncodedString
  <2> QED
    BY <1>5, <1>6, <2>1
<1>8. v \o tail \in Seq(Nat) /\ t \o (v \o tail) \in Seq(Nat)
  BY <1>0, <1>7, Joining
<1>9. EncodedStat(stat) \o tail = k \o (t \o (v \o tail))
  <2>1. EncodedStat(stat) = (k \o t) \o v
    BY <1>6 DEF EncodedStat
  <2>2. ((k \o t) \o v) \o tail = (k \o t) \o (v \o tail)
    <3>1. k \o t \in Seq(Nat)
      BY <1>7, Joining
    <3> QED
      BY <1>0, <1>7, <3>1, JoiningMore, Zenon
  <2>3. (k \o t) \o (v \o tail) = k \o (t \o (v \o tail))
    BY <1>7, <1>8, JoiningMore
  <2> QED
    BY <2>1, <2>2, <2>3, Zenon
<1>10. /\ Passed(r, key, q, t \o (v \o tail), Len(stat.key) <= MaxString)
       /\ key.ok => key.got = stat.key
       /\ Untouched(r, key)
  <2>1. Before(r, q, k \o (t \o (v \o tail)))
    BY <1>0, <1>9, Zenon
  <2>2. Facing(r, q, EncodedString(stat.key), t \o (v \o tail))
    BY <1>0, <1>6, <1>7, <1>8, <2>1 DEF Facing
  <2>3. /\ Passed(r, ReadString(r, MaxString), q, t \o (v \o tail), Len(stat.key) <= MaxString)
        /\ ReadString(r, MaxString).ok => ReadString(r, MaxString).got = stat.key
    BY <1>5, <2>2, Limits, StringPassed
  <2>4. Untouched(r, ReadString(r, MaxString))
    BY <1>0, Limits, StringRead
  <2> QED
    BY <1>1, <2>3, <2>4
<1>11. /\ Passed(key, tag, q, v \o tail, TRUE)
       /\ tag.ok => tag.got = t
       /\ Untouched(key, tag)
  <2>1. key \in Reader /\ Before(key, q, t \o (v \o tail))
    BY <1>10, PassedBefore
  <2>2. Facing(key, q, t, v \o tail)
    BY <1>0, <1>7, <1>8, <2>1 DEF Facing
  <2>3. /\ Passed(key, ReadSymbols(key, Len(t)), q, v \o tail, TRUE)
        /\ ReadSymbols(key, Len(t)).ok => ReadSymbols(key, Len(t)).got = t
    BY <2>2, SymbolsPassed
  <2>4. Untouched(key, ReadSymbols(key, 1))
    BY <2>1, SymbolsRead
  <2> QED
    BY <1>1, <1>7, <2>3, <2>4
<1>12. tag \in Reader /\ Before(tag, q, v \o tail)
  BY <1>11, PassedBefore
<1>13. /\ Passed(tag, value, q, tail, stat.tag = 1 => Len(stat.value) <= MaxString)
       /\ value.ok => value.got = stat.value
       /\ Untouched(tag, value)
  <2>1. CASE ~tag.ok
    BY <1>2, <1>12, <2>1, FailedRead DEF Passed
  <2>2. CASE tag.ok /\ stat.tag = 1
    <3>1. value = ReadString(tag, MaxString)
      BY <1>2, <1>6, <1>11, <2>2
    <3>2. Facing(tag, q, EncodedString(stat.value), tail)
      BY <1>0, <1>6, <1>7, <1>12, <2>2 DEF Facing
    <3>3. /\ Passed(tag, ReadString(tag, MaxString), q, tail, Len(stat.value) <= MaxString)
          /\ ReadString(tag, MaxString).ok => ReadString(tag, MaxString).got = stat.value
      BY <1>5, <3>2, Limits, StringPassed
    <3>4. Untouched(tag, ReadString(tag, MaxString))
      BY <1>12, Limits, StringRead
    <3> QED
      BY <2>2, <3>1, <3>3, <3>4 DEF Passed
  <2>3. CASE tag.ok /\ stat.tag # 1
    <3>1. tag.got # <<1>> /\ tag.got[1] \in 2..4
      BY <1>5, <1>6, <1>11, <2>3
    <3>2. value = ReadSymbols(tag, Len(stat.value))
      BY <1>2, <2>3, <3>1 DEF IsStat
    <3>3. Facing(tag, q, stat.value, tail)
      BY <1>0, <1>6, <1>7, <1>12, <2>3 DEF Facing
    <3>4. /\ Passed(tag, ReadSymbols(tag, Len(stat.value)), q, tail, TRUE)
          /\ ReadSymbols(tag, Len(stat.value)).ok =>
               ReadSymbols(tag, Len(stat.value)).got = stat.value
      BY <3>3, SymbolsPassed
    <3>5. Untouched(tag, ReadSymbols(tag, Len(stat.value)))
      <4>1. Len(stat.value) \in Nat
        BY <1>5
      <4> QED
        BY <1>12, <4>1, SymbolsRead
    <3> QED
      BY <2>3, <3>2, <3>4, <3>5 DEF Passed
  <2> QED
    BY <2>1, <2>2, <2>3
<1>14. Passed(r, value, q, tail, FitsStat(stat))
  BY <1>10, <1>11, <1>13 DEF Passed, FitsStat
<1>15. value.ok => kept = KeptValue(stat) /\ key.got = stat.key
  <2>1. value.ok => tag.ok /\ key.ok
    BY <1>11, <1>13 DEF Passed
  <2>2. t = <<4>> <=> stat.tag = 4
    BY <1>6
  <2> QED
    BY <1>3, <1>10, <1>11, <1>13, <2>1, <2>2 DEF KeptValue
<1>16. Untouched(r, value)
  BY <1>10, <1>11, <1>13 DEF Untouched
<1>17. CASE value.ok
  <2>1. PICK stats : stats = Stored(value.stats, key.got, kept)
    OBVIOUS
  <2>2. ReadStat(r) = [value EXCEPT !.stats = stats]
    BY <1>4, <1>17, <2>1
  <2>3. ReadStat(r) \in Reader
    BY <1>0, StatRead
  <2>4. value \in Reader
    BY <1>14 DEF Passed
  <2>5. ReadStat(r).ok = value.ok /\ ReadStat(r).left = value.left
    BY <2>2, <2>4 DEF Reader
  <2>6. Parts(ReadStat(r)) = [Parts(value) EXCEPT !.stats = stats]
    <3>1. PICK s : s = ReadStat(r)
      OBVIOUS
    <3>2. /\ s.name = value.name /\ s.stats = stats /\ s.events = value.events
          /\ s.trace = value.trace /\ s.env = value.env
      BY <2>2, <2>4, <3>1 DEF Reader
    <3> QED
      BY <3>1, <3>2 DEF Parts
  <2>7. stats = Stored(Parts(r).stats, stat.key, KeptValue(stat)) /\ Parts(value) = Parts(r)
    BY <1>15, <1>16, <1>17, <2>1 DEF Parts, Untouched
  <2>8. Passed(r, ReadStat(r), q, tail, FitsStat(stat))
    BY <1>14, <2>3, <2>5 DEF Passed
  <2> QED
    BY <2>6, <2>7, <2>8
<1>18. CASE ~value.ok
  BY <1>4, <1>14, <1>18
<1> QED
  BY <1>17, <1>18

-----------------------------------------------------------------------------
(* Loops of readers *)

\* What goes on like a loop is it.
RunsLike(N, X, a, F, g) ==
  /\ g = [k \in 0..N |-> g[k]] /\ g[0] = a
  /\ \A k \in 1..N : g[k - 1] \in X => g[k] = F[k][g[k - 1]]

\* It stays within the values of the loop.
LEMMA LoopIs ==
  ASSUME NEW N, NEW X, NEW a, NEW F, IsLoop(N, X, a, F), NEW g, RunsLike(N, X, a, F, g)
  PROVE  g \in [0..N -> X] /\ \A k \in 1..N : g[k] = F[k][g[k - 1]]
<1>1. N \in Nat /\ a \in X /\ \A k \in 1..N : F[k] \in [X -> X]
  BY DEF IsLoop
<1>2. /\ g = [k \in 0..N |-> g[k]] /\ g[0] = a
      /\ \A k \in 1..N : g[k - 1] \in X => g[k] = F[k][g[k - 1]]
  BY DEF RunsLike
<1> DEFINE T == {k \in 0..N : g[k] \in X}
<1>3. 0 \in T
  BY <1>1, <1>2
<1>4. ASSUME NEW k \in 0..(N - 1), k \in T PROVE k + 1 \in T
  <2>1. k + 1 \in 1..N /\ k + 1 \in 0..N /\ (k + 1) - 1 = k
    BY <1>1
  <2>2. g[k + 1] = F[k + 1][g[k]] /\ F[k + 1] \in [X -> X]
    BY <1>1, <1>2, <1>4, <2>1
  <2> QED
    BY <1>4, <2>1, <2>2
<1>5. 0..N \subseteq T
  <2> HIDE DEF T
  <2> QED
    BY <1>1, <1>3, <1>4, LoopInduction
<1>6. g \in [0..N -> X]
  BY <1>2, <1>5
<1>7. \A k \in 1..N : k - 1 \in 0..N
  BY <1>1
<1> QED
  BY <1>2, <1>5, <1>6, <1>7

\* Readers after each of N rounds, what is before them, and the rounds that find
\* something within the limits.
IsReading(N, after, rest, q, good) ==
  /\ N \in Nat /\ after \in [0..N -> Reader] /\ rest \in [0..N -> Seq(Nat)]
  /\ Before(after[0], q, rest[0])
  /\ \A k \in 1..N : Before(after[k - 1], q, rest[k - 1]) =>
                       Passed(after[k - 1], after[k], q, rest[k], k \in good)

\* If each round passes its part, they all pass them all.
LEMMA LoopPassed ==
  ASSUME NEW N, NEW after, NEW rest, NEW q, NEW good, IsReading(N, after, rest, q, good)
  PROVE  /\ \A k \in 0..N : /\ Passed(after[0], after[k], q, rest[k], 1..k \subseteq good)
                            /\ Before(after[k], q, rest[k])
         /\ \A k \in 1..N : after[k].ok => after[k - 1].ok
<1>1. /\ N \in Nat /\ after \in [0..N -> Reader] /\ rest \in [0..N -> Seq(Nat)]
      /\ Before(after[0], q, rest[0])
      /\ \A k \in 1..N : Before(after[k - 1], q, rest[k - 1]) =>
                           Passed(after[k - 1], after[k], q, rest[k], k \in good)
  BY DEF IsReading
<1> DEFINE T == {k \in 0..N : Passed(after[0], after[k], q, rest[k], 1..k \subseteq good)}
<1>2. 0 \in T
  <2>1. 1..0 \subseteq good /\ 0 \in 0..N /\ after[0] \in Reader
    BY <1>1
  <2> QED
    BY <1>1, <2>1 DEF Passed, Before
<1>3. ASSUME NEW k \in 0..(N - 1), k \in T PROVE k + 1 \in T
  <2>1. k + 1 \in 1..N /\ k + 1 \in 0..N /\ (k + 1) - 1 = k
    BY <1>1
  <2>2. Before(after[k], q, rest[k])
    BY <1>3, PassedBefore
  <2>3. Passed(after[k], after[k + 1], q, rest[k + 1], k + 1 \in good)
    BY <1>1, <2>1, <2>2
  <2>4. 1..(k + 1) \subseteq good <=> 1..k \subseteq good /\ k + 1 \in good
    OBVIOUS
  <2>5. Passed(after[0], after[k], q, rest[k], 1..k \subseteq good)
    BY <1>3
  <2>6. Passed(after[0], after[k + 1], q, rest[k + 1], 1..(k + 1) \subseteq good)
    BY <2>3, <2>4, <2>5 DEF Passed
  <2> QED
    BY <2>1, <2>6
<1>4. 0..N \subseteq T
  <2> HIDE DEF T
  <2> QED
    BY <1>1, <1>2, <1>3, LoopInduction
<1>5. \A k \in 0..N : Before(after[k], q, rest[k])
  BY <1>4, PassedBefore
<1>6. ASSUME NEW k \in 1..N, after[k].ok PROVE after[k - 1].ok
  <2>1. k - 1 \in 0..N
    BY <1>1
  <2>2. Passed(after[k - 1], after[k], q, rest[k], k \in good)
    BY <1>1, <1>5, <2>1
  <2> QED
    BY <1>6, <2>2 DEF Passed
<1> QED
  BY <1>4, <1>5, <1>6

\* Whoever may go round N times.
MayGoRound(N, r) == N \in Nat /\ r \in Reader

\* The entries of the stats, one by one.
AfterStats(N, r) == Repeat(LAMBDA s, k : ReadStat(s), N, r)

\* What it is after each of them.
GoesStatRounds(after, N, r) ==
  /\ after \in [0..N -> Reader] /\ after[0] = r /\ AfterStats(N, r) = after[N]
  /\ \A k \in 1..N : after[k] = ReadStat(after[k - 1])

\* They are readers all along.
LEMMA StatRounds ==
  ASSUME NEW N, NEW r, MayGoRound(N, r)
  PROVE  \E after : GoesStatRounds(after, N, r)
<1>0. N \in Nat /\ r \in Reader
  BY DEF MayGoRound
<1> DEFINE F == [k \in 1..N |-> [s \in Reader |-> ReadStat(s)]]
           Runs(g) == g = [k \in 0..N |-> IF k = 0 THEN r ELSE ReadStat(g[k - 1])]
<1>1. IsLoop(N, Reader, r, F)
  BY <1>0, StatRead DEF IsLoop
<1>2. PICK out \in [0..N -> Reader] : out[0] = r /\ \A k \in 1..N : out[k] = F[k][out[k - 1]]
  <2> HIDE DEF F
  <2> QED
    BY <1>1, LoopExists
<1>3. Runs(out)
  <2>1. ASSUME NEW k \in 0..N PROVE out[k] = IF k = 0 THEN r ELSE ReadStat(out[k - 1])
    <3>1. k = 0 \/ (k # 0 /\ k \in 1..N /\ k - 1 \in 0..N)
      BY <1>0
    <3> QED
      BY <1>2, <3>1
  <2> QED
    BY <1>2, <2>1
<1>4. PICK g : Runs(g) /\ g = CHOOSE h : Runs(h)
  BY <1>3
<1>5. g[0] = r /\ \A k \in 1..N : g[k] = ReadStat(g[k - 1])
  BY <1>0, <1>4
<1>6. RunsLike(N, Reader, r, F, g)
  <2>1. g = [k \in 0..N |-> g[k]]
    BY <1>4
  <2> QED
    BY <1>5, <2>1 DEF RunsLike
<1>7. g \in [0..N -> Reader]
  <2> HIDE DEF F
  <2> QED
    BY <1>1, <1>6, LoopIs
<1>8. AfterStats(N, r) = g[N]
  BY <1>4 DEF Repeat, AfterStats
<1> QED
  BY <1>5, <1>7, <1>8 DEF GoesStatRounds

\* What is collected in rounds: an item each while all goes well, and nothing else
\* changes.
IsCollecting(S, ok, had, same, items) ==
  /\ items \in Seq(S) /\ (ok[0] => had[0] = <<>>)
  /\ \A k \in 1..Len(items) : ok[k] => /\ ok[k - 1] /\ same[k] = same[k - 1]
                                       /\ had[k] = Append(had[k - 1], items[k])

\* In the end it is all of the items.
LEMMA Collected ==
  ASSUME NEW S, NEW ok, NEW had, NEW same, NEW items, IsCollecting(S, ok, had, same, items)
  PROVE  ok[Len(items)] => had[Len(items)] = items /\ same[Len(items)] = same[0]
<1>1. PICK N : N = Len(items)
  OBVIOUS
<1>2. /\ items \in Seq(S) /\ (ok[0] => had[0] = <<>>) /\ N \in Nat
      /\ \A k \in 1..N : ok[k] => /\ ok[k - 1] /\ same[k] = same[k - 1]
                                  /\ had[k] = Append(had[k - 1], items[k])
  BY <1>1 DEF IsCollecting
<1> DEFINE T == {k \in 0..N : ok[k] => same[k] = same[0] /\ had[k] = SubSeq(items, 1, k)}
<1>3. 0 \in T
  <2>1. SubSeq(items, 1, 0) \in Seq(S) /\ Len(SubSeq(items, 1, 0)) = 0
    BY <1>2
  <2>2. SubSeq(items, 1, 0) = <<>>
    BY <2>1, NoElements
  <2>3. 0 \in 0..N
    BY <1>2
  <2> QED
    BY <1>2, <2>2, <2>3, Zenon
<1>4. ASSUME NEW k \in 0..(N - 1), k \in T PROVE k + 1 \in T
  <2>1. k + 1 \in 1..N /\ k + 1 \in 0..N /\ (k + 1) - 1 = k
    BY <1>2
  <2>2. ok[k + 1] => /\ ok[k] /\ same[k + 1] = same[k]
                     /\ had[k + 1] = Append(had[k], items[k + 1])
    BY <1>2, <2>1
  <2>3. Append(SubSeq(items, 1, k), items[k + 1]) = SubSeq(items, 1, k + 1)
    BY <1>1, <1>2, <2>1
  <2> QED
    BY <1>4, <2>1, <2>2, <2>3
<1>5. 0..N \subseteq T
  <2> HIDE DEF T
  <2> QED
    BY <1>2, <1>3, <1>4, LoopInduction
<1>6. N \in T
  BY <1>2, <1>5
<1>7. SubSeq(items, 1, N) = items
  BY <1>1, <1>2
<1> QED
  BY <1>1, <1>6, <1>7

\* Where a section of the file begins: its length, and its parts one after another.
SectionFaced(r, q, parts, tail) ==
  AreParts(parts) /\ Facing(r, q, <<Len(parts)>> \o FlattenSeq(parts), tail)

\* Readers in the rounds of the section; each round reads the part that it faces, and
\* is among those that keep it if all goes well.
ReadsSection(r, q, parts, limit, good, after, kept) ==
  LET N == Entries(ReadCount(r, limit)) IN
  /\ limit \in Nat /\ after \in [0..N -> Reader] /\ after[0] = ReadCount(r, limit)
  /\ N = Len(parts) =>
       \A k \in 1..N, t \in Seq(Nat) :
         Facing(after[k - 1], q, parts[k], t) =>
           Passed(after[k - 1], after[k], q, t, k \in good) /\ (after[k].ok => k \in kept)

\* However many entries are announced, it is a number.
LEMMA EntriesTyped ==
  ASSUME NEW r \in Reader, NEW limit \in Nat
  PROVE  /\ Entries(ReadCount(r, limit)) \in Nat
         /\ ReadCount(r, limit) \in Reader /\ Untouched(r, ReadCount(r, limit))
         /\ ReadCount(r, limit).ok => r.ok
<1>1. PICK c : c = ReadCount(r, limit)
  OBVIOUS
<1>2. c \in Reader /\ Untouched(r, c) /\ (c.ok => r.ok /\ c.got[1] \in 0..limit)
  BY <1>1, CountRead
<1> QED
  BY <1>1, <1>2 DEF Entries

\* Then the section is read as written.
LEMMA SectionPassed ==
  ASSUME NEW r, NEW q, NEW parts, NEW tail, NEW limit, NEW good, NEW after,
         NEW kept, SectionFaced(r, q, parts, tail),
         ReadsSection(r, q, parts, limit, good, after, kept)
  PROVE  LET N == Entries(ReadCount(r, limit)) IN
         /\ Passed(r, after[N], q, tail, Len(parts) <= limit /\ 1..Len(parts) \subseteq good)
         /\ after[N].ok => N = Len(parts) /\ \A k \in 1..N : after[k].ok => after[k - 1].ok /\ k \in kept
<1>1. PICK N, c, n, flat : /\ N = Entries(c) /\ c = ReadCount(r, limit)
                           /\ n = Len(parts) /\ flat = FlattenSeq(parts)
  OBVIOUS
<1>2. /\ limit \in Nat /\ after \in [0..N -> Reader] /\ after[0] = c
      /\ N = n => \A k \in 1..N, t \in Seq(Nat) :
                     Facing(after[k - 1], q, parts[k], t) =>
                       Passed(after[k - 1], after[k], q, t, k \in good) /\ (after[k].ok => k \in kept)
  BY <1>1 DEF ReadsSection
<1>3. AreParts(parts) /\ Facing(r, q, <<n>> \o flat, tail)
  BY <1>1 DEF SectionFaced
<1>4. /\ r \in Reader /\ q \in Seq(Nat) /\ tail \in Seq(Nat) /\ n \in Nat
      /\ Before(r, q, (<<n>> \o flat) \o tail)
  BY <1>1, <1>3 DEF Facing, AreParts
<1>5. flat \in Seq(Nat)
  BY <1>1, <1>3, <1>4, FlattenedBefore
<1>6. PICK rest \in [0..n -> Seq(Nat)] :
        /\ rest[0] = flat \o tail /\ rest[n] = tail
        /\ \A k \in 1..n : rest[k - 1] = parts[k] \o rest[k]
  <2>1. AreParts(parts) /\ tail \in Seq(Nat)
    BY <1>3, <1>4
  <2>2. PICK rest : TakesApart(rest, parts, tail)
    BY <2>1, FlattenedBefore
  <2> QED
    BY <1>1, <2>2 DEF TakesApart
<1>7. Passed(r, c, q, flat \o tail, n <= limit) /\ (c.ok => c.got = <<n>>)
  <2>1. flat \o tail \in Seq(Nat) /\ <<n>> \in Seq(Nat)
    BY <1>4, <1>5, Joining
  <2>2. (<<n>> \o flat) \o tail = <<n>> \o (flat \o tail)
    <3>1. PICK length \in Seq(Nat) : length = <<n>>
      BY <2>1
    <3>2. (length \o flat) \o tail = length \o (flat \o tail)
      BY <1>4, <1>5, JoiningMore, Zenon
    <3> QED
      BY <3>1, <3>2
  <2>3. Before(r, q, <<n>> \o (flat \o tail))
    BY <1>4, <2>2, Zenon
  <2>4. Facing(r, q, <<n>>, flat \o tail)
    BY <1>4, <2>1, <2>3 DEF Facing
  <2> QED
    BY <1>1, <1>2, <1>4, <2>4, CountPassed
<1>8. CASE ~c.ok
  <2>1. N = 0
    BY <1>1, <1>8 DEF Entries
  <2> QED
    BY <1>1, <1>2, <1>7, <1>8, <2>1 DEF Passed
<1>9. CASE c.ok
  <2>1. N = n
    BY <1>1, <1>4, <1>7, <1>9 DEF Entries
  <2>2. ASSUME NEW k \in 1..N, Before(after[k - 1], q, rest[k - 1])
        PROVE  /\ Passed(after[k - 1], after[k], q, rest[k], k \in good)
               /\ after[k].ok => k \in kept
    <3>1. k - 1 \in 0..N /\ k \in 0..N /\ k \in 1..n
      BY <1>4, <2>1
    <3>2. parts[k] \in Seq(Nat)
      BY <1>1, <1>3, <3>1 DEF AreParts
    <3>3. rest[k] \in Seq(Nat) /\ after[k - 1] \in Reader
      BY <1>2, <1>6, <2>1, <3>1
    <3>4. Before(after[k - 1], q, parts[k] \o rest[k])
      BY <1>6, <2>2, <3>1
    <3>5. Facing(after[k - 1], q, parts[k], rest[k])
      BY <1>4, <3>2, <3>3, <3>4 DEF Facing
    <3> QED
      BY <1>2, <2>1, <3>3, <3>5
  <2>3. /\ Passed(after[0], after[N], q, rest[N], 1..N \subseteq good)
        /\ \A k \in 1..N : after[k].ok => after[k - 1].ok /\ k \in kept
    <3>1. Before(after[0], q, rest[0])
      BY <1>2, <1>6, <1>7, PassedBefore
    <3>2. IsReading(N, after, rest, q, good)
      BY <1>2, <1>4, <1>6, <2>1, <2>2, <3>1 DEF IsReading
    <3>3. N \in 0..N /\ \A k \in 1..N : k - 1 \in 0..N
      BY <1>4, <2>1
    <3>4. /\ Passed(after[0], after[N], q, rest[N], 1..N \subseteq good)
          /\ \A k \in 0..N : Before(after[k], q, rest[k])
          /\ \A k \in 1..N : after[k].ok => after[k - 1].ok
      BY <3>2, <3>3, LoopPassed
    <3> QED
      BY <2>2, <3>3, <3>4
  <2>4. Passed(c, after[N], q, tail, 1..n \subseteq good)
    BY <1>2, <1>6, <2>1, <2>3
  <2>5. Passed(r, after[N], q, tail, n <= limit /\ 1..n \subseteq good)
    BY <1>7, <2>4 DEF Passed
  <2> QED
    BY <1>1, <2>1, <2>3, <2>5
<1> QED
  BY <1>8, <1>9

\* The parts of a section are as many as its entries.
LEMMA PartsAre ==
  ASSUME NEW n \in Nat, NEW parts \in [1..n -> Seq(Nat)]
  PROVE  AreParts(parts) /\ Len(parts) = n
BY DEF AreParts

\* The last of k entries that has a key.
IsLast(stats, k, key, i) ==
  /\ i \in 1..k /\ stats[i].key = key
  /\ \A j \in 1..k : stats[j].key = key => j <= i

\* The value of each key among k entries is that of the last one.
IsMeaning(m, stats, k) ==
  /\ m = [key \in {stats[i].key : i \in 1..k} |-> m[key]]
  /\ \A key \in DOMAIN m : \E i \in 1..k : IsLast(stats, k, key, i) /\ m[key] = KeptValue(stats[i])

\* Without entries there is none.
LEMMA NoMeaning == ASSUME NEW stats PROVE IsMeaning(<<>>, stats, 0)
<1>1. DOMAIN <<>> = {} /\ 1..0 = {}
  OBVIOUS
<1>2. {stats[i].key : i \in 1..0} = {}
  BY <1>1
<1>3. <<>> = [key \in {} |-> <<>>[key]]
  OBVIOUS
<1> QED
  BY <1>1, <1>2, <1>3 DEF IsMeaning

\* Storing the next entry keeps to it.
LEMMA NextMeaning ==
  ASSUME NEW stats, NEW k \in Nat, NEW m, IsMeaning(m, stats, k)
  PROVE  IsMeaning(Stored(m, stats[k + 1].key, KeptValue(stats[k + 1])), stats, k + 1)
<1>1. PICK key, value, n : key = stats[k + 1].key /\ value = KeptValue(stats[k + 1]) /\ n = Stored(m, key, value)
  OBVIOUS
<1>2. /\ m = [x \in {stats[i].key : i \in 1..k} |-> m[x]]
      /\ \A x \in DOMAIN m : \E i \in 1..k : IsLast(stats, k, x, i) /\ m[x] = KeptValue(stats[i])
  BY DEF IsMeaning
<1>3. DOMAIN m = {stats[i].key : i \in 1..k}
  BY <1>2
<1>4. n = [x \in DOMAIN m \cup {key} |-> IF x = key THEN value ELSE m[x]]
  BY <1>1 DEF Stored
<1>5. DOMAIN m \cup {key} = {stats[i].key : i \in 1..(k + 1)}
  <2>1. 1..(k + 1) = 1..k \cup {k + 1}
    OBVIOUS
  <2> QED
    BY <1>1, <1>3, <2>1
<1>6. n = [x \in {stats[i].key : i \in 1..(k + 1)} |-> n[x]]
  BY <1>4, <1>5
<1>7. ASSUME NEW x \in DOMAIN n
      PROVE  \E i \in 1..(k + 1) : IsLast(stats, k + 1, x, i) /\ n[x] = KeptValue(stats[i])
  <2>1. x \in DOMAIN m \cup {key}
    BY <1>4
  <2>2. CASE x = key
    <3>1. n[x] = value
      BY <1>4, <2>1, <2>2
    <3>2. k + 1 \in 1..(k + 1) /\ \A j \in 1..(k + 1) : j <= k + 1
      OBVIOUS
    <3> QED
      BY <1>1, <2>2, <3>1, <3>2 DEF IsLast
  <2>3. CASE x # key
    <3>1. PICK i \in 1..k : IsLast(stats, k, x, i) /\ m[x] = KeptValue(stats[i])
      BY <1>2, <2>1, <2>3
    <3>2. n[x] = m[x]
      BY <1>4, <2>1, <2>3
    <3>3. \A j \in 1..(k + 1) : j \in 1..k \/ j = k + 1
      OBVIOUS
    <3>4. IsLast(stats, k + 1, x, i)
      BY <1>1, <2>3, <3>1, <3>3 DEF IsLast
    <3> QED
      BY <3>1, <3>2, <3>4
  <2> QED
    BY <2>2, <2>3
<1> QED
  BY <1>1, <1>6, <1>7 DEF IsMeaning

\* After the last entry it is what the stats mean.
LEMMA AllMeaning ==
  ASSUME NEW S, NEW stats \in Seq(S), NEW m, IsMeaning(m, stats, Len(stats))
  PROVE  m = Meaning(stats)
<1>1. PICK n : n = Len(stats)
  OBVIOUS
<1>2. n \in Nat /\ DOMAIN stats = 1..n
  BY <1>1
<1> DEFINE last(key) == CHOOSE i \in DOMAIN stats :
                          /\ stats[i].key = key
                          /\ \A j \in DOMAIN stats : stats[j].key = key => j <= i
<1>3. Meaning(stats) = [key \in {stats[i].key : i \in DOMAIN stats} |-> KeptValue(stats[last(key)])]
  BY DEF Meaning, KeptValue
<1>4. /\ m = [key \in {stats[i].key : i \in DOMAIN stats} |-> m[key]]
      /\ \A key \in DOMAIN m : \E i \in 1..n : IsLast(stats, n, key, i) /\ m[key] = KeptValue(stats[i])
  BY <1>1, <1>2 DEF IsMeaning
<1>5. ASSUME NEW key \in {stats[i].key : i \in DOMAIN stats}
      PROVE  m[key] = KeptValue(stats[last(key)])
  <2>1. key \in DOMAIN m
    BY <1>4
  <2>2. PICK i \in 1..n : IsLast(stats, n, key, i) /\ m[key] = KeptValue(stats[i])
    BY <1>4, <2>1
  <2>3. IsLast(stats, n, key, last(key))
    BY <1>2, <2>2 DEF IsLast
  <2>4. last(key) = i
    <3> HIDE DEF last
    <3> QED
      BY <1>2, <2>2, <2>3 DEF IsLast
  <2> QED
    BY <2>2, <2>4
<1> HIDE DEF last
<1> QED
  BY <1>3, <1>4, <1>5

-----------------------------------------------------------------------------
(* The sections of a file *)

\* What the stats are encoded as, and when they are within the limits.
EncodedStats(stats) ==
  <<Len(stats)>> \o FlattenSeq([i \in DOMAIN stats |-> EncodedStat(stats[i])])

FitStats(stats) == Len(stats) <= MaxStats /\ \A i \in 1..Len(stats) : FitsStat(stats[i])

\* Encoding an entry gives symbols.
LEMMA StatEncoded == ASSUME NEW stat, IsStat(stat) PROVE EncodedStat(stat) \in Seq(Nat)
<1>1. stat.key \in Seq(Nat) /\ stat.tag \in 1..4 /\ stat.value \in Seq(Nat)
  BY DEF IsStat
<1>2. \A s \in Seq(Nat) : EncodedString(s) \in Seq(Nat)
  BY DEF EncodedString
<1>3. PICK t, k, v : /\ t = <<stat.tag>> /\ k = EncodedString(stat.key)
                     /\ v = IF stat.tag = 1 THEN EncodedString(stat.value) ELSE stat.value
  OBVIOUS
<1>4. t \in Seq(Nat) /\ k \in Seq(Nat) /\ v \in Seq(Nat)
  BY <1>1, <1>2, <1>3
<1>5. (k \o t) \o v \in Seq(Nat)
  BY <1>4
<1> QED
  BY <1>3, <1>5 DEF EncodedStat

\* Stats that can be written, one by one.
AreStats(stats) ==
  /\ stats \in Seq([key : Seq(Nat), tag : 1..4, value : Seq(Nat)])
  /\ \A i \in 1..Len(stats) : stats[i].tag # 1 => Len(stats[i].value) = 1

\* The stats are read as what they mean.
LEMMA StatsPassed ==
  ASSUME NEW r, NEW q, NEW stats, NEW tail, AreStats(stats), r.ok => r.stats = <<>>,
         Facing(r, q, EncodedStats(stats), tail)
  PROVE  /\ Passed(r, ReadStats(r), q, tail, FitStats(stats))
         /\ ReadStats(r).ok => Parts(ReadStats(r)) = [Parts(r) EXCEPT !.stats = Meaning(stats)]
<1>1. PICK c, N, n : c = ReadCount(r, MaxStats) /\ N = Entries(c) /\ n = Len(stats)
  OBVIOUS
<1>2. /\ stats \in Seq([key : Seq(Nat), tag : 1..4, value : Seq(Nat)])
      /\ n \in Nat /\ \A k \in 1..n : IsStat(stats[k])
  <2>1. stats \in Seq([key : Seq(Nat), tag : 1..4, value : Seq(Nat)])
    BY DEF AreStats
  <2>2. n \in Nat /\ \A k \in 1..n : stats[k] \in [key : Seq(Nat), tag : 1..4, value : Seq(Nat)]
    <3>1. PICK S : S = [key : Seq(Nat), tag : 1..4, value : Seq(Nat)]
      OBVIOUS
    <3>2. stats \in Seq(S)
      BY <2>1, <3>1
    <3>3. n \in Nat /\ \A k \in 1..n : stats[k] \in S
      BY <1>1, <3>2
    <3> QED
      BY <3>1, <3>3
  <2>3. \A k \in 1..n : stats[k].tag # 1 => Len(stats[k].value) = 1
    BY <1>1 DEF AreStats
  <2> QED
    BY <2>1, <2>2, <2>3 DEF IsStat
<1>3. r \in Reader /\ N \in Nat /\ c \in Reader /\ Untouched(r, c) /\ (c.ok => r.ok)
  <2>1. r \in Reader
    BY DEF Facing
  <2> QED
    BY <1>1, <2>1, Limits, EntriesTyped
<1>4. PICK after \in [0..N -> Reader] :
        /\ after[0] = c /\ AfterStats(N, c) = after[N]
        /\ \A k \in 1..N : after[k] = ReadStat(after[k - 1])
  <2>1. MayGoRound(N, c)
    BY <1>3 DEF MayGoRound
  <2> QED
    BY <2>1, StatRounds DEF GoesStatRounds
<1>5. ReadStats(r) = after[N]
  BY <1>1, <1>4 DEF ReadStats, AfterStats
<1>6. PICK parts : parts = [k \in 1..n |-> EncodedStat(stats[k])]
  OBVIOUS
<1>7. AreParts(parts) /\ Len(parts) = n
  <2>1. parts \in [1..n -> Seq(Nat)]
    BY <1>2, <1>6, StatEncoded
  <2> QED
    BY <1>2, <2>1, PartsAre
<1>8. SectionFaced(r, q, parts, tail)
  <2>1. DOMAIN stats = 1..n
    BY <1>1, <1>2
  <2>2. parts = [i \in DOMAIN stats |-> EncodedStat(stats[i])]
    BY <1>6, <2>1
  <2>3. EncodedStats(stats) = <<n>> \o FlattenSeq(parts)
    BY <1>1, <2>2 DEF EncodedStats
  <2> QED
    BY <1>7, <2>3 DEF SectionFaced
<1> DEFINE good == {k \in 1..n : FitsStat(stats[k])}
           kept == {k \in 1..N : Parts(after[k]) = [Parts(after[k - 1]) EXCEPT
                                   !.stats = Stored(@, stats[k].key, KeptValue(stats[k]))]}
<1>9. ReadsSection(r, q, parts, MaxStats, good, after, kept)
  <2>1. ASSUME N = n, NEW k \in 1..N, NEW t \in Seq(Nat), Facing(after[k - 1], q, parts[k], t)
        PROVE  Passed(after[k - 1], after[k], q, t, k \in good) /\ (after[k].ok => k \in kept)
    <3>1. parts[k] = EncodedStat(stats[k]) /\ IsStat(stats[k])
      BY <1>2, <1>6, <2>1
    <3>2. /\ Passed(after[k - 1], ReadStat(after[k - 1]), q, t, FitsStat(stats[k]))
          /\ ReadStat(after[k - 1]).ok =>
               Parts(ReadStat(after[k - 1])) =
                 [Parts(after[k - 1]) EXCEPT !.stats = Stored(@, stats[k].key, KeptValue(stats[k]))]
      BY <2>1, <3>1, StatPassed
    <3>3. after[k] = ReadStat(after[k - 1]) /\ (k \in good <=> FitsStat(stats[k]))
      BY <1>4, <2>1
    <3> HIDE DEF good
    <3>4. Passed(after[k - 1], after[k], q, t, k \in good)
      BY <3>2, <3>3 DEF Passed
    <3> QED
      BY <3>2, <3>3, <3>4
  <2> HIDE DEF good, kept
  <2> QED
    BY <1>1, <1>4, <1>7, <2>1, Limits DEF ReadsSection
<1> HIDE DEF good, kept
<1>10. /\ Passed(r, after[N], q, tail, n <= MaxStats /\ 1..n \subseteq good)
       /\ after[N].ok => N = n /\ \A k \in 1..N : after[k].ok => after[k - 1].ok /\ k \in kept
  <2>1. LET M == Entries(ReadCount(r, MaxStats)) IN
        /\ Passed(r, after[M], q, tail, Len(parts) <= MaxStats /\ 1..Len(parts) \subseteq good)
        /\ after[M].ok => M = Len(parts) /\ \A k \in 1..M : after[k].ok => after[k - 1].ok /\ k \in kept
    BY ONLY <1>8, <1>9, SectionPassed
  <2> QED
    BY <1>1, <1>7, <2>1
<1>11. Passed(r, after[N], q, tail, FitStats(stats))
  <2>1. n <= MaxStats /\ 1..n \subseteq good <=> FitStats(stats)
    BY <1>1 DEF FitStats, good
  <2> QED
    BY <1>10, <2>1 DEF Passed
<1>12. ASSUME after[N].ok PROVE Parts(after[N]) = [Parts(r) EXCEPT !.stats = Meaning(stats)]
  <2>1. N = n /\ \A k \in 1..N : after[k].ok => after[k - 1].ok /\ k \in kept
    BY <1>10, <1>12
  <2>2. Parts(c) = Parts(r)
    BY <1>3 DEF Untouched
  <2> DEFINE T == {k \in 0..N : after[k].ok => \E m : /\ Parts(after[k]) = [Parts(r) EXCEPT !.stats = m]
                                                      /\ IsMeaning(m, stats, k)}
  <2>3. 0 \in T
    <3>1. r.ok => Parts(r) = [Parts(r) EXCEPT !.stats = <<>>]
      BY DEF Parts
    <3>2. 0 \in 0..N /\ (after[0].ok => Parts(after[0]) = [Parts(r) EXCEPT !.stats = <<>>])
      <4>1. 0 \in 0..N
        BY <1>3
      <4>2. Parts(after[0]) = Parts(c)
        BY <1>4
      <4>3. after[0].ok => r.ok
        BY <1>3, <1>4
      <4> QED
        BY <2>2, <3>1, <4>1, <4>2, <4>3
    <3> QED
      BY <3>2, NoMeaning
  <2>4. ASSUME NEW k \in 0..(N - 1), k \in T PROVE k + 1 \in T
    <3>1. k + 1 \in 1..N /\ k + 1 \in 0..N /\ (k + 1) - 1 = k /\ k \in Nat
      BY <1>3
    <3>2. ASSUME after[k + 1].ok
          PROVE  \E m : /\ Parts(after[k + 1]) = [Parts(r) EXCEPT !.stats = m]
                        /\ IsMeaning(m, stats, k + 1)
      <4>1. after[k].ok /\ k + 1 \in kept
        BY <2>1, <3>1, <3>2
      <4>2. PICK m : Parts(after[k]) = [Parts(r) EXCEPT !.stats = m] /\ IsMeaning(m, stats, k)
        BY <2>4, <4>1
      <4>3. PICK m1 : m1 = Stored(m, stats[k + 1].key, KeptValue(stats[k + 1]))
        OBVIOUS
      <4>4. Parts(after[k + 1]) = [Parts(after[k]) EXCEPT
                                     !.stats = Stored(@, stats[k + 1].key, KeptValue(stats[k + 1]))]
        BY <3>1, <4>1 DEF kept
      <4>5. Parts(after[k]).stats = m
        BY <4>2 DEF Parts
      <4>6. Parts(after[k + 1]) = [Parts(r) EXCEPT !.stats = m1]
        BY <4>2, <4>3, <4>4, <4>5 DEF Parts
      <4>7. IsMeaning(m1, stats, k + 1)
        BY <3>1, <4>2, <4>3, NextMeaning
      <4> QED
        BY <4>6, <4>7
    <3> QED
      BY <3>1, <3>2
  <2>5. 0..N \subseteq T
    <3> HIDE DEF T
    <3> QED
      BY <1>3, <2>3, <2>4, LoopInduction
  <2>6. PICK m : Parts(after[N]) = [Parts(r) EXCEPT !.stats = m] /\ IsMeaning(m, stats, N)
    <3>1. N \in T
      BY <1>3, <2>5
    <3> QED
      BY <1>12, <3>1
  <2>7. m = Meaning(stats)
    BY <1>1, <1>2, <2>1, <2>6, AllMeaning
  <2> QED
    BY <2>6, <2>7
<1> QED
  BY <1>5, <1>11, <1>12

-----------------------------------------------------------------------------
(* The cells of a row *)

\* A cell is a string.
IsCell(cell) == cell \in Seq(Nat)
AreCells(items) == items \in Seq(Seq(Nat))
EncodedCell(cell) == EncodedString(cell)
EncodedCells(items) ==
  <<Len(items)>> \o FlattenSeq([i \in DOMAIN items |-> EncodedCell(items[i])])
FitsCell(cell) == Len(cell) <= MaxString
FitCells(items) == Len(items) <= MaxCols /\ \A i \in 1..Len(items) : FitsCell(items[i])

\* What reading cells leaves alone, and what it adds.
ButCells(s) == Parts(s)
CellKept(r, s, cell) == s.row = Append(r.row, cell) /\ ButCells(s) = ButCells(r)

\* Encoding a cell gives symbols.
LEMMA CellEncoded == ASSUME NEW cell, IsCell(cell) PROVE EncodedCell(cell) \in Seq(Nat)
BY DEF IsCell, EncodedCell, EncodedString

\* Reading a cell leaves a reader.
LEMMA CellRead == ASSUME NEW r \in Reader PROVE ReadCell(r) \in Reader
<1>1. PICK cell : cell = ReadString(r, MaxString)
  OBVIOUS
<1>2. cell \in Reader
  BY <1>1, Limits, StringRead
<1>3. ReadCell(r) = IF cell.ok THEN [cell EXCEPT !.row = Append(cell.row, cell.got)] ELSE cell
  BY <1>1 DEF ReadCell
<1>4. PICK row : row = Append(cell.row, cell.got) /\ row \in Seq(Seq(Nat))
  <2>1. cell.row \in Seq(Seq(Nat)) /\ cell.got \in Seq(Nat)
    BY <1>2 DEF Reader
  <2> QED
    BY <2>1, Appended
<1>5. [cell EXCEPT !.row = row] \in Reader
  BY <1>2, <1>4 DEF Reader
<1> QED
  BY <1>2, <1>3, <1>4, <1>5

\* A cell is read as written.
LEMMA CellPassed ==
  ASSUME NEW r, NEW q, NEW cell, NEW tail, IsCell(cell), Facing(r, q, EncodedCell(cell), tail)
  PROVE  /\ Passed(r, ReadCell(r), q, tail, FitsCell(cell))
         /\ ReadCell(r).ok => CellKept(r, ReadCell(r), cell)
<1>1. PICK s : s = ReadString(r, MaxString)
  OBVIOUS
<1>2. cell \in Seq(Nat) /\ r \in Reader
  BY DEF IsCell, Facing
<1>3. /\ Passed(r, s, q, tail, Len(cell) <= MaxString) /\ (s.ok => s.got = cell)
      /\ s \in Reader /\ Untouched(r, s)
  <2>1. Facing(r, q, EncodedString(cell), tail)
    BY DEF EncodedCell
  <2>2. /\ Passed(r, ReadString(r, MaxString), q, tail, Len(cell) <= MaxString)
        /\ ReadString(r, MaxString).ok => ReadString(r, MaxString).got = cell
    BY <1>2, <2>1, Limits, StringPassed
  <2>3. ReadString(r, MaxString) \in Reader /\ Untouched(r, ReadString(r, MaxString))
    BY <1>2, Limits, StringRead
  <2> QED
    BY <1>1, <2>2, <2>3
<1>4. ReadCell(r) = IF s.ok THEN [s EXCEPT !.row = Append(s.row, s.got)] ELSE s
  BY <1>1 DEF ReadCell
<1>5. ReadCell(r) \in Reader
  BY <1>2, CellRead
<1>6. CASE ~s.ok
  BY <1>3, <1>4, <1>6 DEF Passed, FitsCell
<1>7. CASE s.ok
  <2>1. PICK row, t : row = Append(r.row, cell) /\ t = [s EXCEPT !.row = row]
    OBVIOUS
  <2>2. ReadCell(r) = t
    BY <1>3, <1>4, <1>7, <2>1 DEF Untouched
  <2>3. t.ok = s.ok /\ t.left = s.left /\ t.row = row /\ Parts(t) = Parts(s)
    BY <1>3, <2>1 DEF Reader, Parts
  <2> QED
    BY <1>3, <1>5, <2>1, <2>2, <2>3 DEF Passed, FitsCell, CellKept, ButCells, Untouched
<1> QED
  BY <1>6, <1>7

\* The cells of a row, one by one.
AfterCells(N, r) == Repeat(LAMBDA s, k : ReadCell(s), N, r)

\* What it is after each of them.
GoesCellRounds(after, N, r) ==
  /\ after \in [0..N -> Reader] /\ after[0] = r /\ AfterCells(N, r) = after[N]
  /\ \A k \in 1..N : after[k] = ReadCell(after[k - 1])

\* They are readers all along.
LEMMA CellRounds ==
  ASSUME NEW N, NEW r, MayGoRound(N, r)
  PROVE  \E after : GoesCellRounds(after, N, r)
<1>0. N \in Nat /\ r \in Reader
  BY DEF MayGoRound
<1> DEFINE F == [k \in 1..N |-> [s \in Reader |-> ReadCell(s)]]
           Runs(g) == g = [k \in 0..N |-> IF k = 0 THEN r ELSE ReadCell(g[k - 1])]
<1>1. IsLoop(N, Reader, r, F)
  BY <1>0, CellRead DEF IsLoop
<1>2. PICK out \in [0..N -> Reader] : out[0] = r /\ \A k \in 1..N : out[k] = F[k][out[k - 1]]
  <2> HIDE DEF F
  <2> QED
    BY <1>1, LoopExists
<1>3. Runs(out)
  <2>1. ASSUME NEW k \in 0..N PROVE out[k] = IF k = 0 THEN r ELSE ReadCell(out[k - 1])
    <3>1. k = 0 \/ (k # 0 /\ k \in 1..N /\ k - 1 \in 0..N)
      BY <1>0
    <3> QED
      BY <1>2, <3>1
  <2> QED
    BY <1>2, <2>1
<1>4. PICK g : Runs(g) /\ g = CHOOSE h : Runs(h)
  BY <1>3
<1>5. g[0] = r /\ \A k \in 1..N : g[k] = ReadCell(g[k - 1])
  BY <1>0, <1>4
<1>6. RunsLike(N, Reader, r, F, g)
  <2>1. g = [k \in 0..N |-> g[k]]
    BY <1>4
  <2> QED
    BY <1>5, <2>1 DEF RunsLike
<1>7. g \in [0..N -> Reader]
  <2> HIDE DEF F
  <2> QED
    BY <1>1, <1>6, LoopIs
<1>8. AfterCells(N, r) = g[N]
  BY <1>4 DEF Repeat, AfterCells
<1> QED
  BY <1>5, <1>7, <1>8 DEF GoesCellRounds

\* The cells of a row are read as written.
LEMMA CellsPassed ==
  ASSUME NEW r, NEW q, NEW items, NEW tail, AreCells(items), r.ok => r.row = <<>>,
         Facing(r, q, EncodedCells(items), tail)
  PROVE  LET c == ReadCount(r, MaxCols)
             s == AfterCells(Entries(c), c)
         IN /\ Passed(r, s, q, tail, FitCells(items))
            /\ s.ok => s.row = items /\ ButCells(s) = ButCells(r)
<1>1. PICK c, N, n : c = ReadCount(r, MaxCols) /\ N = Entries(c) /\ n = Len(items)
  OBVIOUS
<1>2. n \in Nat /\ DOMAIN items = 1..n /\ \A k \in 1..n : IsCell(items[k])
  BY <1>1 DEF AreCells, IsCell
<1>3. r \in Reader /\ N \in Nat /\ c \in Reader /\ Untouched(r, c) /\ (c.ok => r.ok)
  <2>1. r \in Reader
    BY DEF Facing
  <2> QED
    BY <1>1, <2>1, Limits, EntriesTyped
<1>4. PICK after \in [0..N -> Reader] :
        /\ after[0] = c /\ AfterCells(N, c) = after[N]
        /\ \A k \in 1..N : after[k] = ReadCell(after[k - 1])
  <2>1. MayGoRound(N, c)
    BY <1>3 DEF MayGoRound
  <2> QED
    BY <2>1, CellRounds DEF GoesCellRounds
<1>5. PICK parts : parts = [k \in 1..n |-> EncodedCell(items[k])]
  OBVIOUS
<1>6. AreParts(parts) /\ Len(parts) = n
  <2>1. parts \in [1..n -> Seq(Nat)]
    BY <1>2, <1>5, CellEncoded
  <2> QED
    BY <1>2, <2>1, PartsAre
<1>7. SectionFaced(r, q, parts, tail)
  <2>1. parts = [i \in DOMAIN items |-> EncodedCell(items[i])]
    BY <1>2, <1>5
  <2>2. EncodedCells(items) = <<n>> \o FlattenSeq(parts)
    BY <1>1, <2>1 DEF EncodedCells
  <2> QED
    BY <1>6, <2>2 DEF SectionFaced
<1> DEFINE good == {k \in 1..n : FitsCell(items[k])}
           kept == {k \in 1..N : CellKept(after[k - 1], after[k], items[k])}
<1>8. ReadsSection(r, q, parts, MaxCols, good, after, kept)
  <2>1. ASSUME N = n, NEW k \in 1..N, NEW t \in Seq(Nat), Facing(after[k - 1], q, parts[k], t)
        PROVE  Passed(after[k - 1], after[k], q, t, k \in good) /\ (after[k].ok => k \in kept)
    <3>1. parts[k] = EncodedCell(items[k]) /\ IsCell(items[k])
      BY <1>2, <1>5, <2>1
    <3>2. /\ Passed(after[k - 1], ReadCell(after[k - 1]), q, t, FitsCell(items[k]))
          /\ ReadCell(after[k - 1]).ok =>
               CellKept(after[k - 1], ReadCell(after[k - 1]), items[k])
      BY <2>1, <3>1, CellPassed
    <3>3. after[k] = ReadCell(after[k - 1]) /\ (k \in good <=> FitsCell(items[k]))
      BY <1>4, <2>1
    <3> HIDE DEF good
    <3>4. Passed(after[k - 1], after[k], q, t, k \in good)
      BY <3>2, <3>3 DEF Passed
    <3> QED
      BY <3>2, <3>3, <3>4
  <2> HIDE DEF good, kept
  <2> QED
    BY <1>1, <1>4, <1>6, <2>1, Limits DEF ReadsSection
<1> HIDE DEF good, kept
<1>9. /\ Passed(r, after[N], q, tail, n <= MaxCols /\ 1..n \subseteq good)
      /\ after[N].ok => N = n /\ \A k \in 1..N : after[k].ok => after[k - 1].ok /\ k \in kept
  <2>1. LET M == Entries(ReadCount(r, MaxCols)) IN
        /\ Passed(r, after[M], q, tail, Len(parts) <= MaxCols /\ 1..Len(parts) \subseteq good)
        /\ after[M].ok => M = Len(parts) /\ \A k \in 1..M : after[k].ok => after[k - 1].ok /\ k \in kept
    BY ONLY <1>7, <1>8, SectionPassed
  <2> QED
    BY <1>1, <1>6, <2>1
<1>10. Passed(r, after[N], q, tail, FitCells(items))
  <2>1. n <= MaxCols /\ 1..n \subseteq good <=> FitCells(items)
    BY <1>1 DEF FitCells, good
  <2> QED
    BY <1>9, <2>1 DEF Passed
<1>11. ASSUME after[N].ok PROVE after[N].row = items /\ ButCells(after[N]) = ButCells(r)
  <2>1. N = n /\ \A k \in 1..N : after[k].ok => after[k - 1].ok /\ k \in kept
    BY <1>9, <1>11
  <2> DEFINE ok == [k \in 0..N |-> after[k].ok]
             had == [k \in 0..N |-> after[k].row]
             same == [k \in 0..N |-> ButCells(after[k])]
  <2>2. PICK S : items \in Seq(S)
    BY DEF AreCells
  <2>3. /\ ok[0] => had[0] = <<>>
        /\ same[0] = ButCells(r) /\ 0 \in 0..N /\ N \in 0..N
    BY <1>3, <1>4 DEF Untouched, ButCells, Parts
  <2>4. ASSUME NEW k \in 1..n, ok[k]
        PROVE  ok[k - 1] /\ same[k] = same[k - 1] /\ had[k] = Append(had[k - 1], items[k])
    <3>1. k - 1 \in 0..N /\ k \in 0..N /\ k \in 1..N
      BY <1>2, <2>1
    <3>2. after[k - 1].ok /\ CellKept(after[k - 1], after[k], items[k])
      BY <2>1, <2>4, <3>1 DEF kept
    <3> QED
      BY <3>1, <3>2 DEF CellKept
  <2>5. ok[N]
    BY <1>11, <2>3
  <2> HIDE DEF ok, had, same
  <2>6. IsCollecting(S, ok, had, same, items)
    BY <1>1, <2>2, <2>3, <2>4 DEF IsCollecting
  <2>7. had[N] = items /\ same[N] = same[0]
    BY <1>1, <2>1, <2>5, <2>6, Collected
  <2> QED
    BY <2>3, <2>7 DEF had, same
<1> QED
  BY <1>1, <1>4, <1>10, <1>11

-----------------------------------------------------------------------------
(* The rows of the events *)

\* A row is strings, the events are rows.
IsRow(row) == row \in Seq(Seq(Nat))
AreRows(items) == items \in Seq(Seq(Seq(Nat)))
EncodedRows(items) ==
  <<Len(items)>> \o FlattenSeq([i \in DOMAIN items |-> EncodedRow(items[i])])
FitsRow(row) == FitCells(row)
FitRows(items) == Len(items) <= MaxRows /\ \A i \in 1..Len(items) : FitsRow(items[i])

\* What reading rows leaves alone, and what it adds.
ButRows(s) == [Parts(s) EXCEPT !.events = <<>>]
RowKept(r, s, row) == s.events = Append(r.events, row) /\ ButRows(s) = ButRows(r)

\* A row is encoded as its cells.
LEMMA RowEncoded ==
  ASSUME NEW row, IsRow(row)
  PROVE  EncodedRow(row) \in Seq(Nat) /\ EncodedRow(row) = EncodedCells(row)
<1>1. EncodedRow(row) = EncodedCells(row)
  BY DEF EncodedRow, EncodedCells, EncodedCell
<1>2. PICK n, parts : n = Len(row) /\ parts = [i \in DOMAIN row |-> EncodedCell(row[i])]
  OBVIOUS
<1>3. n \in Nat /\ DOMAIN row = 1..n /\ \A i \in 1..n : IsCell(row[i])
  BY <1>2 DEF IsRow, IsCell
<1>4. parts \in [1..n -> Seq(Nat)]
  BY <1>2, <1>3, CellEncoded
<1>5. AreParts(parts)
  BY <1>3, <1>4, PartsAre
<1>6. PICK flat : flat = FlattenSeq(parts) /\ flat \in Seq(Nat)
  <2>1. <<>> \in Seq(Nat)
    OBVIOUS
  <2> QED
    BY <1>5, <2>1, FlattenedBefore
<1>7. <<n>> \o flat \in Seq(Nat)
  BY <1>3, <1>6
<1> QED
  BY <1>1, <1>2, <1>6, <1>7 DEF EncodedCells

\* Reading a row begins with none of its cells.
LEMMA RowBegun ==
  ASSUME NEW r \in Reader
  PROVE  LET b == [r EXCEPT !.row = <<>>]
             c == ReadCount(b, MaxCols)
             s == AfterCells(Entries(c), c)
         IN /\ b \in Reader /\ b.row = <<>> /\ b.ok = r.ok /\ b.left = r.left
            /\ Parts(b) = Parts(r) /\ s \in Reader
            /\ ReadRow(r) = IF s.ok THEN [s EXCEPT !.events = Append(s.events, s.row)] ELSE s
<1>1. PICK b, c, N, s : /\ b = [r EXCEPT !.row = <<>>] /\ c = ReadCount(b, MaxCols)
                        /\ N = Entries(c) /\ s = AfterCells(N, c)
  OBVIOUS
<1>2. /\ b \in Reader /\ b.row = <<>> /\ b.ok = r.ok /\ b.left = r.left /\ Parts(b) = Parts(r)
  <2>1. /\ b.row = <<>> /\ b.ok = r.ok /\ b.left = r.left /\ b.name = r.name
        /\ b.stats = r.stats /\ b.events = r.events /\ b.trace = r.trace /\ b.env = r.env
    BY <1>1 DEF Reader
  <2>2. PICK row : row = <<>> /\ row \in Seq(Seq(Nat))
    BY EmptyTyped
  <2>3. [r EXCEPT !.row = row] \in Reader
    BY <2>2 DEF Reader
  <2> QED
    BY <1>1, <2>1, <2>2, <2>3 DEF Parts
<1>3. c \in Reader /\ N \in Nat
  BY <1>1, <1>2, Limits, EntriesTyped
<1>4. s \in Reader
  <2>1. MayGoRound(N, c)
    BY <1>3 DEF MayGoRound
  <2>2. PICK after : GoesCellRounds(after, N, c)
    BY <2>1, CellRounds
  <2> QED
    BY <1>1, <1>3, <2>2 DEF GoesCellRounds
<1>5. ReadRow(r) = IF s.ok THEN [s EXCEPT !.events = Append(s.events, s.row)] ELSE s
  BY <1>1 DEF ReadRow, AfterCells
<1> QED
  BY <1>1, <1>2, <1>4, <1>5

\* Reading a row leaves a reader.
LEMMA RowRead == ASSUME NEW r \in Reader PROVE ReadRow(r) \in Reader
<1>1. PICK s : /\ s \in Reader
               /\ ReadRow(r) = IF s.ok THEN [s EXCEPT !.events = Append(s.events, s.row)] ELSE s
  BY RowBegun
<1>2. PICK events : events = Append(s.events, s.row) /\ events \in Seq(Seq(Seq(Nat)))
  <2>1. s.events \in Seq(Seq(Seq(Nat))) /\ s.row \in Seq(Seq(Nat))
    BY <1>1 DEF Reader
  <2> QED
    BY <2>1, Appended
<1>3. [s EXCEPT !.events = events] \in Reader
  BY <1>1, <1>2 DEF Reader
<1> QED
  BY <1>1, <1>2, <1>3

\* A row is read as written.
LEMMA RowPassed ==
  ASSUME NEW r, NEW q, NEW row, NEW tail, IsRow(row), Facing(r, q, EncodedRow(row), tail)
  PROVE  /\ Passed(r, ReadRow(r), q, tail, FitsRow(row))
         /\ ReadRow(r).ok => RowKept(r, ReadRow(r), row)
<1>1. PICK b, c, s : /\ b = [r EXCEPT !.row = <<>>] /\ c = ReadCount(b, MaxCols)
                     /\ s = AfterCells(Entries(c), c)
  OBVIOUS
<1>2. r \in Reader
  BY DEF Facing
<1>3. /\ b \in Reader /\ b.row = <<>> /\ b.ok = r.ok /\ b.left = r.left
      /\ Parts(b) = Parts(r) /\ s \in Reader
      /\ ReadRow(r) = IF s.ok THEN [s EXCEPT !.events = Append(s.events, s.row)] ELSE s
  BY <1>1, <1>2, RowBegun
<1>4. Facing(b, q, EncodedCells(row), tail)
  BY <1>3, RowEncoded DEF Facing, Before
<1>5. /\ Passed(b, s, q, tail, FitCells(row))
      /\ s.ok => s.row = row /\ ButCells(s) = ButCells(b)
  <2>1. AreCells(row)
    BY DEF IsRow, AreCells
  <2>2. b.row = <<>>
    BY <1>3
  <2>3. LET d == ReadCount(b, MaxCols)
            t == AfterCells(Entries(d), d)
        IN Passed(b, t, q, tail, FitCells(row)) /\ (t.ok => t.row = row /\ ButCells(t) = ButCells(b))
    BY ONLY <1>4, <2>1, <2>2, CellsPassed
  <2> QED
    BY <1>1, <2>3
<1>6. ReadRow(r) \in Reader
  BY <1>2, RowRead
<1>7. CASE ~s.ok
  BY <1>3, <1>5, <1>7 DEF Passed, FitsRow
<1>8. CASE s.ok
  <2>1. PICK events, t : events = Append(s.events, row) /\ t = [s EXCEPT !.events = events]
    OBVIOUS
  <2>2. ReadRow(r) = t
    BY <1>3, <1>5, <1>8, <2>1
  <2>3. /\ t.ok = s.ok /\ t.left = s.left /\ t.events = events
        /\ t.name = s.name /\ t.stats = s.stats /\ t.trace = s.trace /\ t.env = s.env
    BY <1>3, <2>1 DEF Reader
  <2>4. Passed(r, t, q, tail, FitsRow(row))
    BY <1>3, <1>5, <1>6, <2>2, <2>3 DEF Passed, FitsRow
  <2>5. /\ s.name = r.name /\ s.stats = r.stats /\ s.trace = r.trace /\ s.env = r.env
        /\ s.events = r.events
    BY <1>3, <1>5, <1>8 DEF ButCells, Parts
  <2>6. RowKept(r, t, row)
    BY <2>1, <2>3, <2>5 DEF RowKept, ButRows, Parts
  <2> QED
    BY <2>2, <2>4, <2>6
<1> QED
  BY <1>7, <1>8

\* The rows of the events, one by one.
AfterRows(N, r) == Repeat(LAMBDA s, k : ReadRow(s), N, r)

\* What it is after each of them.
GoesRowRounds(after, N, r) ==
  /\ after \in [0..N -> Reader] /\ after[0] = r /\ AfterRows(N, r) = after[N]
  /\ \A k \in 1..N : after[k] = ReadRow(after[k - 1])

\* They are readers all along.
LEMMA RowRounds ==
  ASSUME NEW N, NEW r, MayGoRound(N, r)
  PROVE  \E after : GoesRowRounds(after, N, r)
<1>0. N \in Nat /\ r \in Reader
  BY DEF MayGoRound
<1> DEFINE F == [k \in 1..N |-> [s \in Reader |-> ReadRow(s)]]
           Runs(g) == g = [k \in 0..N |-> IF k = 0 THEN r ELSE ReadRow(g[k - 1])]
<1>1. IsLoop(N, Reader, r, F)
  BY <1>0, RowRead DEF IsLoop
<1>2. PICK out \in [0..N -> Reader] : out[0] = r /\ \A k \in 1..N : out[k] = F[k][out[k - 1]]
  <2> HIDE DEF F
  <2> QED
    BY <1>1, LoopExists
<1>3. Runs(out)
  <2>1. ASSUME NEW k \in 0..N PROVE out[k] = IF k = 0 THEN r ELSE ReadRow(out[k - 1])
    <3>1. k = 0 \/ (k # 0 /\ k \in 1..N /\ k - 1 \in 0..N)
      BY <1>0
    <3> QED
      BY <1>2, <3>1
  <2> QED
    BY <1>2, <2>1
<1>4. PICK g : Runs(g) /\ g = CHOOSE h : Runs(h)
  BY <1>3
<1>5. g[0] = r /\ \A k \in 1..N : g[k] = ReadRow(g[k - 1])
  BY <1>0, <1>4
<1>6. RunsLike(N, Reader, r, F, g)
  <2>1. g = [k \in 0..N |-> g[k]]
    BY <1>4
  <2> QED
    BY <1>5, <2>1 DEF RunsLike
<1>7. g \in [0..N -> Reader]
  <2> HIDE DEF F
  <2> QED
    BY <1>1, <1>6, LoopIs
<1>8. AfterRows(N, r) = g[N]
  BY <1>4 DEF Repeat, AfterRows
<1> QED
  BY <1>5, <1>7, <1>8 DEF GoesRowRounds

\* The rows of the events are read as written.
LEMMA RowsPassed ==
  ASSUME NEW r, NEW q, NEW items, NEW tail, AreRows(items), r.ok => r.events = <<>>,
         Facing(r, q, EncodedRows(items), tail)
  PROVE  LET c == ReadCount(r, MaxRows)
             s == AfterRows(Entries(c), c)
         IN /\ Passed(r, s, q, tail, FitRows(items))
            /\ s.ok => s.events = items /\ ButRows(s) = ButRows(r)
<1>1. PICK c, N, n : c = ReadCount(r, MaxRows) /\ N = Entries(c) /\ n = Len(items)
  OBVIOUS
<1>2. n \in Nat /\ DOMAIN items = 1..n /\ \A k \in 1..n : IsRow(items[k])
  BY <1>1 DEF AreRows, IsRow
<1>3. r \in Reader /\ N \in Nat /\ c \in Reader /\ Untouched(r, c) /\ (c.ok => r.ok)
  <2>1. r \in Reader
    BY DEF Facing
  <2> QED
    BY <1>1, <2>1, Limits, EntriesTyped
<1>4. PICK after \in [0..N -> Reader] :
        /\ after[0] = c /\ AfterRows(N, c) = after[N]
        /\ \A k \in 1..N : after[k] = ReadRow(after[k - 1])
  <2>1. MayGoRound(N, c)
    BY <1>3 DEF MayGoRound
  <2> QED
    BY <2>1, RowRounds DEF GoesRowRounds
<1>5. PICK parts : parts = [k \in 1..n |-> EncodedRow(items[k])]
  OBVIOUS
<1>6. AreParts(parts) /\ Len(parts) = n
  <2>1. parts \in [1..n -> Seq(Nat)]
    BY <1>2, <1>5, RowEncoded
  <2> QED
    BY <1>2, <2>1, PartsAre
<1>7. SectionFaced(r, q, parts, tail)
  <2>1. parts = [i \in DOMAIN items |-> EncodedRow(items[i])]
    BY <1>2, <1>5
  <2>2. EncodedRows(items) = <<n>> \o FlattenSeq(parts)
    BY <1>1, <2>1 DEF EncodedRows
  <2> QED
    BY <1>6, <2>2 DEF SectionFaced
<1> DEFINE good == {k \in 1..n : FitsRow(items[k])}
           kept == {k \in 1..N : RowKept(after[k - 1], after[k], items[k])}
<1>8. ReadsSection(r, q, parts, MaxRows, good, after, kept)
  <2>1. ASSUME N = n, NEW k \in 1..N, NEW t \in Seq(Nat), Facing(after[k - 1], q, parts[k], t)
        PROVE  Passed(after[k - 1], after[k], q, t, k \in good) /\ (after[k].ok => k \in kept)
    <3>1. parts[k] = EncodedRow(items[k]) /\ IsRow(items[k])
      BY <1>2, <1>5, <2>1
    <3>2. /\ Passed(after[k - 1], ReadRow(after[k - 1]), q, t, FitsRow(items[k]))
          /\ ReadRow(after[k - 1]).ok =>
               RowKept(after[k - 1], ReadRow(after[k - 1]), items[k])
      BY <2>1, <3>1, RowPassed
    <3>3. after[k] = ReadRow(after[k - 1]) /\ (k \in good <=> FitsRow(items[k]))
      BY <1>4, <2>1
    <3> HIDE DEF good
    <3>4. Passed(after[k - 1], after[k], q, t, k \in good)
      BY <3>2, <3>3 DEF Passed
    <3> QED
      BY <3>2, <3>3, <3>4
  <2> HIDE DEF good, kept
  <2> QED
    BY <1>1, <1>4, <1>6, <2>1, Limits DEF ReadsSection
<1> HIDE DEF good, kept
<1>9. /\ Passed(r, after[N], q, tail, n <= MaxRows /\ 1..n \subseteq good)
      /\ after[N].ok => N = n /\ \A k \in 1..N : after[k].ok => after[k - 1].ok /\ k \in kept
  <2>1. LET M == Entries(ReadCount(r, MaxRows)) IN
        /\ Passed(r, after[M], q, tail, Len(parts) <= MaxRows /\ 1..Len(parts) \subseteq good)
        /\ after[M].ok => M = Len(parts) /\ \A k \in 1..M : after[k].ok => after[k - 1].ok /\ k \in kept
    BY ONLY <1>7, <1>8, SectionPassed
  <2> QED
    BY <1>1, <1>6, <2>1
<1>10. Passed(r, after[N], q, tail, FitRows(items))
  <2>1. n <= MaxRows /\ 1..n \subseteq good <=> FitRows(items)
    BY <1>1 DEF FitRows, good
  <2> QED
    BY <1>9, <2>1 DEF Passed
<1>11. ASSUME after[N].ok PROVE after[N].events = items /\ ButRows(after[N]) = ButRows(r)
  <2>1. N = n /\ \A k \in 1..N : after[k].ok => after[k - 1].ok /\ k \in kept
    BY <1>9, <1>11
  <2> DEFINE ok == [k \in 0..N |-> after[k].ok]
             had == [k \in 0..N |-> after[k].events]
             same == [k \in 0..N |-> ButRows(after[k])]
  <2>2. PICK S : items \in Seq(S)
    BY DEF AreRows
  <2>3. /\ ok[0] => had[0] = <<>>
        /\ same[0] = ButRows(r) /\ 0 \in 0..N /\ N \in 0..N
    BY <1>3, <1>4 DEF Untouched, ButRows, Parts
  <2>4. ASSUME NEW k \in 1..n, ok[k]
        PROVE  ok[k - 1] /\ same[k] = same[k - 1] /\ had[k] = Append(had[k - 1], items[k])
    <3>1. k - 1 \in 0..N /\ k \in 0..N /\ k \in 1..N
      BY <1>2, <2>1
    <3>2. after[k - 1].ok /\ RowKept(after[k - 1], after[k], items[k])
      BY <2>1, <2>4, <3>1 DEF kept
    <3> QED
      BY <3>1, <3>2 DEF RowKept
  <2>5. ok[N]
    BY <1>11, <2>3
  <2> HIDE DEF ok, had, same
  <2>6. IsCollecting(S, ok, had, same, items)
    BY <1>1, <2>2, <2>3, <2>4 DEF IsCollecting
  <2>7. had[N] = items /\ same[N] = same[0]
    BY <1>1, <2>1, <2>5, <2>6, Collected
  <2> QED
    BY <2>3, <2>7 DEF had, same
<1> QED
  BY <1>1, <1>4, <1>10, <1>11

-----------------------------------------------------------------------------
(* The points of the mouse trace *)

IsPoint(point) == point \in [1..4 -> Nat]
ArePoints(items) == items \in Seq([1..4 -> Nat])
EncodedPoint(point) == point
EncodedPoints(items) ==
  <<Len(items)>> \o FlattenSeq([i \in DOMAIN items |-> EncodedPoint(items[i])])
FitsPoint(point) == TRUE
FitPoints(items) == Len(items) <= MaxPoints /\ \A i \in 1..Len(items) : FitsPoint(items[i])

\* What reading points leaves alone, and what it adds.
ButPoints(s) == [Parts(s) EXCEPT !.trace = <<>>]
PointKept(r, s, point) == s.trace = Append(r.trace, point) /\ ButPoints(s) = ButPoints(r)

\* A point is four symbols.
LEMMA PointEncoded ==
  ASSUME NEW point, IsPoint(point)
  PROVE  EncodedPoint(point) \in Seq(Nat) /\ Len(EncodedPoint(point)) = 4
<1>1. point \in [1..4 -> Nat] /\ 4 \in Nat
  BY DEF IsPoint
<1> QED
  BY <1>1, FunctionsAre DEF EncodedPoint

\* Reading a point leaves a reader.
LEMMA PointRead == ASSUME NEW r \in Reader PROVE ReadPoint(r) \in Reader
<1>1. PICK s : s = ReadSymbols(r, 4)
  OBVIOUS
<1>2. s \in Reader
  BY <1>1, SymbolsRead
<1>3. PICK trace : trace = Append(s.trace, s.got) /\ trace \in Seq(Seq(Nat))
  <2>1. s.trace \in Seq(Seq(Nat)) /\ s.got \in Seq(Nat)
    BY <1>2 DEF Reader
  <2> QED
    BY <2>1, Appended
<1>4. ReadPoint(r) = IF s.ok THEN [s EXCEPT !.trace = trace] ELSE s
  BY <1>1, <1>3 DEF ReadPoint
<1>5. [s EXCEPT !.trace = trace] \in Reader
  BY <1>2, <1>3 DEF Reader
<1> QED
  BY <1>2, <1>4, <1>5

\* A point is read as written.
LEMMA PointPassed ==
  ASSUME NEW r, NEW q, NEW point, NEW tail, IsPoint(point),
         Facing(r, q, EncodedPoint(point), tail)
  PROVE  /\ Passed(r, ReadPoint(r), q, tail, FitsPoint(point))
         /\ ReadPoint(r).ok => PointKept(r, ReadPoint(r), point)
<1>1. PICK s, e : s = ReadSymbols(r, 4) /\ e = EncodedPoint(point)
  OBVIOUS
<1>2. r \in Reader /\ Len(e) = 4 /\ e = point
  BY <1>1, PointEncoded DEF Facing, EncodedPoint
<1>3. /\ Passed(r, s, q, tail, TRUE) /\ (s.ok => s.got = e)
      /\ s \in Reader /\ Untouched(r, s)
  <2>1. Facing(r, q, e, tail)
    BY <1>1
  <2>2. /\ Passed(r, ReadSymbols(r, Len(e)), q, tail, TRUE)
        /\ ReadSymbols(r, Len(e)).ok => ReadSymbols(r, Len(e)).got = e
    BY <2>1, SymbolsPassed
  <2>3. ReadSymbols(r, 4) \in Reader /\ Untouched(r, ReadSymbols(r, 4))
    BY <1>2, SymbolsRead
  <2> QED
    BY <1>1, <1>2, <2>2, <2>3
<1>4. ReadPoint(r) = IF s.ok THEN [s EXCEPT !.trace = Append(s.trace, s.got)] ELSE s
  BY <1>1 DEF ReadPoint
<1>5. ReadPoint(r) \in Reader
  BY <1>2, PointRead
<1>6. CASE ~s.ok
  BY <1>3, <1>4, <1>6 DEF Passed, FitsPoint
<1>7. CASE s.ok
  <2>1. PICK trace, t : trace = Append(r.trace, point) /\ t = [s EXCEPT !.trace = trace]
    OBVIOUS
  <2>2. /\ s.name = r.name /\ s.stats = r.stats /\ s.events = r.events /\ s.env = r.env
        /\ s.trace = r.trace
    BY <1>3 DEF Untouched, Parts
  <2>3. ReadPoint(r) = t
    BY <1>2, <1>3, <1>4, <1>7, <2>1, <2>2
  <2>4. /\ t.ok = s.ok /\ t.left = s.left /\ t.trace = trace
        /\ t.name = s.name /\ t.stats = s.stats /\ t.events = s.events /\ t.env = s.env
    BY <1>3, <2>1 DEF Reader
  <2>5. Passed(r, t, q, tail, FitsPoint(point))
    BY <1>3, <1>5, <2>3, <2>4 DEF Passed, FitsPoint
  <2>6. PointKept(r, t, point)
    BY <2>1, <2>2, <2>4 DEF PointKept, ButPoints, Parts
  <2> QED
    BY <2>3, <2>5, <2>6
<1> QED
  BY <1>6, <1>7

\* The points of the mouse trace, one by one.
AfterPoints(N, r) == Repeat(LAMBDA s, k : ReadPoint(s), N, r)

\* What it is after each of them.
GoesPointRounds(after, N, r) ==
  /\ after \in [0..N -> Reader] /\ after[0] = r /\ AfterPoints(N, r) = after[N]
  /\ \A k \in 1..N : after[k] = ReadPoint(after[k - 1])

\* They are readers all along.
LEMMA PointRounds ==
  ASSUME NEW N, NEW r, MayGoRound(N, r)
  PROVE  \E after : GoesPointRounds(after, N, r)
<1>0. N \in Nat /\ r \in Reader
  BY DEF MayGoRound
<1> DEFINE F == [k \in 1..N |-> [s \in Reader |-> ReadPoint(s)]]
           Runs(g) == g = [k \in 0..N |-> IF k = 0 THEN r ELSE ReadPoint(g[k - 1])]
<1>1. IsLoop(N, Reader, r, F)
  BY <1>0, PointRead DEF IsLoop
<1>2. PICK out \in [0..N -> Reader] : out[0] = r /\ \A k \in 1..N : out[k] = F[k][out[k - 1]]
  <2> HIDE DEF F
  <2> QED
    BY <1>1, LoopExists
<1>3. Runs(out)
  <2>1. ASSUME NEW k \in 0..N PROVE out[k] = IF k = 0 THEN r ELSE ReadPoint(out[k - 1])
    <3>1. k = 0 \/ (k # 0 /\ k \in 1..N /\ k - 1 \in 0..N)
      BY <1>0
    <3> QED
      BY <1>2, <3>1
  <2> QED
    BY <1>2, <2>1
<1>4. PICK g : Runs(g) /\ g = CHOOSE h : Runs(h)
  BY <1>3
<1>5. g[0] = r /\ \A k \in 1..N : g[k] = ReadPoint(g[k - 1])
  BY <1>0, <1>4
<1>6. RunsLike(N, Reader, r, F, g)
  <2>1. g = [k \in 0..N |-> g[k]]
    BY <1>4
  <2> QED
    BY <1>5, <2>1 DEF RunsLike
<1>7. g \in [0..N -> Reader]
  <2> HIDE DEF F
  <2> QED
    BY <1>1, <1>6, LoopIs
<1>8. AfterPoints(N, r) = g[N]
  BY <1>4 DEF Repeat, AfterPoints
<1> QED
  BY <1>5, <1>7, <1>8 DEF GoesPointRounds

\* The points of the mouse trace are read as written.
LEMMA PointsPassed ==
  ASSUME NEW r, NEW q, NEW items, NEW tail, ArePoints(items), r.ok => r.trace = <<>>,
         Facing(r, q, EncodedPoints(items), tail)
  PROVE  LET c == ReadCount(r, MaxPoints)
             s == AfterPoints(Entries(c), c)
         IN /\ Passed(r, s, q, tail, FitPoints(items))
            /\ s.ok => s.trace = items /\ ButPoints(s) = ButPoints(r)
<1>1. PICK c, N, n : c = ReadCount(r, MaxPoints) /\ N = Entries(c) /\ n = Len(items)
  OBVIOUS
<1>2. n \in Nat /\ DOMAIN items = 1..n /\ \A k \in 1..n : IsPoint(items[k])
  BY <1>1 DEF ArePoints, IsPoint
<1>3. r \in Reader /\ N \in Nat /\ c \in Reader /\ Untouched(r, c) /\ (c.ok => r.ok)
  <2>1. r \in Reader
    BY DEF Facing
  <2> QED
    BY <1>1, <2>1, Limits, EntriesTyped
<1>4. PICK after \in [0..N -> Reader] :
        /\ after[0] = c /\ AfterPoints(N, c) = after[N]
        /\ \A k \in 1..N : after[k] = ReadPoint(after[k - 1])
  <2>1. MayGoRound(N, c)
    BY <1>3 DEF MayGoRound
  <2> QED
    BY <2>1, PointRounds DEF GoesPointRounds
<1>5. PICK parts : parts = [k \in 1..n |-> EncodedPoint(items[k])]
  OBVIOUS
<1>6. AreParts(parts) /\ Len(parts) = n
  <2>1. parts \in [1..n -> Seq(Nat)]
    BY <1>2, <1>5, PointEncoded
  <2> QED
    BY <1>2, <2>1, PartsAre
<1>7. SectionFaced(r, q, parts, tail)
  <2>1. parts = [i \in DOMAIN items |-> EncodedPoint(items[i])]
    BY <1>2, <1>5
  <2>2. EncodedPoints(items) = <<n>> \o FlattenSeq(parts)
    BY <1>1, <2>1 DEF EncodedPoints
  <2> QED
    BY <1>6, <2>2 DEF SectionFaced
<1> DEFINE good == {k \in 1..n : FitsPoint(items[k])}
           kept == {k \in 1..N : PointKept(after[k - 1], after[k], items[k])}
<1>8. ReadsSection(r, q, parts, MaxPoints, good, after, kept)
  <2>1. ASSUME N = n, NEW k \in 1..N, NEW t \in Seq(Nat), Facing(after[k - 1], q, parts[k], t)
        PROVE  Passed(after[k - 1], after[k], q, t, k \in good) /\ (after[k].ok => k \in kept)
    <3>1. parts[k] = EncodedPoint(items[k]) /\ IsPoint(items[k])
      BY <1>2, <1>5, <2>1
    <3>2. /\ Passed(after[k - 1], ReadPoint(after[k - 1]), q, t, FitsPoint(items[k]))
          /\ ReadPoint(after[k - 1]).ok =>
               PointKept(after[k - 1], ReadPoint(after[k - 1]), items[k])
      BY <2>1, <3>1, PointPassed
    <3>3. after[k] = ReadPoint(after[k - 1]) /\ (k \in good <=> FitsPoint(items[k]))
      BY <1>4, <2>1
    <3> HIDE DEF good
    <3>4. Passed(after[k - 1], after[k], q, t, k \in good)
      BY <3>2, <3>3 DEF Passed
    <3> QED
      BY <3>2, <3>3, <3>4
  <2> HIDE DEF good, kept
  <2> QED
    BY <1>1, <1>4, <1>6, <2>1, Limits DEF ReadsSection
<1> HIDE DEF good, kept
<1>9. /\ Passed(r, after[N], q, tail, n <= MaxPoints /\ 1..n \subseteq good)
      /\ after[N].ok => N = n /\ \A k \in 1..N : after[k].ok => after[k - 1].ok /\ k \in kept
  <2>1. LET M == Entries(ReadCount(r, MaxPoints)) IN
        /\ Passed(r, after[M], q, tail, Len(parts) <= MaxPoints /\ 1..Len(parts) \subseteq good)
        /\ after[M].ok => M = Len(parts) /\ \A k \in 1..M : after[k].ok => after[k - 1].ok /\ k \in kept
    BY ONLY <1>7, <1>8, SectionPassed
  <2> QED
    BY <1>1, <1>6, <2>1
<1>10. Passed(r, after[N], q, tail, FitPoints(items))
  <2>1. n <= MaxPoints /\ 1..n \subseteq good <=> FitPoints(items)
    BY <1>1 DEF FitPoints, good
  <2> QED
    BY <1>9, <2>1 DEF Passed
<1>11. ASSUME after[N].ok PROVE after[N].trace = items /\ ButPoints(after[N]) = ButPoints(r)
  <2>1. N = n /\ \A k \in 1..N : after[k].ok => after[k - 1].ok /\ k \in kept
    BY <1>9, <1>11
  <2> DEFINE ok == [k \in 0..N |-> after[k].ok]
             had == [k \in 0..N |-> after[k].trace]
             same == [k \in 0..N |-> ButPoints(after[k])]
  <2>2. PICK S : items \in Seq(S)
    BY DEF ArePoints
  <2>3. /\ ok[0] => had[0] = <<>>
        /\ same[0] = ButPoints(r) /\ 0 \in 0..N /\ N \in 0..N
    BY <1>3, <1>4 DEF Untouched, ButPoints, Parts
  <2>4. ASSUME NEW k \in 1..n, ok[k]
        PROVE  ok[k - 1] /\ same[k] = same[k - 1] /\ had[k] = Append(had[k - 1], items[k])
    <3>1. k - 1 \in 0..N /\ k \in 0..N /\ k \in 1..N
      BY <1>2, <2>1
    <3>2. after[k - 1].ok /\ PointKept(after[k - 1], after[k], items[k])
      BY <2>1, <2>4, <3>1 DEF kept
    <3> QED
      BY <3>1, <3>2 DEF PointKept
  <2>5. ok[N]
    BY <1>11, <2>3
  <2> HIDE DEF ok, had, same
  <2>6. IsCollecting(S, ok, had, same, items)
    BY <1>1, <2>2, <2>3, <2>4 DEF IsCollecting
  <2>7. had[N] = items /\ same[N] = same[0]
    BY <1>1, <2>1, <2>5, <2>6, Collected
  <2> QED
    BY <2>3, <2>7 DEF had, same
<1> QED
  BY <1>1, <1>4, <1>10, <1>11

-----------------------------------------------------------------------------
(* The fields of the environment *)

IsField(kind, value) == value \in Seq(Nat) /\ (kind # "string" => Len(value) = 1)
FitsField(kind, value) == kind = "string" => Len(value) <= MaxString
KeptField(kind, value) == IF kind = "bool" THEN AsBool(value) ELSE value

\* What reading fields leaves alone, and what it adds.
ButFields(s) == [Parts(s) EXCEPT !.env = <<>>]
FieldKept(r, s, kind, value) ==
  s.env = Append(r.env, KeptField(kind, value)) /\ ButFields(s) = ButFields(r)

\* Encoding a field gives symbols.
LEMMA FieldEncoded ==
  ASSUME NEW kind, NEW value, IsField(kind, value)
  PROVE  EncodedField(kind, value) \in Seq(Nat)
BY DEF IsField, EncodedField, EncodedString

\* Reading a field begins with its symbols.
LEMMA FieldBegun ==
  ASSUME NEW r \in Reader, NEW kind
  PROVE  LET s == IF kind = "string" THEN ReadString(r, MaxString) ELSE ReadSymbols(r, 1)
             kept == KeptField(kind, s.got)
         IN /\ s \in Reader /\ Untouched(r, s) /\ kept \in Seq(Nat)
            /\ ReadField(r, kind) = IF s.ok THEN [s EXCEPT !.env = Append(s.env, kept)] ELSE s
<1>1. PICK s : s = IF kind = "string" THEN ReadString(r, MaxString) ELSE ReadSymbols(r, 1)
  OBVIOUS
<1>2. s \in Reader /\ Untouched(r, s)
  <2>1. ReadString(r, MaxString) \in Reader /\ Untouched(r, ReadString(r, MaxString))
    BY Limits, StringRead
  <2>2. ReadSymbols(r, 1) \in Reader /\ Untouched(r, ReadSymbols(r, 1))
    BY SymbolsRead
  <2> QED
    BY <1>1, <2>1, <2>2
<1>3. KeptField(kind, s.got) \in Seq(Nat)
  <2>1. s.got \in Seq(Nat)
    BY <1>2 DEF Reader
  <2> QED
    BY <2>1, BoolTyped DEF KeptField
<1>4. ReadField(r, kind) =
        IF s.ok THEN [s EXCEPT !.env = Append(s.env, KeptField(kind, s.got))] ELSE s
  BY <1>1 DEF ReadField, KeptField
<1> QED
  BY <1>1, <1>2, <1>3, <1>4

\* Reading a field leaves a reader.
LEMMA FieldRead == ASSUME NEW r \in Reader, NEW kind PROVE ReadField(r, kind) \in Reader
<1>1. PICK s, kept :
        /\ s \in Reader /\ kept \in Seq(Nat)
        /\ ReadField(r, kind) = IF s.ok THEN [s EXCEPT !.env = Append(s.env, kept)] ELSE s
  BY FieldBegun
<1>2. PICK env : env = Append(s.env, kept) /\ env \in Seq(Seq(Nat))
  <2>1. s.env \in Seq(Seq(Nat))
    BY <1>1 DEF Reader
  <2> QED
    BY <1>1, <2>1, Appended
<1>3. [s EXCEPT !.env = env] \in Reader
  BY <1>1, <1>2 DEF Reader
<1> QED
  BY <1>1, <1>2, <1>3

\* A field is read as written.
LEMMA FieldPassed ==
  ASSUME NEW r, NEW q, NEW kind, NEW value, NEW tail, IsField(kind, value),
         Facing(r, q, EncodedField(kind, value), tail)
  PROVE  /\ Passed(r, ReadField(r, kind), q, tail, FitsField(kind, value))
         /\ ReadField(r, kind).ok => FieldKept(r, ReadField(r, kind), kind, value)
<1>1. PICK s : s = IF kind = "string" THEN ReadString(r, MaxString) ELSE ReadSymbols(r, 1)
  OBVIOUS
<1>2. r \in Reader /\ value \in Seq(Nat) /\ (kind # "string" => Len(value) = 1)
  BY DEF Facing, IsField
<1>3. /\ s \in Reader /\ Untouched(r, s)
      /\ ReadField(r, kind) =
           IF s.ok THEN [s EXCEPT !.env = Append(s.env, KeptField(kind, s.got))] ELSE s
  BY <1>1, <1>2, FieldBegun
<1>4. Passed(r, s, q, tail, FitsField(kind, value)) /\ (s.ok => s.got = value)
  <2>1. CASE kind = "string"
    <3>1. Facing(r, q, EncodedString(value), tail)
      BY <2>1 DEF EncodedField
    <3>2. /\ Passed(r, ReadString(r, MaxString), q, tail, Len(value) <= MaxString)
          /\ ReadString(r, MaxString).ok => ReadString(r, MaxString).got = value
      BY <1>2, <3>1, Limits, StringPassed
    <3> QED
      BY <1>1, <2>1, <3>2 DEF Passed, FitsField
  <2>2. CASE kind # "string"
    <3>1. Facing(r, q, value, tail)
      BY <2>2 DEF EncodedField
    <3>2. /\ Passed(r, ReadSymbols(r, Len(value)), q, tail, TRUE)
          /\ ReadSymbols(r, Len(value)).ok => ReadSymbols(r, Len(value)).got = value
      BY <3>1, SymbolsPassed
    <3> QED
      BY <1>1, <1>2, <2>2, <3>2 DEF Passed, FitsField
  <2> QED
    BY <2>1, <2>2
<1>5. ReadField(r, kind) \in Reader
  BY <1>2, FieldRead
<1>6. CASE ~s.ok
  BY <1>3, <1>4, <1>6 DEF Passed
<1>7. CASE s.ok
  <2>1. PICK env, t : env = Append(r.env, KeptField(kind, value)) /\ t = [s EXCEPT !.env = env]
    OBVIOUS
  <2>2. /\ s.name = r.name /\ s.stats = r.stats /\ s.events = r.events /\ s.env = r.env
        /\ s.trace = r.trace
    BY <1>3 DEF Untouched, Parts
  <2>3. ReadField(r, kind) = t
    BY <1>3, <1>4, <1>7, <2>1, <2>2
  <2>4. /\ t.ok = s.ok /\ t.left = s.left /\ t.env = env
        /\ t.name = s.name /\ t.stats = s.stats /\ t.events = s.events /\ t.trace = s.trace
    BY <1>3, <2>1 DEF Reader
  <2>5. Passed(r, t, q, tail, FitsField(kind, value))
    BY <1>4, <1>5, <2>3, <2>4 DEF Passed
  <2>6. FieldKept(r, t, kind, value)
    BY <2>1, <2>2, <2>4 DEF FieldKept, ButFields, Parts
  <2> QED
    BY <2>3, <2>5, <2>6
<1> QED
  BY <1>6, <1>7

\* The fields of the environment, one by one.
AfterFields(N, r) == Repeat(LAMBDA s, k : ReadField(s, Fields[k]), N, r)

\* What it is after each of them.
GoesFieldRounds(after, N, r) ==
  /\ after \in [0..N -> Reader] /\ after[0] = r /\ AfterFields(N, r) = after[N]
  /\ \A k \in 1..N : after[k] = ReadField(after[k - 1], Fields[k])

\* They are readers all along.
LEMMA FieldRounds ==
  ASSUME NEW N, NEW r, MayGoRound(N, r)
  PROVE  \E after : GoesFieldRounds(after, N, r)
<1>0. N \in Nat /\ r \in Reader
  BY DEF MayGoRound
<1> DEFINE F == [k \in 1..N |-> [s \in Reader |-> ReadField(s, Fields[k])]]
           Runs(g) == g = [k \in 0..N |-> IF k = 0 THEN r ELSE ReadField(g[k - 1], Fields[k])]
<1>1. IsLoop(N, Reader, r, F)
  BY <1>0, FieldRead DEF IsLoop
<1>2. PICK out \in [0..N -> Reader] : out[0] = r /\ \A k \in 1..N : out[k] = F[k][out[k - 1]]
  <2> HIDE DEF F
  <2> QED
    BY <1>1, LoopExists
<1>3. Runs(out)
  <2>1. ASSUME NEW k \in 0..N PROVE out[k] = IF k = 0 THEN r ELSE ReadField(out[k - 1], Fields[k])
    <3>1. k = 0 \/ (k # 0 /\ k \in 1..N /\ k - 1 \in 0..N)
      BY <1>0
    <3> QED
      BY <1>2, <3>1
  <2> QED
    BY <1>2, <2>1
<1>4. PICK g : Runs(g) /\ g = CHOOSE h : Runs(h)
  BY <1>3
<1>5. g[0] = r /\ \A k \in 1..N : g[k] = ReadField(g[k - 1], Fields[k])
  BY <1>0, <1>4
<1>6. RunsLike(N, Reader, r, F, g)
  <2>1. g = [k \in 0..N |-> g[k]]
    BY <1>4
  <2> QED
    BY <1>5, <2>1 DEF RunsLike
<1>7. g \in [0..N -> Reader]
  <2> HIDE DEF F
  <2> QED
    BY <1>1, <1>6, LoopIs
<1>8. AfterFields(N, r) = g[N]
  BY <1>4 DEF Repeat, AfterFields
<1> QED
  BY <1>5, <1>7, <1>8 DEF GoesFieldRounds

\* An environment, what it is encoded as, its limits and what is kept of it.
AreFields(env) == /\ env \in Seq(Seq(Nat)) /\ Len(env) = Len(Fields)
                  /\ \A k \in 1..Len(Fields) : IsField(Fields[k], env[k])
EncodedFields(env) == FlattenSeq([i \in DOMAIN env |-> EncodedField(Fields[i], env[i])])
FitFields(env) == \A k \in 1..Len(Fields) : FitsField(Fields[k], env[k])
KeptFields(env) == [k \in 1..Len(Fields) |-> KeptField(Fields[k], env[k])]

\* The fields of the environment are read as written.
LEMMA FieldsPassed ==
  ASSUME NEW r, NEW q, NEW env, NEW tail, AreFields(env), r.ok => r.env = <<>>,
         Facing(r, q, EncodedFields(env), tail)
  PROVE  /\ Passed(r, ReadEnvironment(r), q, tail, FitFields(env))
         /\ ReadEnvironment(r).ok => /\ ReadEnvironment(r).env = KeptFields(env)
                                     /\ ButFields(ReadEnvironment(r)) = ButFields(r)
<1>1. PICK N : N = Len(Fields)
  OBVIOUS
<1>2. N \in Nat
  BY <1>1 DEF Fields
<1>3. /\ env \in Seq(Seq(Nat)) /\ DOMAIN env = 1..N
      /\ \A k \in 1..N : IsField(Fields[k], env[k])
  BY <1>1 DEF AreFields
<1>4. r \in Reader /\ q \in Seq(Nat) /\ tail \in Seq(Nat) /\ Before(r, q, EncodedFields(env) \o tail)
  BY DEF Facing
<1>5. PICK after \in [0..N -> Reader] :
        /\ after[0] = r /\ AfterFields(N, r) = after[N]
        /\ \A k \in 1..N : after[k] = ReadField(after[k - 1], Fields[k])
  <2>1. MayGoRound(N, r)
    BY <1>2, <1>4 DEF MayGoRound
  <2> QED
    BY <2>1, FieldRounds DEF GoesFieldRounds
<1>6. ReadEnvironment(r) = after[N]
  BY <1>1, <1>5 DEF ReadEnvironment, AfterFields
<1>7. PICK parts : parts = [k \in 1..N |-> EncodedField(Fields[k], env[k])]
  OBVIOUS
<1>8. AreParts(parts) /\ Len(parts) = N
  <2>1. parts \in [1..N -> Seq(Nat)]
    BY <1>3, <1>7, FieldEncoded
  <2> QED
    BY <1>2, <2>1, PartsAre
<1>9. EncodedFields(env) = FlattenSeq(parts)
  BY <1>3, <1>7 DEF EncodedFields
<1>10. PICK rest \in [0..N -> Seq(Nat)] :
         /\ rest[0] = EncodedFields(env) \o tail /\ rest[N] = tail
         /\ \A k \in 1..N : rest[k - 1] = parts[k] \o rest[k]
  <2>1. AreParts(parts) /\ tail \in Seq(Nat)
    BY <1>4, <1>8
  <2>2. PICK rest : TakesApart(rest, parts, tail)
    BY <2>1, FlattenedBefore
  <2> QED
    BY <1>8, <1>9, <2>2 DEF TakesApart
<1> DEFINE good == {k \in 1..N : FitsField(Fields[k], env[k])}
<1>11. ASSUME NEW k \in 1..N, Before(after[k - 1], q, rest[k - 1])
       PROVE  /\ Passed(after[k - 1], after[k], q, rest[k], k \in good)
              /\ after[k].ok => FieldKept(after[k - 1], after[k], Fields[k], env[k])
  <2>1. k - 1 \in 0..N /\ k \in 0..N
    BY <1>2
  <2>2. rest[k] \in Seq(Nat) /\ after[k - 1] \in Reader
    BY <1>5, <1>10, <2>1
  <2>3. parts[k] = EncodedField(Fields[k], env[k]) /\ parts[k] \in Seq(Nat) /\ IsField(Fields[k], env[k])
    BY <1>3, <1>7, FieldEncoded
  <2>4. Before(after[k - 1], q, parts[k] \o rest[k])
    BY <1>10, <1>11
  <2>5. Facing(after[k - 1], q, EncodedField(Fields[k], env[k]), rest[k])
    BY <1>4, <2>2, <2>3, <2>4 DEF Facing
  <2>6. /\ Passed(after[k - 1], ReadField(after[k - 1], Fields[k]), q, rest[k],
                  FitsField(Fields[k], env[k]))
        /\ ReadField(after[k - 1], Fields[k]).ok =>
             FieldKept(after[k - 1], ReadField(after[k - 1], Fields[k]), Fields[k], env[k])
    BY <2>3, <2>5, FieldPassed
  <2>7. after[k] = ReadField(after[k - 1], Fields[k]) /\ (k \in good <=> FitsField(Fields[k], env[k]))
    BY <1>5
  <2> HIDE DEF good
  <2> QED
    BY <2>6, <2>7 DEF Passed
<1> HIDE DEF good
<1>12. /\ Passed(after[0], after[N], q, rest[N], 1..N \subseteq good)
       /\ \A k \in 0..N : Before(after[k], q, rest[k])
       /\ \A k \in 1..N : after[k].ok => after[k - 1].ok
  <2>1. Before(after[0], q, rest[0])
    BY <1>4, <1>5, <1>10
  <2>2. IsReading(N, after, rest, q, good)
    BY <1>2, <1>5, <1>10, <1>11, <2>1 DEF IsReading
  <2>3. N \in 0..N
    BY <1>2
  <2> QED
    BY <2>2, <2>3, LoopPassed
<1>13. Passed(r, after[N], q, tail, FitFields(env))
  <2>1. 1..N \subseteq good <=> FitFields(env)
    BY <1>1 DEF FitFields, good
  <2> QED
    BY <1>5, <1>10, <1>12, <2>1 DEF Passed
<1>14. ASSUME after[N].ok PROVE after[N].env = KeptFields(env) /\ ButFields(after[N]) = ButFields(r)
  <2> DEFINE ok == [k \in 0..N |-> after[k].ok]
             had == [k \in 0..N |-> after[k].env]
             same == [k \in 0..N |-> ButFields(after[k])]
  <2>1. PICK items : items = KeptFields(env)
    OBVIOUS
  <2>2. items \in Seq(Seq(Nat)) /\ Len(items) = N
    <3>1. \A k \in 1..N : KeptField(Fields[k], env[k]) \in Seq(Nat)
      BY <1>3, BoolTyped DEF KeptField, IsField
    <3>2. items \in [1..N -> Seq(Nat)]
      BY <1>1, <2>1, <3>1 DEF KeptFields
    <3> QED
      BY <1>2, <3>2, PartsAre DEF AreParts
  <2>3. (ok[0] => had[0] = <<>>) /\ same[0] = ButFields(r) /\ 0 \in 0..N /\ N \in 0..N
    BY <1>2, <1>5
  <2>4. ASSUME NEW k \in 1..N, ok[k]
        PROVE  ok[k - 1] /\ same[k] = same[k - 1] /\ had[k] = Append(had[k - 1], items[k])
    <3>1. k - 1 \in 0..N /\ k \in 0..N
      BY <1>2
    <3>2. after[k - 1].ok /\ FieldKept(after[k - 1], after[k], Fields[k], env[k])
      BY <1>11, <1>12, <2>4, <3>1
    <3>3. items[k] = KeptField(Fields[k], env[k])
      BY <1>1, <2>1 DEF KeptFields
    <3> QED
      BY <3>1, <3>2, <3>3 DEF FieldKept
  <2>5. ok[N]
    BY <1>14, <2>3
  <2> HIDE DEF ok, had, same
  <2>6. IsCollecting(Seq(Nat), ok, had, same, items)
    BY <2>2, <2>3, <2>4 DEF IsCollecting
  <2>7. had[N] = items /\ same[N] = same[0]
    BY <2>2, <2>5, <2>6, Collected
  <2> QED
    BY <2>1, <2>3, <2>7 DEF had, same
<1> QED
  BY <1>6, <1>13, <1>14

-----------------------------------------------------------------------------
(* The file *)

\* The name is within the limits.
FitsName(name) == Len(name) <= MaxFileName /\ \E i \in DOMAIN name : name[i] # 0

\* The name is read as written, unless it is blank.
LEMMA NamePassed ==
  ASSUME NEW r, NEW q, NEW name \in Seq(Nat), NEW tail, Facing(r, q, EncodedString(name), tail)
  PROVE  /\ Passed(r, ReadName(r), q, tail, FitsName(name))
         /\ ReadName(r).ok => Parts(ReadName(r)) = [Parts(r) EXCEPT !.name = name]
<1>1. PICK s : s = ReadString(r, MaxFileName)
  OBVIOUS
<1>2. r \in Reader
  BY DEF Facing
<1>3. /\ Passed(r, s, q, tail, Len(name) <= MaxFileName) /\ (s.ok => s.got = name)
      /\ s \in Reader /\ Untouched(r, s)
  <2>1. /\ Passed(r, ReadString(r, MaxFileName), q, tail, Len(name) <= MaxFileName)
        /\ ReadString(r, MaxFileName).ok => ReadString(r, MaxFileName).got = name
    BY Limits, StringPassed
  <2>2. ReadString(r, MaxFileName) \in Reader /\ Untouched(r, ReadString(r, MaxFileName))
    BY <1>2, Limits, StringRead
  <2> QED
    BY <1>1, <2>1, <2>2
<1>4. PICK t : t = [s EXCEPT !.name = s.got]
  OBVIOUS
<1>5. ReadName(r) = IF s.ok /\ \A i \in DOMAIN s.got : s.got[i] = 0 THEN Failed(s) ELSE t
  BY <1>1, <1>4 DEF ReadName
<1>6. /\ t \in Reader /\ t.ok = s.ok /\ t.left = s.left /\ t.name = s.got
      /\ t.stats = s.stats /\ t.events = s.events /\ t.trace = s.trace /\ t.env = s.env
  BY <1>3, <1>4 DEF Reader
<1>7. Failed(s) \in Reader /\ ~Failed(s).ok
  BY <1>3, FailedRead
<1>8. CASE ~s.ok
  BY <1>3, <1>5, <1>6, <1>8 DEF Passed, FitsName
<1>9. CASE s.ok /\ \A i \in DOMAIN name : name[i] = 0
  BY <1>3, <1>5, <1>7, <1>9 DEF Passed, FitsName
<1>10. CASE s.ok /\ \E i \in DOMAIN name : name[i] # 0
  <2>1. ReadName(r) = t
    BY <1>3, <1>5, <1>10
  <2>2. Parts(t) = [Parts(r) EXCEPT !.name = name]
    BY <1>3, <1>6, <1>10 DEF Parts, Untouched
  <2> QED
    BY <1>3, <1>6, <1>10, <2>1, <2>2 DEF Passed, FitsName
<1> QED
  BY <1>8, <1>9, <1>10

\* What the client may write, as the reader takes it.
LEMMA ContentTyped ==
  ASSUME NEW content \in Contents
  PROVE  /\ content.name \in Seq(Nat) /\ Len(content.name) < ZstdMagic
         /\ AreStats(content.stats) /\ AreRows(content.events) /\ ArePoints(content.trace)
         /\ AreFields(content.env)
<1>1. content.name \in Seq(Nat) /\ Len(content.name) < ZstdMagic
  BY ContentsAssumption
<1>2. AreStats(content.stats)
  <2>1. PICK S, stats : S = [key : Seq(Nat), tag : 1..4, value : Seq(Nat)] /\ stats = content.stats
    OBVIOUS
  <2>2. stats \in Seq(S) /\ \A i \in DOMAIN stats : stats[i].tag # 1 => Len(stats[i].value) = 1
    BY <2>1, ContentsAssumption
  <2>3. DOMAIN stats = 1..Len(stats)
    BY <2>2
  <2> QED
    BY <2>1, <2>2, <2>3 DEF AreStats
<1>3. AreRows(content.events) /\ ArePoints(content.trace)
  BY ContentsAssumption DEF AreRows, ArePoints
<1>4. AreFields(content.env)
  <2>1. PICK env, n : env = content.env /\ n = Len(Fields)
    OBVIOUS
  <2>2. n \in Nat /\ DOMAIN Fields = 1..n
    BY <2>1 DEF Fields
  <2>3. /\ env \in Seq(Seq(Nat)) /\ Len(env) = n
        /\ \A i \in 1..n : Fields[i] # "string" => Len(env[i]) = 1
    BY <2>1, <2>2, ContentsAssumption
  <2>4. \A i \in 1..n : env[i] \in Seq(Nat)
    BY <2>3
  <2> QED
    BY <2>1, <2>3, <2>4 DEF AreFields, IsField
<1> QED
  BY <1>1, <1>2, <1>3, <1>4

\* What is joined from parts is symbols.
LEMMA FlattenedParts ==
  ASSUME NEW n \in Nat, NEW parts \in [1..n -> Seq(Nat)]
  PROVE  FlattenSeq(parts) \in Seq(Nat)
<1>1. AreParts(parts) /\ <<>> \in Seq(Nat)
  BY PartsAre
<1> QED
  BY <1>1, FlattenedBefore

\* Lengths and what they count, taken together.
LEMMA LengthsTogether ==
  ASSUME NEW a \in Seq(Nat), NEW c \in Seq(Nat), NEW f \in Seq(Nat)
  PROVE  (a \o c) \o f = a \o (c \o f) /\ c \o f \in Seq(Nat) /\ a \o (c \o f) \in Seq(Nat)
<1>1. (a \o c) \o f = a \o (c \o f)
  BY JoiningMore, Zenon
<1>2. c \o f \in Seq(Nat)
  BY Joining
<1>3. a \o (c \o f) \in Seq(Nat)
  BY <1>2, Joining
<1> QED
  BY <1>1, <1>2, <1>3

\* Three sequences.
AreThree(a, b, c) == a \in Seq(Nat) /\ b \in Seq(Nat) /\ c \in Seq(Nat)

\* Three sequences joined.
LEMMA JoinedThree ==
  ASSUME NEW a, NEW b, NEW c, AreThree(a, b, c) PROVE (a \o b) \o c = a \o (b \o c)
BY JoiningMore DEF AreThree

\* The sections of a file and what comes after it.
AreSix(x1, x2, x3, x4, x5, tail) ==
  /\ x1 \in Seq(Nat) /\ x2 \in Seq(Nat) /\ x3 \in Seq(Nat) /\ x4 \in Seq(Nat) /\ x5 \in Seq(Nat)
  /\ tail \in Seq(Nat)

\* They can be taken off one by one.
OneBeforeAnother(x1, x2, x3, x4, x5, tail) ==
  /\ ((((x1 \o x2) \o x3) \o x4) \o x5) \o tail = x1 \o (x2 \o (x3 \o (x4 \o (x5 \o tail))))
  /\ (((x1 \o x2) \o x3) \o x4) \o x5 \in Seq(Nat)
  /\ x2 \o (x3 \o (x4 \o (x5 \o tail))) \in Seq(Nat)

\* The sections of a file, each before the next.
LEMMA SectionsJoined ==
  ASSUME NEW x1, NEW x2, NEW x3, NEW x4, NEW x5, NEW tail, AreSix(x1, x2, x3, x4, x5, tail)
  PROVE  OneBeforeAnother(x1, x2, x3, x4, x5, tail)
<1>0. /\ x1 \in Seq(Nat) /\ x2 \in Seq(Nat) /\ x3 \in Seq(Nat) /\ x4 \in Seq(Nat)
      /\ x5 \in Seq(Nat) /\ tail \in Seq(Nat)
  BY DEF AreSix
<1>1. PICK y2, y3, y4 : y2 = x1 \o x2 /\ y3 = y2 \o x3 /\ y4 = y3 \o x4
  OBVIOUS
<1>2. y2 \in Seq(Nat) /\ y3 \in Seq(Nat) /\ y4 \in Seq(Nat) /\ y4 \o x5 \in Seq(Nat)
  BY <1>0, <1>1, Joining
<1>3. PICK t4, t3, t2 : t4 = x5 \o tail /\ t3 = x4 \o t4 /\ t2 = x3 \o t3
  OBVIOUS
<1>4. t4 \in Seq(Nat) /\ t3 \in Seq(Nat) /\ t2 \in Seq(Nat) /\ x2 \o t2 \in Seq(Nat)
  BY <1>0, <1>3, Joining
<1>5. (y4 \o x5) \o tail = y4 \o t4
  <2>1. (y4 \o x5) \o tail = y4 \o (x5 \o tail)
    <3>1. AreThree(y4, x5, tail)
      BY <1>0, <1>2 DEF AreThree
    <3> QED
      BY ONLY <3>1, JoinedThree
  <2> QED
    BY <1>3, <2>1, Zenon
<1>6. y4 \o t4 = y3 \o t3
  <2>1. (y3 \o x4) \o t4 = y3 \o (x4 \o t4)
    <3>1. AreThree(y3, x4, t4)
      BY <1>0, <1>2, <1>4 DEF AreThree
    <3> QED
      BY ONLY <3>1, JoinedThree
  <2> QED
    BY <1>1, <1>3, <2>1, Zenon
<1>7. y3 \o t3 = y2 \o t2
  <2>1. (y2 \o x3) \o t3 = y2 \o (x3 \o t3)
    <3>1. AreThree(y2, x3, t3)
      BY <1>0, <1>2, <1>4 DEF AreThree
    <3> QED
      BY ONLY <3>1, JoinedThree
  <2> QED
    BY <1>1, <1>3, <2>1, Zenon
<1>8. y2 \o t2 = x1 \o (x2 \o t2)
  <2>1. (x1 \o x2) \o t2 = x1 \o (x2 \o t2)
    <3>1. AreThree(x1, x2, t2)
      BY <1>0, <1>4 DEF AreThree
    <3> QED
      BY ONLY <3>1, JoinedThree
  <2> QED
    BY <1>1, <2>1, Zenon
<1> QED
  BY <1>1, <1>2, <1>3, <1>4, <1>5, <1>6, <1>7, <1>8 DEF OneBeforeAnother

\* What a content is encoded as.
AreSections(content, x1, x2, x3, x4, x5) ==
  /\ x1 = EncodedString(content.name) /\ x2 = EncodedStats(content.stats)
  /\ x3 = EncodedRows(content.events) /\ x4 = EncodedPoints(content.trace)
  /\ x5 = EncodedFields(content.env)
  /\ x1 \in Seq(Nat) /\ x2 \in Seq(Nat) /\ x3 \in Seq(Nat) /\ x4 \in Seq(Nat) /\ x5 \in Seq(Nat)
  /\ Encoded(content) = (((x1 \o x2) \o x3) \o x4) \o x5

\* The sections of a file in order.
LEMMA EncodedSections ==
  ASSUME NEW content \in Contents
  PROVE  \E x1, x2, x3, x4, x5 : AreSections(content, x1, x2, x3, x4, x5)
<1>1. PICK x1, c2, f2, c3, f3, c4, f4, x5 :
        /\ x1 = EncodedString(content.name)
        /\ c2 = <<Len(content.stats)>>
        /\ f2 = FlattenSeq([i \in DOMAIN content.stats |-> EncodedStat(content.stats[i])])
        /\ c3 = <<Len(content.events)>>
        /\ f3 = FlattenSeq([i \in DOMAIN content.events |-> EncodedRow(content.events[i])])
        /\ c4 = <<Len(content.trace)>> /\ f4 = FlattenSeq(content.trace)
        /\ x5 = FlattenSeq([i \in DOMAIN content.env |-> EncodedField(Fields[i], content.env[i])])
  OBVIOUS
<1>2. Encoded(content) = ((((((x1 \o c2) \o f2) \o c3) \o f3) \o c4) \o f4) \o x5
  BY <1>1 DEF Encoded
<1>0. /\ content.name \in Seq(Nat) /\ AreStats(content.stats) /\ AreRows(content.events)
      /\ ArePoints(content.trace) /\ AreFields(content.env)
  BY ContentTyped
<1>3. x1 \in Seq(Nat) /\ x1 = EncodedString(content.name)
  BY <1>0, <1>1 DEF EncodedString
<1>4. c2 \in Seq(Nat) /\ f2 \in Seq(Nat) /\ c2 \o f2 = EncodedStats(content.stats)
  <2>0. PICK S : S = [key : Seq(Nat), tag : 1..4, value : Seq(Nat)]
    OBVIOUS
  <2>1. PICK items, n : items = content.stats /\ n = Len(items)
    OBVIOUS
  <2>2. /\ items \in Seq(S) /\ \A i \in 1..n : items[i].tag # 1 => Len(items[i].value) = 1
    BY <1>0, <2>0, <2>1 DEF AreStats
  <2>3. n \in Nat /\ DOMAIN items = 1..n /\ \A i \in 1..n : items[i] \in S
    BY <2>1, <2>2
  <2>4. \A i \in 1..n : EncodedStat(items[i]) \in Seq(Nat)
    BY <2>0, <2>2, <2>3, StatEncoded DEF IsStat
  <2>8. PICK parts : parts = [i \in 1..n |-> EncodedStat(items[i])]
    OBVIOUS
  <2>5. parts \in [1..n -> Seq(Nat)]
    BY <2>4, <2>8
  <2>6. FlattenSeq(parts) \in Seq(Nat)
    BY <2>3, <2>5, FlattenedParts
  <2>7. f2 = FlattenSeq(parts)
    BY <1>1, <2>1, <2>3, <2>8
  <2> QED
    BY <1>1, <2>1, <2>3, <2>6, <2>7 DEF EncodedStats
<1>5. c3 \in Seq(Nat) /\ f3 \in Seq(Nat) /\ c3 \o f3 = EncodedRows(content.events)
  <2>1. PICK S, items, n : S = Seq(Seq(Nat)) /\ items = content.events /\ n = Len(items)
    OBVIOUS
  <2>2. items \in Seq(S)
    BY <1>0, <2>1 DEF AreRows
  <2>3. n \in Nat /\ DOMAIN items = 1..n /\ \A i \in 1..n : items[i] \in S
    BY <2>1, <2>2
  <2>4. \A i \in 1..n : EncodedRow(items[i]) \in Seq(Nat)
    BY <2>1, <2>3, RowEncoded DEF IsRow
  <2>8. PICK parts : parts = [i \in 1..n |-> EncodedRow(items[i])]
    OBVIOUS
  <2>5. parts \in [1..n -> Seq(Nat)]
    BY <2>4, <2>8
  <2>6. FlattenSeq(parts) \in Seq(Nat)
    BY <2>3, <2>5, FlattenedParts
  <2>7. f3 = FlattenSeq(parts)
    BY <1>1, <2>1, <2>3, <2>8
  <2> QED
    BY <1>1, <2>1, <2>3, <2>6, <2>7 DEF EncodedRows
<1>6. c4 \in Seq(Nat) /\ f4 \in Seq(Nat) /\ c4 \o f4 = EncodedPoints(content.trace)
  <2>1. PICK S, items, n : S = [1..4 -> Nat] /\ items = content.trace /\ n = Len(items)
    OBVIOUS
  <2>2. items \in Seq(S)
    BY <1>0, <2>1 DEF ArePoints
  <2>3. /\ n \in Nat /\ DOMAIN items = 1..n /\ \A i \in 1..n : items[i] \in S
        /\ items = [i \in DOMAIN items |-> items[i]]
    BY <2>1, <2>2
  <2>4. \A i \in 1..n : items[i] \in Seq(Nat)
    BY <2>1, <2>3, PointEncoded DEF IsPoint, EncodedPoint
  <2>5. items \in [1..n -> Seq(Nat)]
    BY <2>3, <2>4
  <2>6. FlattenSeq(items) \in Seq(Nat)
    BY <2>3, <2>5, FlattenedParts
  <2>7. EncodedPoints(items) = <<n>> \o FlattenSeq(items)
    <3>1. items = [i \in DOMAIN items |-> EncodedPoint(items[i])]
      BY <2>3 DEF EncodedPoint
    <3> QED
      BY <2>1, <3>1 DEF EncodedPoints
  <2> QED
    BY <1>1, <2>1, <2>3, <2>6, <2>7
<1>7. x5 \in Seq(Nat) /\ x5 = EncodedFields(content.env)
  <2>1. PICK items, n : items = content.env /\ n = Len(Fields)
    OBVIOUS
  <2>2. /\ items \in Seq(Seq(Nat)) /\ Len(items) = n
        /\ \A i \in 1..n : IsField(Fields[i], items[i])
    BY <1>0, <2>1 DEF AreFields
  <2>3. n \in Nat /\ DOMAIN items = 1..n
    BY <2>2
  <2>4. \A i \in 1..n : EncodedField(Fields[i], items[i]) \in Seq(Nat)
    BY <2>2, FieldEncoded
  <2>8. PICK parts : parts = [i \in 1..n |-> EncodedField(Fields[i], items[i])]
    OBVIOUS
  <2>5. parts \in [1..n -> Seq(Nat)]
    BY <2>4, <2>8
  <2>6. FlattenSeq(parts) \in Seq(Nat)
    BY <2>3, <2>5, FlattenedParts
  <2>7. x5 = FlattenSeq(parts) /\ EncodedFields(items) = FlattenSeq(parts)
    BY <1>1, <2>1, <2>3, <2>8 DEF EncodedFields
  <2> QED
    BY <2>1, <2>6, <2>7
<1>8. PICK x2, x3, x4 : x2 = c2 \o f2 /\ x3 = c3 \o f3 /\ x4 = c4 \o f4
  OBVIOUS
<1>9. (x1 \o c2) \o f2 = x1 \o x2 /\ x1 \o x2 \in Seq(Nat) /\ x2 \in Seq(Nat)
  BY <1>3, <1>4, <1>8, LengthsTogether
<1>10. /\ ((x1 \o x2) \o c3) \o f3 = (x1 \o x2) \o x3 /\ (x1 \o x2) \o x3 \in Seq(Nat)
       /\ x3 \in Seq(Nat)
  <2>1. PICK y : y = x1 \o x2
    OBVIOUS
  <2>2. (y \o c3) \o f3 = y \o (c3 \o f3) /\ c3 \o f3 \in Seq(Nat) /\ y \o (c3 \o f3) \in Seq(Nat)
    <3>1. y \in Seq(Nat)
      BY <1>9, <2>1
    <3> QED
      BY <1>5, <3>1, LengthsTogether
  <2> QED
    BY <1>8, <2>1, <2>2, Zenon
<1>11. /\ (((x1 \o x2) \o x3) \o c4) \o f4 = ((x1 \o x2) \o x3) \o x4
       /\ x4 \in Seq(Nat)
  <2>1. PICK y : y = (x1 \o x2) \o x3
    OBVIOUS
  <2>2. y \in Seq(Nat)
    BY <1>10, <2>1
  <2>3. (y \o c4) \o f4 = y \o (c4 \o f4)
    BY <1>6, <2>2, JoiningMore, Zenon
  <2>4. x4 \in Seq(Nat)
    BY <1>6, <1>8, Joining
  <2> QED
    BY <1>8, <2>1, <2>3, <2>4, Zenon
<1>12. Encoded(content) = (((x1 \o x2) \o x3) \o x4) \o x5
  BY <1>2, <1>9, <1>10, <1>11, Zenon
<1>13. AreSections(content, x1, x2, x3, x4, x5)
  <2>1. /\ x2 = EncodedStats(content.stats) /\ x3 = EncodedRows(content.events)
        /\ x4 = EncodedPoints(content.trace)
    BY <1>4, <1>5, <1>6, <1>8
  <2>2. x1 \in Seq(Nat) /\ x2 \in Seq(Nat) /\ x3 \in Seq(Nat) /\ x4 \in Seq(Nat) /\ x5 \in Seq(Nat)
    BY <1>3, <1>7, <1>9, <1>10, <1>11
  <2>3. x1 = EncodedString(content.name) /\ x5 = EncodedFields(content.env)
    BY <1>3, <1>7
  <2> QED
    BY ONLY <1>12, <2>1, <2>2, <2>3 DEF AreSections
<1> QED
  BY ONLY <1>13

\* Everything after a frame, if there is one.
ReadMore(r) == ReadEnvironment(ReadMouseTrace(ReadEvents(ReadStats(r))))
ReadSections(r) == ReadMore(ReadName(r))

\* Nothing has been read.
Fresh(r) == r.stats = <<>> /\ r.events = <<>> /\ r.trace = <<>> /\ r.env = <<>>

\* The content is within the limits, as the readers ask.
FitsContent(content) ==
  /\ FitsName(content.name) /\ FitStats(content.stats) /\ FitRows(content.events)
  /\ FitPoints(content.trace) /\ FitFields(content.env)

\* What is read from a file is what was written.
IsRead(s, content) ==
  /\ s.name = content.name /\ s.stats = Meaning(content.stats)
  /\ s.events = content.events /\ s.trace = content.trace /\ s.env = KeptFields(content.env)

\* What follows the name of a content.
Sections(content, x2, x3, x4, x5) ==
  /\ x2 = EncodedStats(content.stats) /\ x3 = EncodedRows(content.events)
  /\ x4 = EncodedPoints(content.trace) /\ x5 = EncodedFields(content.env)
  /\ x2 \in Seq(Nat) /\ x3 \in Seq(Nat) /\ x4 \in Seq(Nat) /\ x5 \in Seq(Nat)

\* A reader has come to what follows the name.
NameRead(r, q, content, t) ==
  /\ r \in Reader /\ q \in Seq(Nat) /\ t \in Seq(Nat) /\ Before(r, q, t)
  /\ r.ok => Fresh(r) /\ r.name = content.name

\* What follows the name is read as written.
LEMMA MorePassed ==
  ASSUME NEW r1, NEW q, NEW content \in Contents, NEW tail \in Seq(Nat),
         NEW x2, NEW x3, NEW x4, NEW x5, Sections(content, x2, x3, x4, x5),
         NameRead(r1, q, content, x2 \o (x3 \o (x4 \o (x5 \o tail))))
  PROVE  /\ Passed(r1, ReadMore(r1), q, tail,
                   /\ FitStats(content.stats) /\ FitRows(content.events)
                   /\ FitPoints(content.trace) /\ FitFields(content.env))
         /\ ReadMore(r1).ok => IsRead(ReadMore(r1), content)
<1>1. /\ AreStats(content.stats) /\ AreRows(content.events)
      /\ ArePoints(content.trace) /\ AreFields(content.env)
  BY ContentTyped
<1>4. /\ x2 = EncodedStats(content.stats)
      /\ x3 = EncodedRows(content.events) /\ x4 = EncodedPoints(content.trace)
      /\ x5 = EncodedFields(content.env)
      /\ x2 \in Seq(Nat) /\ x3 \in Seq(Nat) /\ x4 \in Seq(Nat) /\ x5 \in Seq(Nat)
  BY DEF Sections
<1>5. PICK t1, t2, t3, t4 : /\ t4 = x5 \o tail /\ t3 = x4 \o t4 /\ t2 = x3 \o t3 /\ t1 = x2 \o t2
  OBVIOUS
<1>6. t4 \in Seq(Nat) /\ t3 \in Seq(Nat) /\ t2 \in Seq(Nat) /\ t1 \in Seq(Nat)
  BY <1>4, <1>5, Joining
<1>2. /\ r1 \in Reader /\ q \in Seq(Nat) /\ tail \in Seq(Nat) /\ Before(r1, q, t1)
      /\ r1.ok => Fresh(r1) /\ r1.name = content.name
  BY <1>5 DEF NameRead
<1>7. PICK r2, r3, r4, r5 :
        /\ r2 = ReadStats(r1) /\ r3 = ReadEvents(r2)
        /\ r4 = ReadMouseTrace(r3) /\ r5 = ReadEnvironment(r4)
  OBVIOUS
<1>8. ReadMore(r1) = r5
  BY <1>7 DEF ReadMore
<1>10. /\ Passed(r1, r2, q, t2, FitStats(content.stats))
       /\ r2.ok => Parts(r2) = [Parts(r1) EXCEPT !.stats = Meaning(content.stats)]
  <2>2. Facing(r1, q, EncodedStats(content.stats), t2)
    BY <1>2, <1>4, <1>5, <1>6 DEF Facing
  <2>3. r1.ok => r1.stats = <<>>
    BY <1>2 DEF Fresh
  <2> QED
    BY <1>1, <1>7, <2>2, <2>3, StatsPassed
<1>11. r2.ok => /\ r2.name = content.name /\ r2.stats = Meaning(content.stats)
                /\ r2.events = <<>> /\ r2.trace = <<>> /\ r2.env = <<>>
  <2>1. r2.ok => r1.ok
    BY <1>10 DEF Passed
  <2> QED
    BY <1>2, <1>10, <2>1 DEF Fresh, Parts
<1>12. /\ Passed(r2, r3, q, t3, FitRows(content.events))
       /\ r3.ok => r3.events = content.events /\ ButRows(r3) = ButRows(r2)
  <2>1. r2 \in Reader /\ Before(r2, q, t2)
    BY <1>10, PassedBefore
  <2>2. Facing(r2, q, EncodedRows(content.events), t3)
    BY <1>2, <1>4, <1>5, <1>6, <2>1 DEF Facing
  <2>3. r2.ok => r2.events = <<>>
    BY <1>11
  <2>4. PICK c, s : c = ReadCount(r2, MaxRows) /\ s = AfterRows(Entries(c), c)
    OBVIOUS
  <2>5. Passed(r2, s, q, t3, FitRows(content.events)) /\ (s.ok => s.events = content.events /\ ButRows(s) = ButRows(r2))
    BY <1>1, <2>2, <2>3, <2>4, RowsPassed
  <2>6. r3 = s
    BY <1>7, <2>4 DEF ReadEvents, AfterRows
  <2> QED
    BY <2>5, <2>6
<1>13. /\ Passed(r3, r4, q, t4, FitPoints(content.trace))
       /\ r4.ok => r4.trace = content.trace /\ ButPoints(r4) = ButPoints(r3)
  <2>1. r3 \in Reader /\ Before(r3, q, t3)
    BY <1>12, PassedBefore
  <2>2. Facing(r3, q, EncodedPoints(content.trace), t4)
    BY <1>2, <1>4, <1>5, <1>6, <2>1 DEF Facing
  <2>3. r3.ok => r3.trace = <<>>
    <3>1. r3.ok => r2.ok
      BY <1>12 DEF Passed
    <3> QED
      BY <1>11, <1>12, <3>1 DEF ButRows, Parts
  <2>4. PICK c, s : c = ReadCount(r3, MaxPoints) /\ s = AfterPoints(Entries(c), c)
    OBVIOUS
  <2>5. Passed(r3, s, q, t4, FitPoints(content.trace)) /\ (s.ok => s.trace = content.trace /\ ButPoints(s) = ButPoints(r3))
    BY <1>1, <2>2, <2>3, <2>4, PointsPassed
  <2>6. r4 = s
    BY <1>7, <2>4 DEF ReadMouseTrace, AfterPoints
  <2> QED
    BY <2>5, <2>6
<1>14. r4.ok => /\ r4.name = content.name /\ r4.stats = Meaning(content.stats)
                /\ r4.events = content.events /\ r4.trace = content.trace /\ r4.env = <<>>
  <2>1. r4.ok => r3.ok /\ r2.ok
    BY <1>12, <1>13 DEF Passed
  <2>2. r3.ok => /\ r3.name = r2.name /\ r3.stats = r2.stats /\ r3.env = r2.env
                 /\ r3.events = content.events
    BY <1>12 DEF ButRows, Parts
  <2>3. r4.ok => /\ r4.name = r3.name /\ r4.stats = r3.stats /\ r4.env = r3.env
                 /\ r4.events = r3.events /\ r4.trace = content.trace
    BY <1>13 DEF ButPoints, Parts
  <2> QED
    BY <1>11, <2>1, <2>2, <2>3
<1>15. /\ Passed(r4, r5, q, tail, FitFields(content.env))
       /\ r5.ok => r5.env = KeptFields(content.env) /\ ButFields(r5) = ButFields(r4)
  <2>1. r4 \in Reader /\ Before(r4, q, t4)
    BY <1>13, PassedBefore
  <2>2. Facing(r4, q, EncodedFields(content.env), tail)
    BY <1>2, <1>4, <1>5, <2>1 DEF Facing
  <2>3. r4.ok => r4.env = <<>>
    BY <1>14
  <2> QED
    BY <1>1, <1>7, <2>2, <2>3, FieldsPassed
<1>16. Passed(r1, r5, q, tail, /\ FitStats(content.stats) /\ FitRows(content.events)
                               /\ FitPoints(content.trace) /\ FitFields(content.env))
  BY <1>10, <1>12, <1>13, <1>15 DEF Passed
<1>17. r5.ok => IsRead(r5, content)
  <2>1. r5.ok => r4.ok
    BY <1>15 DEF Passed
  <2>2. r5.ok => /\ r5.name = r4.name /\ r5.stats = r4.stats /\ r5.events = r4.events
                 /\ r5.trace = r4.trace
    BY <1>15 DEF ButFields, Parts
  <2> QED
    BY <1>14, <1>15, <2>1, <2>2 DEF IsRead
<1> QED
  BY <1>8, <1>16, <1>17

\* A content is read as written.
LEMMA ContentPassed ==
  ASSUME NEW r, NEW q, NEW content \in Contents, NEW tail, Fresh(r),
         Facing(r, q, Encoded(content), tail)
  PROVE  /\ Passed(r, ReadSections(r), q, tail, FitsContent(content))
         /\ ReadSections(r).ok => IsRead(ReadSections(r), content)
<1>1. content.name \in Seq(Nat)
  BY ContentTyped
<1>2. r \in Reader /\ q \in Seq(Nat) /\ tail \in Seq(Nat) /\ Before(r, q, Encoded(content) \o tail)
  BY DEF Facing
<1>3. PICK x1, x2, x3, x4, x5 : AreSections(content, x1, x2, x3, x4, x5)
  BY EncodedSections
<1>4. /\ x1 = EncodedString(content.name) /\ Sections(content, x2, x3, x4, x5)
      /\ x1 \in Seq(Nat) /\ x2 \in Seq(Nat) /\ x3 \in Seq(Nat) /\ x4 \in Seq(Nat) /\ x5 \in Seq(Nat)
      /\ Encoded(content) = (((x1 \o x2) \o x3) \o x4) \o x5
  BY <1>3 DEF AreSections, Sections
<1>5. PICK t1 : t1 = x2 \o (x3 \o (x4 \o (x5 \o tail)))
  OBVIOUS
<1>6. Encoded(content) \o tail = x1 \o t1 /\ t1 \in Seq(Nat)
  <2>1. AreSix(x1, x2, x3, x4, x5, tail)
    BY <1>2, <1>4 DEF AreSix
  <2>2. OneBeforeAnother(x1, x2, x3, x4, x5, tail)
    BY <2>1, SectionsJoined
  <2> QED
    BY <1>4, <1>5, <2>2, Zenon DEF OneBeforeAnother
<1>7. PICK r1 : r1 = ReadName(r)
  OBVIOUS
<1>8. /\ Passed(r, r1, q, t1, FitsName(content.name))
      /\ r1.ok => Parts(r1) = [Parts(r) EXCEPT !.name = content.name]
  <2>1. Before(r, q, x1 \o t1)
    BY <1>2, <1>6
  <2>2. Facing(r, q, EncodedString(content.name), t1)
    BY <1>2, <1>4, <1>6, <2>1 DEF Facing
  <2> QED
    BY <1>1, <1>7, <2>2, NamePassed
<1>9. NameRead(r1, q, content, t1)
  <2>1. r1 \in Reader /\ Before(r1, q, t1)
    BY <1>8, PassedBefore
  <2>2. r1.ok => Fresh(r1) /\ r1.name = content.name
    BY <1>8 DEF Fresh, Parts
  <2> QED
    BY <1>2, <1>6, <2>1, <2>2 DEF NameRead
<1>10. /\ Passed(r1, ReadMore(r1), q, tail,
                  /\ FitStats(content.stats) /\ FitRows(content.events)
                  /\ FitPoints(content.trace) /\ FitFields(content.env))
       /\ ReadMore(r1).ok => IsRead(ReadMore(r1), content)
  BY <1>2, <1>4, <1>5, <1>9, MorePassed
<1>11. ReadSections(r) = ReadMore(r1)
  BY <1>7 DEF ReadSections
<1>12. Passed(r, ReadMore(r1), q, tail, FitsContent(content))
  BY <1>8, <1>10 DEF Passed, FitsContent
<1> QED
  BY <1>10, <1>11, <1>12

\* A content fits if it is within the limits.
LEMMA FitsIfWithin ==
  ASSUME NEW content \in Contents
  PROVE  FitsContent(content) <=> WithinLimits(content)
<1>1. /\ AreStats(content.stats) /\ AreRows(content.events)
      /\ ArePoints(content.trace) /\ AreFields(content.env)
  BY ContentTyped
<1>2. DOMAIN content.stats = 1..Len(content.stats)
  <2>1. PICK S, items : S = [key : Seq(Nat), tag : 1..4, value : Seq(Nat)] /\ items = content.stats
    OBVIOUS
  <2>2. items \in Seq(S)
    BY <1>1, <2>1 DEF AreStats
  <2>3. DOMAIN items = 1..Len(items)
    BY <2>2
  <2> QED
    BY <2>1, <2>3
<1>3. /\ DOMAIN content.events = 1..Len(content.events)
      /\ \A i \in 1..Len(content.events) :
           DOMAIN content.events[i] = 1..Len(content.events[i])
  <2>1. PICK S, items : S = Seq(Seq(Nat)) /\ items = content.events
    OBVIOUS
  <2>2. items \in Seq(S)
    BY <1>1, <2>1 DEF AreRows
  <2>3. DOMAIN items = 1..Len(items) /\ \A i \in 1..Len(items) : items[i] \in S
    BY <2>2
  <2>4. \A i \in 1..Len(items) : DOMAIN items[i] = 1..Len(items[i])
    BY <2>1, <2>3
  <2> QED
    BY <2>1, <2>3, <2>4
<1>4. DOMAIN Fields = 1..Len(Fields)
  BY DEF Fields
<1>5. FitStats(content.stats) <=>
        /\ Len(content.stats) <= MaxStats
        /\ \A i \in DOMAIN content.stats :
             /\ Len(content.stats[i].key) <= MaxString
             /\ content.stats[i].tag = 1 => Len(content.stats[i].value) <= MaxString
  BY <1>2 DEF FitStats, FitsStat
<1>6. FitRows(content.events) <=>
        /\ Len(content.events) <= MaxRows
        /\ \A i \in DOMAIN content.events :
             /\ Len(content.events[i]) <= MaxCols
             /\ \A j \in DOMAIN content.events[i] : Len(content.events[i][j]) <= MaxString
  BY <1>3 DEF FitRows, FitsRow, FitCells, FitsCell
<1>7. FitPoints(content.trace) <=> Len(content.trace) <= MaxPoints
  BY DEF FitPoints, FitsPoint
<1>8. FitFields(content.env) <=>
        \A i \in DOMAIN Fields : Fields[i] = "string" => Len(content.env[i]) <= MaxString
  BY <1>4 DEF FitFields, FitsField
<1> QED
  BY <1>5, <1>6, <1>7, <1>8 DEF FitsContent, FitsName, WithinLimits

-----------------------------------------------------------------------------
(* Parsing *)

\* A reader of a payload.
Reading(payload) ==
  [left |-> payload, ok |-> TRUE, got |-> <<>>, name |-> <<>>,
   stats |-> <<>>, row |-> <<>>, events |-> <<>>, trace |-> <<>>, env |-> <<>>]

\* It is a reader to which everything is left.
LEMMA ReadingTyped ==
  ASSUME NEW payload \in Seq(Nat)
  PROVE  /\ Reading(payload) \in Reader /\ Fresh(Reading(payload))
         /\ Reading(payload).ok = TRUE /\ Reading(payload).left = payload
<1>1. PICK none : none = <<>>
  OBVIOUS
<1>2. none \in Seq(Nat) /\ none \in Seq(Seq(Nat)) /\ none \in Seq(Seq(Seq(Nat)))
  BY <1>1, EmptyTyped
<1>3. none \in Stats
  <2>1. none \in [{} -> Seq(Nat)]
    BY <1>1
  <2> QED
    BY <2>1 DEF Stats
<1>4. Reading(payload) = [left |-> payload, ok |-> TRUE, got |-> none, name |-> none,
                          stats |-> none, row |-> none, events |-> none, trace |-> none,
                          env |-> none]
  BY <1>1 DEF Reading
<1>5. Reading(payload) \in Reader
  BY <1>2, <1>3, <1>4 DEF Reader, Stats
<1> QED
  BY <1>1, <1>4, <1>5 DEF Fresh

\* The payload, but for q, is what was compressed, and then the tail.
Holds(payload, q, content, c, tail) ==
  /\ payload \in Seq(Nat) /\ q \in Seq(Nat) /\ tail \in Seq(Nat) /\ c \in 0..1
  /\ payload \o q = Compressed(Encoded(content), c) \o tail

\* What is encoded, is symbols.
LEMMA EncodedTyped ==
  ASSUME NEW content \in Contents
  PROVE  Encoded(content) \in Seq(Nat)
<1>1. PICK x1, x2, x3, x4, x5 : AreSections(content, x1, x2, x3, x4, x5)
  BY EncodedSections
<1>2. PICK none : none = <<>> /\ none \in Seq(Nat)
  BY EmptyTyped
<1>3. AreSix(x1, x2, x3, x4, x5, none)
  BY <1>1, <1>2 DEF AreSections, AreSix
<1>4. OneBeforeAnother(x1, x2, x3, x4, x5, none)
  BY <1>3, SectionsJoined
<1> QED
  BY <1>1, <1>4, Zenon DEF AreSections, OneBeforeAnother

\* Opened as what it is, a payload is before its content.
LEMMA OpenedRight ==
  ASSUME NEW payload, NEW q, NEW content \in Contents, NEW c, NEW tail,
         Holds(payload, q, content, c, tail)
  PROVE  /\ Fresh(Opened(payload, c)) /\ Facing(Opened(payload, c), q, Encoded(content), tail)
         /\ q = <<>> => Opened(payload, c).ok
<1>1. /\ payload \in Seq(Nat) /\ q \in Seq(Nat) /\ tail \in Seq(Nat) /\ c \in 0..1
      /\ payload \o q = Compressed(Encoded(content), c) \o tail
  BY DEF Holds
<1>2. PICK r, e : r = Reading(payload) /\ e = Encoded(content)
  OBVIOUS
<1>3. e \in Seq(Nat) /\ r \in Reader /\ Fresh(r) /\ r.ok = TRUE /\ r.left = payload
  BY <1>1, <1>2, EncodedTyped, ReadingTyped
<1>4. CASE c = 0
  <2>1. Opened(payload, c) = r
    BY <1>2, <1>4 DEF Opened, Reading
  <2>2. Facing(r, q, e, tail)
    <3>1. payload \o q = e \o tail
      BY <1>1, <1>2, <1>4 DEF Compressed
    <3> QED
      BY <1>1, <1>3, <3>1 DEF Facing, Before
  <2> QED
    BY <1>2, <1>3, <2>1, <2>2
<1>5. CASE c = 1
  <2>1. PICK frame, z : frame = ReadSymbols(r, 1) /\ z = <<ZstdMagic>>
    OBVIOUS
  <2>2. z \in Seq(Nat) /\ Len(z) = 1
    BY <2>1, RefleksAssumption
  <2>3. e \o tail \in Seq(Nat)
    BY <1>1, <1>3, Joining
  <2>4. payload \o q = z \o (e \o tail)
    <3>1. payload \o q = (z \o e) \o tail
      BY <1>1, <1>2, <1>5, <2>1 DEF Compressed
    <3>2. AreThree(z, e, tail)
      BY <1>1, <1>3, <2>2 DEF AreThree
    <3> QED
      BY <3>1, <3>2, JoinedThree
  <2>5. Facing(r, q, z, e \o tail)
    BY <1>1, <1>3, <2>2, <2>3, <2>4 DEF Facing, Before
  <2>6. Passed(r, frame, q, e \o tail, TRUE) /\ (frame.ok => frame.got = z)
    <3>1. /\ Passed(r, ReadSymbols(r, Len(z)), q, e \o tail, TRUE)
          /\ ReadSymbols(r, Len(z)).ok => ReadSymbols(r, Len(z)).got = z
      BY <2>5, SymbolsPassed
    <3> QED
      BY <2>1, <2>2, <3>1
  <2>7. frame \in Reader /\ Untouched(r, frame)
    BY <1>3, <2>1, SymbolsRead
  <2>8. Opened(payload, c) = IF frame.got = z THEN frame ELSE Failed(frame)
    BY <1>2, <1>5, <2>1 DEF Opened, Reading
  <2>9. Failed(frame) \in Reader /\ ~Failed(frame).ok /\ Untouched(frame, Failed(frame))
    BY <2>7, FailedRead
  <2>10. Fresh(frame) /\ Fresh(Failed(frame))
    BY <1>3, <2>7, <2>9 DEF Fresh, Untouched, Parts
  <2>11. Facing(frame, q, e, tail) /\ Facing(Failed(frame), q, e, tail)
    BY <1>1, <1>3, <2>6, <2>7, <2>9 DEF Facing, Before, Passed
  <2>12. q = <<>> => frame.ok
    BY <1>3, <2>6 DEF Passed
  <2> QED
    BY <1>2, <2>6, <2>8, <2>10, <2>11, <2>12
<1> QED
  BY <1>1, <1>4, <1>5

\* Whoever has failed before the file begins, fails at its end.
LEMMA FailedStays ==
  ASSUME NEW r \in Reader, NEW content \in Contents, ~r.ok
  PROVE  /\ Fresh(r) => ~EnsureEOF(ReadSections(r)).ok
         /\ ~EnsureEOF(ReadMore(r)).ok
<1>0. PICK none : none = <<>> /\ none \in Seq(Nat)
  BY EmptyTyped
<1>1. \A s \in Reader : ~s.ok => ~EnsureEOF(s).ok
  BY FailedRead DEF EnsureEOF
<1>2. ASSUME Fresh(r) PROVE ~EnsureEOF(ReadSections(r)).ok
  <2>1. Facing(r, none, Encoded(content), none)
    BY <1>0, EncodedTyped DEF Facing, Before
  <2>2. Passed(r, ReadSections(r), none, none, FitsContent(content))
    BY <1>2, <2>1, ContentPassed
  <2> QED
    BY <1>1, <2>2 DEF Passed
<1>3. ~EnsureEOF(ReadMore(r)).ok
  <2>1. PICK x1, x2, x3, x4, x5 : AreSections(content, x1, x2, x3, x4, x5)
    BY EncodedSections
  <2>2. Sections(content, x2, x3, x4, x5) /\ AreSix(x1, x2, x3, x4, x5, none)
    BY <1>0, <2>1 DEF AreSections, Sections, AreSix
  <2>3. OneBeforeAnother(x1, x2, x3, x4, x5, none)
    BY <2>2, SectionsJoined
  <2>4. NameRead(r, none, content, x2 \o (x3 \o (x4 \o (x5 \o none))))
    BY <1>0, <2>3 DEF NameRead, Before, OneBeforeAnother
  <2>5. Passed(r, ReadMore(r), none, none,
               /\ FitStats(content.stats) /\ FitRows(content.events)
               /\ FitPoints(content.trace) /\ FitFields(content.env))
    BY <1>0, <2>2, <2>4, MorePassed
  <2> QED
    BY <1>1, <2>5 DEF Passed
<1> QED
  BY <1>2, <1>3

\* A file that is opened as what it is passes only if nothing is missing and nothing
\* too much, and then it is read as written.
LEMMA ParsedRight ==
  ASSUME NEW f, NEW q, NEW content \in Contents, NEW tail,
         Holds(f.payload, q, content, f.compression, tail)
  PROVE  /\ Parse(f).ok => q = tail /\ WithinLimits(content) /\ IsRead(Parse(f), content)
         /\ q = <<>> /\ tail = <<>> /\ WithinLimits(content) => Parse(f).ok
<1>1. PICK r, s : r = Opened(f.payload, f.compression) /\ s = ReadSections(r)
  OBVIOUS
<1>2. Parse(f) = IF s.left # <<>> THEN Failed(s) ELSE s
  BY <1>1 DEF Parse, EnsureEOF, ReadSections, ReadMore
<1>3. /\ Fresh(r) /\ Facing(r, q, Encoded(content), tail) /\ (q = <<>> => r.ok)
  BY <1>1, OpenedRight
<1>4. /\ Passed(r, s, q, tail, WithinLimits(content)) /\ (s.ok => IsRead(s, content))
  <2>1. /\ Passed(r, ReadSections(r), q, tail, FitsContent(content))
        /\ ReadSections(r).ok => IsRead(ReadSections(r), content)
    BY <1>3, ContentPassed
  <2>2. FitsContent(content) <=> WithinLimits(content)
    BY FitsIfWithin
  <2> QED
    BY <1>1, <2>1, <2>2 DEF Passed
<1>5. s \in Reader /\ s.left \in Seq(Nat) /\ q \in Seq(Nat)
  BY <1>3, <1>4 DEF Passed, Facing, Reader
<1>6. ~Failed(s).ok
  BY <1>5, FailedRead
<1>7. s.left = <<>> => s.left \o q = q
  BY <1>5, Joining
<1>8. q = <<>> => s.left \o q = s.left
  BY <1>5, Joining
<1> QED
  BY <1>2, <1>3, <1>4, <1>6, <1>7, <1>8 DEF Passed

\* A file of which the compression is not as it says never passes.
LEMMA ParsedWrong ==
  ASSUME NEW f, NEW content \in Contents, NEW c, c \in 0..1, f.compression \in 0..2,
         f.compression # c, f.payload = Compressed(Encoded(content), c)
  PROVE  ~Parse(f).ok
<1>1. PICK e, payload, d, z : /\ e = Encoded(content) /\ payload = f.payload
                              /\ d = f.compression /\ z = <<ZstdMagic>>
  OBVIOUS
<1>2. e \in Seq(Nat) /\ z \in Seq(Nat) /\ Len(z) = 1 /\ ZstdMagic \in Nat /\ ZstdMagic > MaxFileName
  BY <1>1, EncodedTyped, RefleksAssumption
<1>3. payload \in Seq(Nat)
  BY <1>1, <1>2, Joining DEF Compressed
<1>4. PICK r : r = Reading(payload)
  OBVIOUS
<1>5. r \in Reader /\ Fresh(r) /\ r.ok = TRUE /\ r.left = payload
  BY <1>3, <1>4, ReadingTyped
<1>6. PICK none : none = <<>> /\ none \in Seq(Nat)
  BY EmptyTyped
<1>7. CASE d = 2
  <2>1. Opened(payload, d) = Failed(r)
    BY <1>4, <1>7 DEF Opened, Reading
  <2>2. Failed(r) \in Reader /\ ~Failed(r).ok /\ Untouched(r, Failed(r))
    BY <1>5, FailedRead
  <2>3. Fresh(Failed(r))
    BY <1>5, <2>2 DEF Fresh, Untouched, Parts
  <2>4. ~EnsureEOF(ReadSections(Failed(r))).ok
    BY <2>2, <2>3, FailedStays
  <2> QED
    BY <1>1, <2>1, <2>4 DEF Parse, ReadSections, ReadMore
<1>8. CASE d = 1
  <2>1. payload = e
    BY <1>1, <1>8 DEF Compressed
  <2>2. PICK frame, n : frame = ReadSymbols(r, 1) /\ n = Len(content.name)
    OBVIOUS
  <2>3. content.name \in Seq(Nat) /\ n \in Nat /\ n < ZstdMagic
    BY <2>2, ContentTyped
  <2>4. PICK one, rest : /\ one = <<n>> /\ one \in Seq(Nat) /\ Len(one) = 1 /\ rest \in Seq(Nat)
                         /\ e \o none = one \o rest
    <3>1. PICK x1, x2, x3, x4, x5 : AreSections(content, x1, x2, x3, x4, x5)
      BY EncodedSections
    <3>2. AreSix(x1, x2, x3, x4, x5, none)
      BY <1>6, <3>1 DEF AreSections, AreSix
    <3>3. OneBeforeAnother(x1, x2, x3, x4, x5, none)
      BY <3>2, SectionsJoined
    <3>4. PICK t1, one : t1 = x2 \o (x3 \o (x4 \o (x5 \o none))) /\ one = <<n>>
      OBVIOUS
    <3>5. e \o none = (one \o content.name) \o t1 /\ t1 \in Seq(Nat)
      <4>1. x1 = one \o content.name
        BY <2>2, <3>1, <3>4 DEF AreSections, EncodedString
      <4>2. e = (((x1 \o x2) \o x3) \o x4) \o x5
        BY <1>1, <3>1 DEF AreSections
      <4> QED
        BY <3>3, <3>4, <4>1, <4>2, Zenon DEF OneBeforeAnother
    <3>6. one \in Seq(Nat) /\ Len(one) = 1
      BY <2>3, <3>4
    <3>7. PICK name : name = content.name
      OBVIOUS
    <3>8. (one \o name) \o t1 = one \o (name \o t1)
      <4>1. AreThree(one, name, t1)
        BY <2>3, <3>5, <3>6, <3>7 DEF AreThree
      <4> QED
        BY ONLY <4>1, JoinedThree
    <3>9. content.name \o t1 \in Seq(Nat)
      BY <2>3, <3>5, Joining
    <3> QED
      BY <3>4, <3>5, <3>6, <3>7, <3>8, <3>9
  <2>5. Facing(r, none, one, rest)
    BY <1>5, <1>6, <2>1, <2>4 DEF Facing, Before
  <2>6. frame.ok => frame.got = one
    <3>1. ReadSymbols(r, Len(one)).ok => ReadSymbols(r, Len(one)).got = one
      BY <2>5, SymbolsPassed
    <3> QED
      BY <2>2, <2>4, <3>1
  <2>7. frame \in Reader /\ Untouched(r, frame)
    BY <1>5, <2>2, SymbolsRead
  <2>8. one # z
    BY <1>1, <1>2, <2>3, <2>4
  <2>9. Opened(payload, d) = IF frame.got = z THEN frame ELSE Failed(frame)
    BY <1>1, <1>4, <1>8, <2>2 DEF Opened, Reading
  <2>10. Failed(frame) \in Reader /\ ~Failed(frame).ok /\ Untouched(frame, Failed(frame))
    BY <2>7, FailedRead
  <2>11. PICK o : o = Opened(payload, d) /\ o \in Reader /\ Fresh(o) /\ ~o.ok
    <3>1. Fresh(frame) /\ Fresh(Failed(frame))
      BY <1>5, <2>7, <2>10 DEF Fresh, Untouched, Parts
    <3> QED
      BY <2>6, <2>7, <2>8, <2>9, <2>10, <3>1
  <2>12. ~EnsureEOF(ReadSections(o)).ok
    BY <2>11, FailedStays
  <2> QED
    BY <1>1, <2>11, <2>12 DEF Parse, ReadSections, ReadMore
<1>9. CASE d = 0
  <2>1. payload = z \o e
    BY <1>1, <1>9 DEF Compressed
  <2>2. Opened(payload, d) = r
    BY <1>4, <1>9 DEF Opened, Reading
  <2>3. Facing(r, none, <<ZstdMagic>>, e)
    <3>1. r.left \o none = z \o e
      BY <1>3, <1>5, <1>6, <2>1, Joining
    <3> QED
      BY <1>1, <1>2, <1>5, <1>6, <3>1 DEF Facing, Before
  <2>4. PICK s : s = ReadCount(r, MaxFileName)
    OBVIOUS
  <2>5. s \in Reader /\ ~s.ok
    <3>1. Passed(r, ReadCount(r, MaxFileName), none, e, ZstdMagic <= MaxFileName)
      BY <1>2, <2>3, Limits, CountPassed
    <3>2. ~(ZstdMagic <= MaxFileName)
      BY <1>2, Limits
    <3> QED
      BY <2>4, <3>1, <3>2 DEF Passed
  <2>6. ReadString(r, MaxFileName) = s
    BY <2>4, <2>5 DEF ReadString
  <2>7. ReadName(r) = [s EXCEPT !.name = s.got]
    BY <2>5, <2>6 DEF ReadName
  <2>8. [s EXCEPT !.name = s.got] \in Reader /\ ~[s EXCEPT !.name = s.got].ok
    BY <2>5 DEF Reader
  <2>9. ~EnsureEOF(ReadMore(ReadName(r))).ok
    BY <2>7, <2>8, FailedStays
  <2> QED
    BY <1>1, <2>2, <2>9 DEF Parse, ReadMore
<1> QED
  BY <1>1, <1>7, <1>8, <1>9

-----------------------------------------------------------------------------
(* The file from writing to parsing *)

\* What a file is.
Files ==
  [magic : {"", "RFLK", "junk"}, version : Nat, compression : 0..2, playedAt : Nat,
   payload : Seq(Nat), seal : Seq(Nat)]

\* A file that passes the checksum holds what the client wrote, or a client that
\* failed has cut off q, or added a tail, and said rightly how it is compressed.
Meant(c) ==
  LET payload == Compressed(Encoded(written), c) IN
  /\ Header(file) =>
       \/ file.payload = payload
       \/ /\ file.compression = c
          /\ \E q, tail \in Seq(Nat) : q # tail /\ file.payload \o q = payload \o tail
  /\ ~damaged => Header(file) /\ file.payload = payload /\ file.compression = c

\* The inductive invariant.
FileMeant ==
  /\ file \in Files
  /\ file # NoFile => written \in Contents /\ \E c \in 0..1 : Meant(c)

\* What is compressed, is symbols.
LEMMA CompressedTyped ==
  ASSUME NEW content \in Contents, NEW c
  PROVE  Compressed(Encoded(content), c) \in Seq(Nat)
<1>1. PICK e, z : e = Encoded(content) /\ z = <<ZstdMagic>>
  OBVIOUS
<1>2. e \in Seq(Nat) /\ z \in Seq(Nat) /\ z \o e \in Seq(Nat)
  <2>1. e \in Seq(Nat) /\ z \in Seq(Nat)
    BY <1>1, EncodedTyped, RefleksAssumption
  <2> QED
    BY <2>1, Joining
<1> QED
  BY <1>1, <1>2 DEF Compressed

\* At first there is no file.
LEMMA FileMeantInit == RefleksInit => FileMeant
<1>1. PICK none : none = <<>> /\ none \in Seq(Nat)
  BY EmptyTyped
<1>2. [magic |-> "", version |-> 0, compression |-> 0, playedAt |-> 0,
       payload |-> none, seal |-> none] \in Files
  BY <1>1 DEF Files
<1> QED
  BY <1>1, <1>2 DEF RefleksInit, FileMeant, NoFile

\* A file as the client meant it.
LEMMA WriteMeant ==
  ASSUME Write
  PROVE  FileMeant'
<1>0. PICK content \in Contents, c \in 0..1 : \E payload :
        /\ payload = Compressed(Encoded(content), c) /\ written' = content
        /\ file' = [magic |-> "RFLK", version |-> 1, compression |-> c,
                    playedAt |-> 1, payload |-> payload, seal |-> payload]
  BY DEF Write
<1>1. PICK payload :
        /\ payload = Compressed(Encoded(content), c) /\ written' = content
        /\ file' = [magic |-> "RFLK", version |-> 1, compression |-> c,
                    playedAt |-> 1, payload |-> payload, seal |-> payload]
  BY <1>0
<1>2. payload \in Seq(Nat)
  BY <1>0, <1>1, CompressedTyped
<1>3. file' \in Files /\ Header(file)' /\ file'.payload = payload /\ file'.compression = c
  BY <1>0, <1>1, <1>2 DEF Files, Header
<1>4. Meant(c)'
  BY <1>0, <1>1, <1>3 DEF Meant
<1> QED
  BY <1>0, <1>1, <1>3, <1>4 DEF FileMeant

\* Before anything happens to it, it is what was meant.
LEMMA Undamaged ==
  ASSUME FileMeant, file # NoFile, ~damaged
  PROVE  /\ written \in Contents /\ file \in Files /\ file.payload \in Seq(Nat)
         /\ file.seal = file.payload
         /\ \E c \in 0..1 : /\ file.payload = Compressed(Encoded(written), c)
                            /\ file.compression = c
<1>1. file.payload \in Seq(Nat)
  BY DEF FileMeant, Files
<1> QED
  BY <1>1 DEF FileMeant, Meant, Header

\* What is left after an alteration.
LEMMA AlteredTyped ==
  ASSUME NEW s \in Seq(Nat)
  PROVE  Altered(s) \subseteq Seq(Nat)
<1>1. Symbols \subseteq Nat
  BY RefleksAssumption
<1>2. ASSUME NEW i \in DOMAIN s, NEW symbol \in Symbols PROVE Replaced(s, i, symbol) \in Seq(Nat)
  BY <1>1 DEF Replaced
<1>3. ASSUME NEW i \in DOMAIN s PROVE RemoveAt(s, i) \in Seq(Nat)
  <2>1. i \in 1..Len(s) /\ Len(s) \in Nat
    OBVIOUS
  <2>2. SubSeq(s, 1, i - 1) \in Seq(Nat) /\ SubSeq(s, i + 1, Len(s)) \in Seq(Nat)
    BY <2>1, PieceElements
  <2> QED
    BY <2>2, Joining DEF RemoveAt
<1>4. ASSUME NEW i \in 1..Len(s) + 1, NEW symbol \in Symbols
      PROVE  InsertAt(s, i, symbol) \in Seq(Nat)
  <2>1. Len(s) \in Nat
    OBVIOUS
  <2>2. SubSeq(s, 1, i - 1) \in Seq(Nat) /\ SubSeq(s, i, Len(s)) \in Seq(Nat)
    BY <2>1
  <2>3. <<symbol>> \in Seq(Nat)
    BY <1>1
  <2> QED
    BY <2>2, <2>3, Joining DEF InsertAt
<1> QED
  BY <1>2, <1>3, <1>4 DEF Altered

\* Whatever happens to a file on its way leaves it as meant, or fails the checksum.
LEMMA DamageMeant ==
  ASSUME FileMeant, Damage
  PROVE  FileMeant'
<1>1. file # NoFile /\ ~damaged /\ damaged' = TRUE /\ written' = written
  BY DEF Damage
<1>2. PICK c \in 0..1 : file.payload = Compressed(Encoded(written), c) /\ file.compression = c
  BY <1>1, Undamaged
<1>3. /\ written \in Contents /\ file \in Files /\ file.payload \in Seq(Nat)
      /\ file.seal = file.payload
  BY <1>1, Undamaged
<1>4. /\ file' \in Files /\ file'.seal = file.seal
  <2>1. CASE file' = [file EXCEPT !.magic = "junk"]
    BY <1>3, <2>1 DEF Files
  <2>2. CASE \E n \in {0, 2} : file' = [file EXCEPT !.version = n]
    <3>1. PICK n \in Nat : file' = [file EXCEPT !.version = n]
      BY <2>2
    <3> QED
      BY <1>3, <3>1 DEF Files
  <2>3. CASE \E n \in 0..2 : file' = [file EXCEPT !.compression = n]
    BY <1>3, <2>3 DEF Files
  <2>4. CASE file' = [file EXCEPT !.playedAt = 2]
    BY <1>3, <2>4 DEF Files
  <2>5. CASE \E s \in Altered(file.payload) : file' = [file EXCEPT !.payload = s]
    <3>1. PICK s \in Seq(Nat) : file' = [file EXCEPT !.payload = s]
      BY <1>3, <2>5, AlteredTyped
    <3> QED
      BY <1>3, <3>1 DEF Files
  <2> QED
    BY <2>1, <2>2, <2>3, <2>4, <2>5 DEF Damage
<1>5. Header(file)' => file'.payload = file.payload
  BY <1>3, <1>4 DEF Header
<1>6. Meant(c)'
  BY <1>1, <1>2, <1>5 DEF Meant
<1> QED
  BY <1>1, <1>3, <1>4, <1>6 DEF FileMeant

\* A client that fails cuts the payload short or goes on.
LEMMA MiswriteMeant ==
  ASSUME FileMeant, Miswrite
  PROVE  FileMeant'
<1>1. file # NoFile /\ ~damaged /\ damaged' = TRUE /\ written' = written
  BY DEF Miswrite
<1>0. PICK c \in 0..1 :
        file.payload = Compressed(Encoded(written), c) /\ file.compression = c
  BY <1>1, Undamaged
<1>2. PICK p : /\ p = Compressed(Encoded(written), c) /\ file.payload = p
               /\ file.compression = c /\ c \in 0..1
  BY <1>0
<1>3. written \in Contents /\ file \in Files /\ p \in Seq(Nat)
  BY <1>1, <1>2, Undamaged
<1>4. PICK s : /\ file' = [file EXCEPT !.payload = s, !.seal = s]
               /\ \/ \E n \in 0..Len(p) - 1 : s = SubSeq(p, 1, n)
                  \/ \E symbol \in Symbols : s = Append(p, symbol)
  BY <1>2 DEF Miswrite
<1>5. s \in Seq(Nat) /\ \E q, tail \in Seq(Nat) : q # tail /\ s \o q = p \o tail
  <2>1. PICK none : none = <<>> /\ none \in Seq(Nat)
    BY EmptyTyped
  <2>2. ASSUME NEW n \in 0..Len(p) - 1, s = SubSeq(p, 1, n)
        PROVE  s \in Seq(Nat) /\ \E q, tail \in Seq(Nat) : q # tail /\ s \o q = p \o tail
    <3>1. PICK q : q = SubSeq(p, n + 1, Len(p))
      OBVIOUS
    <3>2. Len(p) \in Nat /\ n \in Nat /\ n < Len(p)
      BY <1>3
    <3>3. /\ s \in Seq(Nat) /\ Len(s) = n /\ q \in Seq(Nat) /\ Len(q) = Len(p) - n
          /\ \A i \in 1..n : s[i] = p[i]
          /\ \A i \in 1..Len(q) : q[i] = p[i + n]
      <4>1. 1 \in 1..Len(p) + 1 /\ n + 1 \in 1..Len(p) + 1 /\ n \in 0..Len(p)
            /\ Len(p) \in 0..Len(p) /\ n >= 1 - 1 /\ Len(p) >= n + 1 - 1
        BY <3>2
      <4>2. /\ s \in Seq(Nat) /\ Len(s) = n + 1 - 1
            /\ \A i \in 1..(n + 1 - 1) : s[i] = p[i + 1 - 1]
        BY <1>3, <2>2, <4>1, PieceElements
      <4>3. /\ q \in Seq(Nat) /\ Len(q) = Len(p) + 1 - (n + 1)
            /\ \A i \in 1..(Len(p) + 1 - (n + 1)) : q[i] = p[i + (n + 1) - 1]
        BY <1>3, <3>1, <4>1, PieceElements
      <4> QED
        BY <3>2, <4>2, <4>3
    <3>4. /\ s \o q \in Seq(Nat) /\ Len(s \o q) = Len(p)
          /\ \A i \in 1..Len(p) : (s \o q)[i] = IF i <= n THEN s[i] ELSE q[i - n]
      <4>1. s \in Seq(Nat) /\ q \in Seq(Nat)
        BY <3>3
      <4>2. /\ s \o q \in Seq(Nat) /\ Len(s \o q) = Len(s) + Len(q)
            /\ \A i \in 1..Len(s \o q) :
                 (s \o q)[i] = IF i <= Len(s) THEN s[i] ELSE q[i - Len(s)]
        BY ONLY <4>1, JoinedElements
      <4>3. Len(s) = n /\ Len(s) + Len(q) = Len(p)
        BY <3>2, <3>3
      <4> QED
        BY <4>2, <4>3
    <3>5. \A i \in 1..Len(p) : (s \o q)[i] = p[i]
      <4> TAKE i \in 1..Len(p)
      <4>1. i <= n => i \in 1..n
        BY <3>2
      <4>2. ~(i <= n) => i - n \in 1..Len(q) /\ (i - n) + n = i
        BY <3>2, <3>3
      <4> QED
        BY <3>3, <3>4, <4>1, <4>2
    <3>6. s \o q = p
      BY <1>3, <3>4, <3>5, SameElements
    <3>7. p \o none = p /\ q # none
      BY <1>3, <2>1, <3>2, <3>3, Joining
    <3> QED
      BY <2>1, <3>3, <3>6, <3>7
  <2>3. ASSUME NEW symbol \in Symbols, s = Append(p, symbol)
        PROVE  s \in Seq(Nat) /\ \E q, tail \in Seq(Nat) : q # tail /\ s \o q = p \o tail
    <3>1. symbol \in Nat
      BY RefleksAssumption
    <3>5. PICK tail : tail = <<symbol>>
      OBVIOUS
    <3>2. tail = <<symbol>> /\ tail \in Seq(Nat) /\ Len(tail) = 1
      BY <3>1, <3>5
    <3>3. s \in Seq(Nat) /\ s = p \o tail
      BY <1>3, <2>3, <3>1, <3>2
    <3>4. s \o none = s /\ none # tail
      BY <2>1, <3>2, <3>3, Joining
    <3> QED
      BY <2>1, <3>2, <3>3, <3>4
  <2> QED
    BY <1>4, <2>2, <2>3
<1>6. file' \in Files /\ file'.payload = s /\ file'.compression = c
  BY <1>2, <1>3, <1>4, <1>5 DEF Files
<1>7. Meant(c)'
  BY <1>1, <1>2, <1>5, <1>6 DEF Meant
<1> QED
  BY <1>1, <1>3, <1>6, <1>7 DEF FileMeant

\* The invariant says that whatever passes is what was written.
LEMMA MeantIsWritten ==
  ASSUME FileMeant
  PROVE  AcceptedIsWritten
<1> SUFFICES ASSUME file # NoFile
             PROVE  /\ Parses(file) =>
                         LET r == Parse(file) IN
                         /\ file.payload = Compressed(Encoded(written), file.compression)
                         /\ r.name = written.name /\ r.stats = Meaning(written.stats)
                         /\ r.events = written.events /\ r.trace = written.trace
                         /\ r.env = [i \in DOMAIN Fields |->
                                       IF Fields[i] = "bool" THEN AsBool(written.env[i])
                                       ELSE written.env[i]]
                    /\ ~damaged => (Parses(file) <=> WithinLimits(written))
  BY DEF AcceptedIsWritten
<1>1. PICK c \in 0..1 : Meant(c) /\ written \in Contents /\ file \in Files
  BY DEF FileMeant
<1>2. PICK f, content, p : /\ f = file /\ content = written
                           /\ p = Compressed(Encoded(content), c)
  OBVIOUS
<1>3. /\ content \in Contents /\ p \in Seq(Nat) /\ f.compression \in 0..2 /\ f.payload \in Seq(Nat)
  BY <1>1, <1>2, CompressedTyped DEF Files
<1>4. /\ Header(f) => \/ f.payload = p
                      \/ /\ f.compression = c
                         /\ \E q, tail \in Seq(Nat) : q # tail /\ f.payload \o q = p \o tail
      /\ ~damaged => Header(f) /\ f.payload = p /\ f.compression = c
  BY <1>1, <1>2 DEF Meant
<1>5. PICK none : none = <<>> /\ none \in Seq(Nat)
  BY EmptyTyped
<1>6. ASSUME f.payload = p, f.compression = c
      PROVE  /\ Parse(f).ok <=> WithinLimits(content)
             /\ Parse(f).ok => IsRead(Parse(f), content)
  <2>1. Holds(f.payload, none, content, f.compression, none)
    BY <1>2, <1>3, <1>5, <1>6 DEF Holds
  <2> QED
    BY <1>3, <1>5, <2>1, ParsedRight
<1>7. ASSUME f.payload = p, f.compression # c
      PROVE  ~Parse(f).ok
  BY <1>2, <1>3, <1>7, ParsedWrong
<1>8. ASSUME f.compression = c, NEW q \in Seq(Nat), NEW tail \in Seq(Nat), q # tail,
             f.payload \o q = p \o tail
      PROVE  ~Parse(f).ok
  <2>1. Holds(f.payload, q, content, f.compression, tail)
    BY <1>2, <1>3, <1>8 DEF Holds
  <2> QED
    BY <1>3, <1>8, <2>1, ParsedRight
<1>9. Parses(f) => f.payload = p /\ f.compression = c /\ IsRead(Parse(f), content)
  BY <1>4, <1>6, <1>7, <1>8 DEF Parses
<1>10. ~damaged => (Parses(f) <=> WithinLimits(content))
  BY <1>4, <1>6 DEF Parses
<1>11. KeptFields(content.env) = [i \in DOMAIN Fields |->
                                    IF Fields[i] = "bool" THEN AsBool(content.env[i])
                                    ELSE content.env[i]]
  <2>1. DOMAIN Fields = 1..Len(Fields)
    BY DEF Fields
  <2> QED
    BY <2>1 DEF KeptFields, KeptField
<1> QED
  BY <1>2, <1>9, <1>10, <1>11 DEF IsRead

\* A file passes only with the very payload the client meant to write, and what is
\* read from it is what was written, field by field; a file within the limits that
\* nothing has happened to does pass: whatever contents, symbols and limits there are.
THEOREM AcceptedAlwaysWritten == RefleksSpec => []AcceptedIsWritten
<1>1. RefleksInit => FileMeant
  BY FileMeantInit
<1>2. FileMeant /\ [RefleksNext]_refleksVars => FileMeant'
  <2>1. CASE UNCHANGED refleksVars
    BY <2>1 DEF refleksVars, FileMeant, Meant, Header
  <2>2. CASE Write
    BY <2>2, WriteMeant
  <2>3. ASSUME FileMeant, Damage PROVE FileMeant'
    BY <2>3, DamageMeant
  <2>4. ASSUME FileMeant, Miswrite PROVE FileMeant'
    BY <2>4, MiswriteMeant
  <2> QED
    BY <2>1, <2>2, <2>3, <2>4 DEF RefleksNext
<1>3. FileMeant => AcceptedIsWritten
  BY MeantIsWritten
<1> QED
  BY <1>1, <1>2, <1>3, PTL DEF RefleksSpec
===============================================================================
