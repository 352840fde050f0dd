------------------------------- MODULE Lemmas -------------------------------
(***************************************************************************)
(* What the proofs of several components need to know about numbers,       *)
(* sequences, loops, finite sets and sums.                                 *)
(***************************************************************************)
EXTENDS Integers, Sequences, FiniteSets, FiniteSetsExt, Functions,
        FiniteSetTheorems, WellFoundedInduction, TLAPS

-----------------------------------------------------------------------------
(* Natural numbers *)

\* A set that holds 0, and with each number the next one, holds all numbers.
LEMMA SetInduction ==
  ASSUME NEW T, 0 \in T, \A n \in Nat : n \in T => n + 1 \in T
  PROVE  Nat \subseteq T
<1> DEFINE U == Nat \ T
<1> SUFFICES ASSUME U # {} PROVE FALSE
  OBVIOUS
<1>1. IsWellFoundedOn(OpToRel(<, Nat), Nat)
  BY NatLessThanWellFounded
<1>2. PICK n \in U : \A m \in U : ~(<<m, n>> \in OpToRel(<, Nat))
  <2> HIDE DEF U
  <2>1. U \subseteq Nat
    BY DEF U
  <2> QED
  BY <1>1, <2>1, WFMin
<1>3. n # 0 /\ n - 1 \in Nat /\ n - 1 < n
  OBVIOUS
<1>4. <<n - 1, n>> \in OpToRel(<, Nat)
  BY <1>3 DEF OpToRel
<1>5. n - 1 \in T
  BY <1>2, <1>3, <1>4
<1> QED
  BY <1>3, <1>5

\* Every set of natural numbers has a least one.
LEMMA MinOfNumbers ==
  ASSUME NEW S, S \subseteq Nat, S # {}
  PROVE  Min(S) \in S /\ \A y \in S : Min(S) <= y
<1>1. IsWellFoundedOn(OpToRel(<, Nat), Nat)
  BY NatLessThanWellFounded
<1>2. PICK n \in S : \A m \in S : ~(<<m, n>> \in OpToRel(<, Nat))
  BY <1>1, WFMin
<1>3. ASSUME NEW m \in S PROVE n <= m
  <2>1. m \in Nat /\ n \in Nat
    OBVIOUS
  <2>2. m < n => <<m, n>> \in OpToRel(<, Nat)
    BY <2>1 DEF OpToRel
  <2>3. ~(m < n)
    BY <1>2, <2>2
  <2> QED
    BY <2>1, <2>3
<1> QED
  BY <1>3 DEF Min

\* A number of the set that no other is below is its least.
LEMMA MinIs ==
  ASSUME NEW S, S \subseteq Nat, NEW n \in S, \A y \in S : n <= y
  PROVE  Min(S) = n
<1>1. Min(S) \in S /\ \A y \in S : Min(S) <= y
  BY MinOfNumbers
<1>2. Min(S) <= n /\ n <= Min(S) /\ Min(S) \in Nat /\ n \in Nat
  BY <1>1
<1> QED
  BY <1>2

\* Products grow with their factors.
LEMMA Products ==
  /\ \A a, b, c \in Nat : a * c \in Nat /\ a * c = c * a /\ (a <= b => a * c <= b * c)
  /\ \A a, b, c \in Nat : a < b /\ c # 0 => a * c < b * c
<1>1. ASSUME NEW a \in Nat, NEW b \in Nat, a <= b PROVE \A c \in Nat : a * c <= b * c
  <2> DEFINE T == {c \in Nat : a * c <= b * c}
  <2>1. 0 \in T
    OBVIOUS
  <2>2. ASSUME NEW c \in Nat, c \in T PROVE c + 1 \in T
    <3>1. a * (c + 1) = a * c + a /\ b * (c + 1) = b * c + b
      OBVIOUS
    <3>2. PICK x \in Nat, y \in Nat : x = a * c /\ y = b * c /\ x <= y
      BY <2>2
    <3>3. a * (c + 1) <= b * (c + 1)
      BY <1>1, <3>1, <3>2
    <3> QED
      BY <3>3
  <2>3. Nat \subseteq T
    <3> HIDE DEF T
    <3> QED
      BY <2>1, <2>2, SetInduction
  <2> QED
    BY <2>3
<1>2. ASSUME NEW a \in Nat, NEW b \in Nat, NEW c \in Nat, a < b, c # 0 PROVE a * c < b * c
  BY <1>2
<1>3. \A a, b, c \in Nat : a * c \in Nat /\ a * c = c * a
  OBVIOUS
<1> QED
  BY <1>1, <1>2, <1>3

\* A number below the divisor, times n, has a quotient below n.
LEMMA QuotientBelow ==
  ASSUME NEW a \in Nat, NEW b \in Nat, a < b, NEW n \in Nat, n # 0
  PROVE  (a * n) \div b \in 0..(n - 1)
<1>1. PICK c \in Nat : c = a * n
  BY Products
<1>2. PICK q \in Nat, r \in Nat : q = c \div b /\ c = b * q + r
  OBVIOUS
<1>3. ASSUME q >= n PROVE FALSE
  <2>1. b * n <= b * q
    BY <1>3, Products
  <2>2. a * n < b * n
    BY Products
  <2>3. b * n \in Nat /\ b * q \in Nat
    BY Products
  <2>4. PICK x \in Nat, y \in Nat : x = b * n /\ y = b * q
    BY <2>3
  <2> QED
    BY <1>1, <1>2, <2>1, <2>2, <2>4
<1> QED
  BY <1>1, <1>2, <1>3

-----------------------------------------------------------------------------
(* Sequences *)

\* Sequences of one length with the same elements are the same.
LEMMA SameElements ==
  ASSUME NEW S, NEW a \in Seq(S), NEW b \in Seq(S), Len(a) = Len(b),
         \A i \in 1..Len(a) : a[i] = b[i]
  PROVE  a = b
OBVIOUS

\* A sequence without elements is the empty one.
LEMMA NoElements == ASSUME NEW S, NEW a \in Seq(S), Len(a) = 0 PROVE a = <<>>
OBVIOUS

\* The elements of a sequence joined from two.
LEMMA JoinedElements ==
  ASSUME NEW S, NEW a \in Seq(S), NEW b \in Seq(S)
  PROVE  /\ a \o b \in Seq(S) /\ Len(a \o b) = Len(a) + Len(b)
         /\ \A i \in 1..Len(a \o b) : (a \o b)[i] = IF i <= Len(a) THEN a[i] ELSE b[i - Len(a)]
OBVIOUS

\* A piece of a sequence.
LEMMA PieceElements ==
  ASSUME NEW S, NEW a \in Seq(S), NEW m \in 1..Len(a) + 1, NEW n \in 0..Len(a), n >= m - 1
  PROVE  /\ SubSeq(a, m, n) \in Seq(S) /\ Len(SubSeq(a, m, n)) = n + 1 - m
         /\ \A i \in 1..(n + 1 - m) : SubSeq(a, m, n)[i] = a[i + m - 1]
OBVIOUS

\* Appending an element to a sequence.
LEMMA Appended == ASSUME NEW S, NEW a \in Seq(S), NEW x \in S PROVE Append(a, x) \in Seq(S)
OBVIOUS

\* The empty sequence is one of any elements.
LEMMA EmptyTyped == ASSUME NEW S PROVE <<>> \in Seq(S)
OBVIOUS

\* A function on the first numbers is a sequence.
LEMMA FunctionsAre ==
  ASSUME NEW S, NEW n \in Nat, NEW f \in [1..n -> S] PROVE f \in Seq(S) /\ Len(f) = n
OBVIOUS

-----------------------------------------------------------------------------
(* Loops *)

\* What holds before a loop of N rounds, and with each round after it, holds after
\* every round.
LEMMA LoopInduction ==
  ASSUME NEW N \in Nat, NEW T, 0 \in T, \A n \in 0..(N - 1) : n \in T => n + 1 \in T
  PROVE  0..N \subseteq T
<1> DEFINE U == {n \in Nat : n <= N => n \in T}
<1>1. 0 \in U
  OBVIOUS
<1>2. ASSUME NEW n \in Nat, n \in U PROVE n + 1 \in U
  BY <1>2
<1>3. Nat \subseteq U
  <2> HIDE DEF U
  <2> QED
    BY <1>1, <1>2, SetInduction
<1> QED
  BY <1>3

\* A loop of N rounds over values of X can be run.
IsLoop(N, X, a, F) == N \in Nat /\ a \in X /\ \A n \in 1..N : F[n] \in [X -> X]

\* It computes a value in each round.
LEMMA LoopExists ==
  ASSUME NEW N, NEW X, NEW a, NEW F, IsLoop(N, X, a, F)
  PROVE  \E g \in [0..N -> X] : g[0] = a /\ \A n \in 1..N : g[n] = F[n][g[n - 1]]
<1> USE DEF IsLoop
<1> DEFINE T == {k \in 0..N : \E g \in [0..N -> X] :
                                g[0] = a /\ \A n \in 1..k : g[n] = F[n][g[n - 1]]}
<1>1. 0 \in T
  <2> DEFINE g == [n \in 0..N |-> a]
  <2>1. g \in [0..N -> X] /\ g[0] = a /\ \A n \in 1..0 : g[n] = F[n][g[n - 1]]
    OBVIOUS
  <2> HIDE DEF g
  <2> QED
    BY <2>1
<1>2. ASSUME NEW k \in 0..(N - 1), k \in T PROVE k + 1 \in T
  <2>1. PICK g \in [0..N -> X] : g[0] = a /\ \A n \in 1..k : g[n] = F[n][g[n - 1]]
    BY <1>2
  <2> DEFINE h == [g EXCEPT ![k + 1] = F[k + 1][g[k]]]
  <2>2. h \in [0..N -> X]
    BY <2>1
  <2>3. h[0] = a
    BY <2>1
  <2>4. ASSUME NEW n \in 1..(k + 1) PROVE h[n] = F[n][h[n - 1]]
    <3>1. CASE n = k + 1
      BY <3>1
    <3>2. CASE n # k + 1
      <4>1. n \in 1..k /\ n \in 0..N /\ n - 1 \in 0..N /\ n - 1 # k + 1
        BY <3>2
      <4>2. h[n] = g[n] /\ h[n - 1] = g[n - 1]
        BY <2>1, <3>2, <4>1
      <4> HIDE DEF h
      <4> QED
        BY <2>1, <4>1, <4>2
    <3> QED
      BY <3>1, <3>2
  <2> HIDE DEF h
  <2>5. k + 1 \in 0..N
    OBVIOUS
  <2> QED
    BY <2>2, <2>3, <2>4, <2>5
<1>3. N \in T
  <2> HIDE DEF T
  <2> QED
    BY <1>1, <1>2, LoopInduction
<1> QED
  BY <1>3

\* What a loop computes is determined.
SameLoop(N, g, h) ==
  /\ N \in Nat /\ g = [n \in 0..N |-> g[n]] /\ h = [n \in 0..N |-> h[n]]
  /\ g[0] = h[0]
  /\ \A n \in 1..N : g[n - 1] = h[n - 1] => g[n] = h[n]

\* Two loops that begin alike and go on alike compute the same.
LEMMA LoopUnique ==
  ASSUME NEW N, NEW g, NEW h, SameLoop(N, g, h)
  PROVE  g = h
<1> USE DEF SameLoop
<1> DEFINE T == {n \in 0..N : g[n] = h[n]}
<1>1. 0 \in T
  OBVIOUS
<1>2. ASSUME NEW n \in 0..(N - 1), n \in T PROVE n + 1 \in T
  <2>1. n + 1 \in 1..N /\ n + 1 \in 0..N /\ (n + 1) - 1 = n /\ g[n] = h[n]
    BY <1>2
  <2>2. g[n + 1] = h[n + 1]
    BY <2>1
  <2> QED
    BY <2>1, <2>2
<1>3. 0..N \subseteq T
  <2> HIDE DEF T
  <2> QED
    BY <1>1, <1>2, LoopInduction
<1> QED
  BY <1>3

-----------------------------------------------------------------------------
(* Finite sets *)

\* What holds of a subset whenever it holds of all that lack one more element
\* holds of the whole, if that is finite.
LEMMA SubsetInduction ==
  ASSUME NEW S, IsFiniteSet(S), NEW G,
         \A T \in SUBSET S : (\A x \in T : T \ {x} \in G) => T \in G
  PROVE  S \in G
<1> DEFINE N == {n \in Nat : \A T \in SUBSET S : Cardinality(T) = n => T \in G}
<1>1. \A T \in SUBSET S : /\ IsFiniteSet(T) /\ Cardinality(T) \in Nat
                          /\ Cardinality(T) = 0 => T = {}
                          /\ \A x \in T : Cardinality(T \ {x}) = Cardinality(T) - 1
  <2> TAKE T \in SUBSET S
  <2>1. IsFiniteSet(T)
    BY FS_Subset
  <2> QED
    BY <2>1, FS_CardinalityType, FS_EmptySet, FS_RemoveElement
<1>2. 0 \in N
  BY <1>1
<1>3. ASSUME NEW n \in Nat, n \in N
      PROVE  n + 1 \in N
  <2>1. ASSUME NEW T \in SUBSET S, Cardinality(T) = n + 1
        PROVE  T \in G
    <3>1. \A x \in T : T \ {x} \in SUBSET S /\ Cardinality(T \ {x}) = n
      BY <1>1, <2>1
    <3> QED
      BY <3>1, <1>3
  <2> QED
    BY <2>1
<1>4. Nat \subseteq N
  <2> HIDE DEF N
  <2> QED
    BY <1>2, <1>3, SetInduction
<1>5. Cardinality(S) \in Nat
  BY <1>1
<1> QED
  BY <1>4, <1>5

\* What is mapped from a finite set is finite.
LEMMA ImageFinite ==
  ASSUME NEW S, IsFiniteSet(S), NEW f
  PROVE  IsFiniteSet({f[x] : x \in S})
<1> DEFINE T == {f[x] : x \in S}
           g == [x \in S |-> f[x]]
<1>1. g \in Surjection(S, T)
  BY DEF Surjection
<1> QED
  BY <1>1, FS_Surjection

\* A finite set of numbers has a greatest one.
LEMMA MaxOfFinite ==
  ASSUME NEW S, IsFiniteSet(S), S # {}, S \subseteq Int
  PROVE  Max(S) \in S /\ \A x \in S : x <= Max(S)
<1> DEFINE bounded == {T \in SUBSET S : T = {} \/ \E m \in T : \A x \in T : x <= m}
<1>1. ASSUME NEW T \in SUBSET S, \A x \in T : T \ {x} \in bounded
      PROVE  T \in bounded
  <2> SUFFICES ASSUME NEW x \in T
               PROVE  \E m \in T : \A y \in T : y <= m
    OBVIOUS
  <2>1. CASE T \ {x} = {}
    BY <2>1
  <2>2. CASE T \ {x} # {}
    <3>1. PICK m \in T \ {x} : \A y \in T \ {x} : y <= m
      BY <1>1, <2>2
    <3>2. x \in Int /\ m \in Int /\ \A y \in T : y \in Int
      OBVIOUS
    <3>3. CASE x <= m
      BY <3>1, <3>3
    <3>4. CASE ~(x <= m)
      BY <3>1, <3>2, <3>4
    <3> QED
      BY <3>3, <3>4
  <2> QED
    BY <2>1, <2>2
<1>2. S \in bounded
  <2> HIDE DEF bounded
  <2> QED
    BY <1>1, SubsetInduction
<1>3. \E m \in S : \A x \in S : m >= x
  BY <1>2
<1> QED
  BY <1>3 DEF Max

\* A finite set of numbers has a least one.
LEMMA LeastOfFinite ==
  ASSUME NEW S, IsFiniteSet(S), S # {}, S \subseteq Int
  PROVE  \E m \in S : \A x \in S : m <= x
<1> DEFINE bounded == {T \in SUBSET S : T = {} \/ \E m \in T : \A x \in T : m <= x}
<1>1. ASSUME NEW T \in SUBSET S, \A x \in T : T \ {x} \in bounded
      PROVE  T \in bounded
  <2> SUFFICES ASSUME NEW x \in T
               PROVE  \E m \in T : \A y \in T : m <= y
    OBVIOUS
  <2>1. CASE T \ {x} = {}
    BY <2>1
  <2>2. CASE T \ {x} # {}
    <3>1. PICK m \in T \ {x} : \A y \in T \ {x} : m <= y
      BY <1>1, <2>2
    <3>2. x \in Int /\ m \in Int /\ \A y \in T : y \in Int
      OBVIOUS
    <3>3. CASE m <= x
      BY <3>1, <3>3
    <3>4. CASE ~(m <= x)
      BY <3>1, <3>2, <3>4
    <3> QED
      BY <3>3, <3>4
  <2> QED
    BY <2>1, <2>2
<1>2. S \in bounded
  <2> HIDE DEF bounded
  <2> QED
    BY <1>1, SubsetInduction
<1> QED
  BY <1>2

-----------------------------------------------------------------------------
(* Sums *)

\* Total takes the elements of a set in an order of its own.
Picked(s) == CHOOSE x \in s : TRUE

\* A member is picked from a set that has one.
LEMMA PickedIn == \A s : s # {} => Picked(s) \in s
BY DEF Picked

SumStep(f, g, s) == IF s = {} THEN 0 ELSE f[Picked(s)] + g[s \ {Picked(s)}]

IsFold(f, g, S) == g = [s \in SUBSET S |-> SumStep(f, g, s)]

\* MapThenSumSet is a recursive function on the subsets.
LEMMA SumIsFold ==
  ASSUME NEW f, NEW S
  PROVE  SumFunctionOnSet(f, S) = (CHOOSE g : IsFold(f, g, S))[S]
BY DEF SumFunctionOnSet, FoldFunctionOnSet, MapThenFoldSet, IsFold, SumStep, Picked

\* On a finite set there is such a function.
LEMMA FoldExists ==
  ASSUME NEW f, NEW S, IsFiniteSet(S)
  PROVE  \E g : IsFold(f, g, S)
<1> DEFINE upTo(g, n) == \A s \in SUBSET S : Cardinality(s) <= n => g[s] = SumStep(f, g, s)
           N == {n \in Nat : \E g : g = [s \in SUBSET S |-> g[s]] /\ upTo(g, n)}
<1>1. \A s \in SUBSET S : /\ Cardinality(s) \in Nat /\ (Cardinality(s) = 0 => s = {})
                          /\ Cardinality(s) <= Cardinality(S)
                          /\ \A x \in s : Cardinality(s \ {x}) = Cardinality(s) - 1
  <2> TAKE s \in SUBSET S
  <2>1. IsFiniteSet(s) /\ Cardinality(s) <= Cardinality(S)
    BY FS_Subset
  <2>2. Cardinality(s) \in Nat /\ (Cardinality(s) = 0 <=> s = {})
    BY <2>1, FS_CardinalityType, FS_EmptySet
  <2>3. \A x \in s : Cardinality(s \ {x}) = Cardinality(s) - 1
    BY <2>1, FS_RemoveElement
  <2> QED
    BY <2>1, <2>2, <2>3
<1>2. 0 \in N
  <2> DEFINE g == [s \in SUBSET S |-> 0]
  <2>1. ASSUME NEW s \in SUBSET S, Cardinality(s) <= 0
        PROVE  g[s] = SumStep(f, g, s)
    <3>1. s = {}
      BY <1>1, <2>1
    <3> QED
      BY <3>1 DEF SumStep
  <2>2. g = [s \in SUBSET S |-> g[s]]
    OBVIOUS
  <2> QED
    BY <2>1, <2>2
<1>3. ASSUME NEW n \in Nat, n \in N
      PROVE  n + 1 \in N
  <2>1. PICK g : g = [s \in SUBSET S |-> g[s]] /\ upTo(g, n)
    BY <1>3
  <2> DEFINE h == [s \in SUBSET S |-> SumStep(f, g, s)]
  <2>2. \A s \in SUBSET S : Cardinality(s) <= n => h[s] = g[s]
    BY <2>1
  <2>3. ASSUME NEW s \in SUBSET S, Cardinality(s) <= n + 1
        PROVE  h[s] = SumStep(f, h, s)
    <3>1. CASE s = {}
      BY <3>1 DEF SumStep
    <3>2. CASE s # {}
      <4> DEFINE r == s \ {Picked(s)}
      <4>1. Picked(s) \in s
        BY <3>2, PickedIn
      <4>2. r \in SUBSET S /\ Cardinality(r) <= n
        <5>1. Cardinality(r) = Cardinality(s) - 1 /\ Cardinality(s) \in Nat
          BY <4>1, <1>1
        <5> QED
          BY <5>1, <2>3
      <4>3. h[r] = g[r]
        BY <4>2, <2>2
      <4> QED
        BY <4>3, <3>2 DEF SumStep
    <3> QED
      BY <3>1, <3>2
  <2>4. h = [s \in SUBSET S |-> h[s]]
    OBVIOUS
  <2>5. upTo(h, n + 1)
    BY <2>3
  <2> QED
    <3> HIDE DEF h, upTo
    <3> QED
      BY <2>4, <2>5
<1>4. Cardinality(S) \in N
  <2>1. Nat \subseteq N
    <3> HIDE DEF N
    <3> QED
      BY <1>2, <1>3, SetInduction
  <2>2. Cardinality(S) \in Nat
    BY FS_CardinalityType
  <2> HIDE DEF N
  <2> QED
    BY <2>1, <2>2
<1>5. PICK g : g = [s \in SUBSET S |-> g[s]] /\ upTo(g, Cardinality(S))
  BY <1>4
<1>6. \A s \in SUBSET S : g[s] = SumStep(f, g, s)
  BY <1>5, <1>1
<1> QED
  BY <1>5, <1>6 DEF IsFold

\* A sum is one term and the sum of the others.
LEMMA SumPicks ==
  ASSUME NEW f, NEW S, IsFiniteSet(S)
  PROVE  /\ S = {} => SumFunctionOnSet(f, S) = 0
         /\ S # {} => SumFunctionOnSet(f, S) = f[Picked(S)] + SumFunctionOnSet(f, S \ {Picked(S)})
<1> DEFINE g(T) == CHOOSE h : IsFold(f, h, T)
<1>1. ASSUME NEW T \in SUBSET S
      PROVE  /\ IsFiniteSet(T) /\ SumFunctionOnSet(f, T) = g(T)[T]
             /\ \A s \in SUBSET T : g(T)[s] = SumStep(f, g(T), s)
  <2>1. IsFiniteSet(T)
    BY FS_Subset
  <2>2. IsFold(f, g(T), T)
    BY <2>1, FoldExists
  <2>3. SumFunctionOnSet(f, T) = g(T)[T]
    BY SumIsFold
  <2> HIDE DEF g
  <2> QED
    BY <2>1, <2>2, <2>3 DEF IsFold
<1> HIDE DEF g
<1>2. CASE S = {}
  BY <1>1, <1>2 DEF SumStep
<1>3. CASE S # {}
  <2> DEFINE T == S \ {Picked(S)}
             same == {s \in SUBSET T : g(S)[s] = g(T)[s]}
  <2>1. T \in SUBSET S
    OBVIOUS
  <2>2. ASSUME NEW s \in SUBSET T, \A x \in s : s \ {x} \in same
        PROVE  s \in same
    <3>1. g(S)[s] = SumStep(f, g(S), s) /\ g(T)[s] = SumStep(f, g(T), s)
      BY <1>1, <2>1
    <3>2. s # {} => Picked(s) \in s
      BY PickedIn
    <3>3. s # {} => g(S)[s \ {Picked(s)}] = g(T)[s \ {Picked(s)}]
      BY <3>2, <2>2
    <3> QED
      BY <3>1, <3>3 DEF SumStep
  <2>3. T \in same
    <3>1. IsFiniteSet(T)
      BY <1>1, <2>1
    <3> HIDE DEF same, T
    <3> QED
      BY <3>1, <2>2, SubsetInduction
  <2>4. g(S)[S] = f[Picked(S)] + g(S)[T]
    BY <1>1, <1>3 DEF SumStep
  <2>5. g(S)[T] = g(T)[T]
    BY <2>3
  <2>6. SumFunctionOnSet(f, S) = g(S)[S] /\ SumFunctionOnSet(f, T) = g(T)[T]
    BY <1>1, <2>1
  <2> HIDE DEF T
  <2>7. SumFunctionOnSet(f, S) = f[Picked(S)] + SumFunctionOnSet(f, T)
    BY <2>4, <2>5, <2>6
  <2> QED
    BY <2>7, <1>3 DEF T
<1> QED
  BY <1>2, <1>3

\* The order makes no difference.
LEMMA SumRemove ==
  ASSUME NEW f, NEW S, IsFiniteSet(S), \A x \in S : f[x] \in Int
  PROVE  /\ SumFunctionOnSet(f, S) \in Int
         /\ \A x \in S : SumFunctionOnSet(f, S) = f[x] + SumFunctionOnSet(f, S \ {x})
<1> DEFINE sums == {T \in SUBSET S : /\ SumFunctionOnSet(f, T) \in Int
                                     /\ \A x \in T : /\ SumFunctionOnSet(f, T) = f[x] + SumFunctionOnSet(f, T \ {x})
                                                     /\ SumFunctionOnSet(f, T \ {x}) \in Int}
<1>1. ASSUME NEW T \in SUBSET S, \A x \in T : T \ {x} \in sums
      PROVE  T \in sums
  <2>1. IsFiniteSet(T)
    BY FS_Subset
  <2>2. CASE T = {}
    <3>1. SumFunctionOnSet(f, T) = 0
      BY <2>1, <2>2, SumPicks
    <3> QED
      BY <2>2, <3>1
  <2>3. CASE T # {}
    <3> DEFINE c == Picked(T)
    <3>1. c \in T /\ f[c] \in Int
      BY <2>3, PickedIn
    <3>2. SumFunctionOnSet(f, T) = f[c] + SumFunctionOnSet(f, T \ {c})
      BY <2>1, <2>3, SumPicks
    <3> HIDE DEF c
    <3>3. SumFunctionOnSet(f, T \ {c}) \in Int
      BY <1>1, <3>1
    <3>4. ASSUME NEW x \in T, x # c
          PROVE  SumFunctionOnSet(f, T) = f[x] + SumFunctionOnSet(f, T \ {x})
      <4> DEFINE rest == (T \ {x}) \ {c}
      <4>1. f[x] \in Int /\ T \ {x} \in sums /\ T \ {c} \in sums
        BY <1>1, <3>1
      <4>2. (T \ {c}) \ {x} = rest /\ x \in T \ {c} /\ c \in T \ {x}
        BY <3>1, <3>4
      <4>3. SumFunctionOnSet(f, T \ {c}) = f[x] + SumFunctionOnSet(f, rest)
        BY <4>1, <4>2
      <4>4. SumFunctionOnSet(f, T \ {x}) = f[c] + SumFunctionOnSet(f, rest) /\ SumFunctionOnSet(f, T \ {x}) \in Int
        BY <4>1, <4>2
      <4>5. SumFunctionOnSet(f, rest) \in Int
        BY <4>1, <4>2
      <4> HIDE DEF rest
      <4> QED
        BY <3>1, <3>2, <4>1, <4>3, <4>4, <4>5
    <3> QED
      <4>1. SumFunctionOnSet(f, T) \in Int
        BY <3>1, <3>2, <3>3
      <4>2. \A x \in T : SumFunctionOnSet(f, T \ {x}) \in Int
        BY <1>1
      <4>3. \A x \in T : SumFunctionOnSet(f, T) = f[x] + SumFunctionOnSet(f, T \ {x})
        BY <3>2, <3>4
      <4> QED
        BY <4>1, <4>2, <4>3
  <2> QED
    BY <2>2, <2>3
<1> QED
  <2> HIDE DEF sums
  <2>1. S \in sums
    BY <1>1, SubsetInduction
  <2> QED
    BY <2>1 DEF sums

\* A sum of naturals is one.
LEMMA SumNat ==
  ASSUME NEW f, NEW S, IsFiniteSet(S), \A x \in S : f[x] \in Nat
  PROVE  SumFunctionOnSet(f, S) \in Nat
<1> DEFINE sums == {T \in SUBSET S : SumFunctionOnSet(f, T) \in Nat}
<1>1. ASSUME NEW T \in SUBSET S, \A x \in T : T \ {x} \in sums
      PROVE  T \in sums
  <2>1. IsFiniteSet(T)
    BY FS_Subset
  <2>2. CASE T = {}
    <3>1. SumFunctionOnSet(f, T) = 0
      BY <2>1, <2>2, SumPicks
    <3> QED
      BY <3>1
  <2>3. ASSUME NEW x \in T
        PROVE  SumFunctionOnSet(f, T) \in Nat
    <3>1. SumFunctionOnSet(f, T) = f[x] + SumFunctionOnSet(f, T \ {x})
      BY <2>1, SumRemove
    <3>2. f[x] \in Nat /\ SumFunctionOnSet(f, T \ {x}) \in Nat
      BY <1>1
    <3> QED
      BY <3>1, <3>2
  <2> QED
    BY <2>2, <2>3
<1>2. S \in sums
  <2> HIDE DEF sums
  <2> QED
    BY <1>1, SubsetInduction
<1> QED
  BY <1>2

\* A sum of nothing is zero, and every element adds its own.
LEMMA SumOf ==
  ASSUME NEW f, NEW S, IsFiniteSet(S), \A x \in S : f[x] \in Nat
  PROVE  /\ SumFunctionOnSet(f, S) \in Nat
         /\ S = {} => SumFunctionOnSet(f, S) = 0
         /\ \A x \in S : /\ SumFunctionOnSet(f, S) = f[x] + SumFunctionOnSet(f, S \ {x})
                         /\ SumFunctionOnSet(f, S \ {x}) \in Nat
<1>1. \A x \in S : f[x] \in Int
  OBVIOUS
<1>2. ASSUME NEW x \in S PROVE SumFunctionOnSet(f, S \ {x}) \in Nat
  <2>1. IsFiniteSet(S \ {x}) /\ \A y \in S \ {x} : f[y] \in Nat
    BY FS_RemoveElement
  <2> QED
    BY <2>1, SumNat
<1>3. ASSUME NEW x \in S PROVE SumFunctionOnSet(f, S) = f[x] + SumFunctionOnSet(f, S \ {x})
  BY <1>1, SumRemove
<1>4. SumFunctionOnSet(f, S) \in Nat
  BY SumNat
<1>5. S = {} => SumFunctionOnSet(f, S) = 0
  BY SumPicks
<1> QED
  BY <1>2, <1>3, <1>4, <1>5

\* The terms alone make the sum.
LEMMA SumSame ==
  ASSUME NEW f, NEW g, NEW S, IsFiniteSet(S), \A x \in S : f[x] = g[x] /\ f[x] \in Int
  PROVE  SumFunctionOnSet(f, S) = SumFunctionOnSet(g, S)
<1> DEFINE same == {T \in SUBSET S : SumFunctionOnSet(f, T) = SumFunctionOnSet(g, T)}
<1>1. ASSUME NEW T \in SUBSET S, \A x \in T : T \ {x} \in same
      PROVE  T \in same
  <2>1. IsFiniteSet(T) /\ \A x \in T : f[x] \in Int /\ g[x] \in Int /\ f[x] = g[x]
    BY FS_Subset
  <2>2. CASE T = {}
    BY <2>1, <2>2, SumPicks
  <2>3. ASSUME NEW x \in T PROVE SumFunctionOnSet(f, T) = SumFunctionOnSet(g, T)
    <3>1. SumFunctionOnSet(f, T) = f[x] + SumFunctionOnSet(f, T \ {x})
      BY <2>1, SumRemove
    <3>2. SumFunctionOnSet(g, T) = g[x] + SumFunctionOnSet(g, T \ {x})
      BY <2>1, SumRemove
    <3>3. SumFunctionOnSet(f, T \ {x}) = SumFunctionOnSet(g, T \ {x})
      BY <1>1
    <3> QED
      BY <2>1, <3>1, <3>2, <3>3
  <2> QED
    BY <2>2, <2>3
<1>2. S \in same
  <2> HIDE DEF same
  <2> QED
    BY <1>1, SubsetInduction
<1> QED
  BY <1>2

\* Two sums over sets apart are one.
LEMMA SumUnion ==
  ASSUME NEW f, NEW S, NEW T, IsFiniteSet(S), IsFiniteSet(T), S \cap T = {},
         \A x \in S \cup T : f[x] \in Nat
  PROVE  SumFunctionOnSet(f, S \cup T) = SumFunctionOnSet(f, S) + SumFunctionOnSet(f, T)
<1> DEFINE good == {U \in SUBSET S : SumFunctionOnSet(f, U \cup T)
                                       = SumFunctionOnSet(f, U) + SumFunctionOnSet(f, T)}
<1>0. SumFunctionOnSet(f, T) \in Nat
  BY SumNat
<1>1. ASSUME NEW U \in SUBSET S, \A x \in U : U \ {x} \in good
      PROVE  U \in good
  <2>1. /\ IsFiniteSet(U) /\ IsFiniteSet(U \cup T)
        /\ \A x \in U \cup T : f[x] \in Nat
    <3>1. IsFiniteSet(U)
      BY FS_Subset
    <3> QED
      BY <3>1, FS_Union
  <2>2. CASE U = {}
    <3>1. SumFunctionOnSet(f, U) = 0
      BY <2>1, <2>2, SumPicks
    <3>2. U \cup T = T
      BY <2>2
    <3>3. SumFunctionOnSet(f, U \cup T) = SumFunctionOnSet(f, T)
      BY <3>2, Zenon
    <3>4. PICK n \in Nat : n = SumFunctionOnSet(f, T)
      BY <1>0
    <3>5. n = 0 + n
      OBVIOUS
    <3> QED
      BY <3>1, <3>3, <3>4, <3>5, Zenon
  <2>3. ASSUME NEW x \in U
        PROVE  SumFunctionOnSet(f, U \cup T) = SumFunctionOnSet(f, U) + SumFunctionOnSet(f, T)
    <3>1. x \in U \cup T /\ (U \cup T) \ {x} = (U \ {x}) \cup T
      OBVIOUS
    <3>2. SumFunctionOnSet(f, U \cup T) = f[x] + SumFunctionOnSet(f, (U \cup T) \ {x})
      BY <2>1, <3>1, SumOf
    <3>3. SumFunctionOnSet(f, U) = f[x] + SumFunctionOnSet(f, U \ {x})
          /\ SumFunctionOnSet(f, U \ {x}) \in Nat
      BY <2>1, SumOf
    <3>4. SumFunctionOnSet(f, (U \ {x}) \cup T)
            = SumFunctionOnSet(f, U \ {x}) + SumFunctionOnSet(f, T)
      BY <1>1
    <3>5. f[x] \in Nat
      OBVIOUS
    <3>6. SumFunctionOnSet(f, (U \cup T) \ {x}) = SumFunctionOnSet(f, (U \ {x}) \cup T)
      BY <3>1
    <3> HIDE DEF good
    <3> QED
      BY ONLY <1>0, <3>2, <3>3, <3>4, <3>5, <3>6
  <2> QED
    BY <2>2, <2>3
<1>2. S \in good
  <2> HIDE DEF good
  <2> QED
    BY <1>1, SubsetInduction
<1> QED
  BY <1>2

\* A sum over more is no smaller.
LEMMA SumOfMore ==
  ASSUME NEW f, NEW S, NEW T, IsFiniteSet(T), S \subseteq T, \A x \in T : f[x] \in Nat
  PROVE  SumFunctionOnSet(f, S) <= SumFunctionOnSet(f, T)
<1>1. IsFiniteSet(S) /\ IsFiniteSet(T \ S) /\ S \cup (T \ S) = T /\ S \cap (T \ S) = {}
  BY FS_Subset
<1>2. SumFunctionOnSet(f, T) = SumFunctionOnSet(f, S) + SumFunctionOnSet(f, T \ S)
  <2> DEFINE R == T \ S
  <2>1. IsFiniteSet(R) /\ S \cup R = T /\ S \cap R = {} /\ \A x \in S \cup R : f[x] \in Nat
    BY <1>1
  <2> HIDE DEF R
  <2>2. SumFunctionOnSet(f, S \cup R) = SumFunctionOnSet(f, S) + SumFunctionOnSet(f, R)
    BY <1>1, <2>1, SumUnion
  <2> QED
    BY <2>1, <2>2 DEF R
<1>3. SumFunctionOnSet(f, S) \in Nat /\ SumFunctionOnSet(f, T \ S) \in Nat
  <2>1. \A x \in T \ S : f[x] \in Nat
    OBVIOUS
  <2>2. SumFunctionOnSet(f, T \ S) \in Nat
    BY <1>1, <2>1, SumNat
  <2>3. SumFunctionOnSet(f, S) \in Nat
    BY <1>1, SumNat
  <2> QED
    BY <2>2, <2>3
<1> QED
  BY <1>2, <1>3

\* The sums over what part tells apart.
PartSums(f, S, part, I) == [i \in I |-> SumFunctionOnSet(f, {x \in S : part[x] = i})]

\* They make the whole.
LEMMA SumOfParts ==
  ASSUME NEW f, NEW S, NEW part, NEW I, IsFiniteSet(S), IsFiniteSet(I),
         \A x \in S : f[x] \in Nat /\ part[x] \in I
  PROVE  SumFunctionOnSet(PartSums(f, S, part, I), I) = SumFunctionOnSet(f, S)
<1> DEFINE sums == PartSums(f, S, part, I)
           whole(J) == {x \in S : part[x] \in J}
           good == {J \in SUBSET I : SumFunctionOnSet(sums, J) = SumFunctionOnSet(f, whole(J))}
<1>1. ASSUME NEW i \in I
      PROVE  LET P == {x \in S : part[x] = i}
             IN IsFiniteSet(P) /\ sums[i] = SumFunctionOnSet(f, P) /\ sums[i] \in Nat
  <2> DEFINE P == {x \in S : part[x] = i}
  <2>1. P \subseteq S /\ sums[i] = SumFunctionOnSet(f, P)
    BY DEF PartSums
  <2> HIDE DEF P, sums
  <2>2. IsFiniteSet(P) /\ \A x \in P : f[x] \in Nat
    BY <2>1, FS_Subset
  <2> QED
    BY <2>1, <2>2, SumNat DEF P
<1> HIDE DEF sums
<1>2. ASSUME NEW J \in SUBSET I, \A i \in J : J \ {i} \in good
      PROVE  J \in good
  <2>1. IsFiniteSet(J) /\ \A i \in J : sums[i] \in Nat
    BY <1>1, FS_Subset
  <2>2. CASE J = {}
    <3>1. whole(J) = {}
      BY <2>2
    <3>2. IsFiniteSet({})
      BY FS_EmptySet
    <3> HIDE DEF whole
    <3>3. SumFunctionOnSet(f, {}) = 0 /\ SumFunctionOnSet(sums, {}) = 0
      BY <3>2, SumPicks
    <3> QED
      BY <2>2, <3>1, <3>3
  <2>3. ASSUME NEW i \in J PROVE SumFunctionOnSet(sums, J) = SumFunctionOnSet(f, whole(J))
    <3> DEFINE P == {x \in S : part[x] = i}
               R == whole(J \ {i})
    <3>1. /\ P \cup R = whole(J) /\ P \cap R = {}
          /\ \A x \in P \cup R : f[x] \in Nat
      OBVIOUS
    <3>2. R \subseteq S
      OBVIOUS
    <3>3. IsFiniteSet(P) /\ sums[i] = SumFunctionOnSet(f, P) /\ sums[i] \in Nat
      BY <1>1
    <3>4. SumFunctionOnSet(sums, J \ {i}) = SumFunctionOnSet(f, R)
      BY <1>2
    <3> HIDE DEF P, R, whole
    <3>5. IsFiniteSet(R)
      BY <3>2, FS_Subset
    <3>6. SumFunctionOnSet(f, P \cup R) = SumFunctionOnSet(f, P) + SumFunctionOnSet(f, R)
      BY <3>1, <3>3, <3>5, SumUnion
    <3>7. SumFunctionOnSet(sums, J) = sums[i] + SumFunctionOnSet(sums, J \ {i})
      BY <2>1, SumOf
    <3> QED
      BY <3>1, <3>3, <3>4, <3>6, <3>7
  <2> QED
    BY <2>2, <2>3
<1>3. I \in good
  <2> HIDE DEF good
  <2> QED
    BY <1>2, SubsetInduction
<1>4. whole(I) = S
  OBVIOUS
<1> QED
  BY <1>3, <1>4 DEF sums
=============================================================================
