---------------------------- MODULE MCCatalogueTx ----------------------------
(* CatalogueTx for files that add, drop, rename, reorder and move difficulties, and *)
(* for files whose values no row can hold.                                         *)
EXTENDS CatalogueTx, TLC

CONSTANTS A, B, easy, hard, s1, s2, old, new, garbled, undated, oversized

Diff(kid, name, data, links) ==
  [kid |-> kid, name |-> name, data |-> data, links |-> links]

Bench(name, data, difficulties) ==
  [name |-> name, data |-> data, difficulties |-> difficulties]

Base == << Bench(A, old, <<Diff(1, easy, old, <<s1, s2>>)>>),
           Bench(B, old, <<Diff(2, easy, old, <<s1>>)>>) >>

\* B is gone, A has new attributes, its difficulty other links.
Dropped == << Bench(A, new, <<Diff(1, easy, new, <<s2>>)>>) >>

\* Difficulty 1 moves down to B; A has none left.
MovedDown == << Bench(A, old, <<>>),
                Bench(B, old, <<Diff(2, easy, old, <<s1>>),
                                Diff(1, hard, old, <<s2, s1>>)>>) >>

\* The order of the benchmarks is reversed.
Reversed == << Base[2], Base[1] >>

\* One difficulty name twice.
Repeated == << Bench(A, old, <<Diff(1, easy, old, <<s1>>),
                               Diff(2, easy, old, <<s1>>)>>) >>

\* One kovaaks id twice.
Doubled == << Base[1], Bench(B, old, <<Diff(1, easy, old, <<s1>>)>>) >>

\* The difficulties change places.
Swapped == << Bench(A, old, <<Diff(2, easy, old, <<s1>>)>>),
              Bench(B, old, <<Diff(1, easy, old, <<s1, s2>>)>>) >>

\* A new difficulty takes the name of an old one, which is renamed and moves back.
Renamed == << Bench(A, old, <<Diff(3, easy, new, <<>>), Diff(1, hard, old, <<s2, s1>>)>>),
              Bench(B, new, <<Diff(2, hard, old, <<s2>>)>>) >>

\* A benchmark's name has a NUL; its dateAdded is no date.
Garbled == << Base[1], Bench(garbled, old, <<>>) >>
Undated == << Dropped[1], Bench(B, undated, <<>>) >>

\* A scenarioCount is above 2^31 - 1; a scenario of a moved difficulty has no good name.
Oversized == << Bench(A, new, <<Diff(1, easy, oversized, <<s1>>)>>) >>
Unnamed == << Bench(A, old, <<>>), Bench(B, old, <<Diff(1, easy, old, <<s2, garbled>>)>>) >>

MCFiles == {Base, Dropped, MovedDown, Reversed, Repeated, Doubled, Swapped, Renamed,
            Garbled, Undated, Oversized, Unnamed, <<>>}
=============================================================================
