------------------------- MODULE BenchmarkSyncProofs -------------------------
(***************************************************************************)
(* Proofs about BenchmarkSync: its tables are an atomic catalogue, and its *)
(* fingerprint names what they hold unless an execution was interrupted.   *)
(***************************************************************************)
EXTENDS BenchmarkSync, TLAPS

-----------------------------------------------------------------------------
(* The inductive invariant *)

Live(e) == pc[e] \in Busy /\ ctx[e] = "live"

Alone == \A e, f \in Execs : Live(e) /\ Live(f) => e = f

\* What the execution in charge has read is at least as new as everything else.
Newest(e) ==
  /\ pc[e] \in Busy => read[e] > 0
  /\ Live(e) => catalogue <= read[e] /\ \A f \in Execs : read[f] <= read[e]

\* COMMIT and SetJSON belong to their stages.
Staged(e) ==
  /\ pc[e] \in {"comparing", "building"} => commit[e] = "none" /\ set[e] = "none"
  /\ pc[e] = "committing" => set[e] = "none"

\* What is still in flight, of an execution in charge or of one cut off, is the
\* only thing in flight and goes forward.
InFlight(e) ==
  /\ commit[e] = "sent" =>
       /\ set[e] = "none"
       /\ read[e] > 0
       /\ catalogue <= read[e]
       /\ Content(read[e]) \in Valid
  /\ set[e] = "sent" => catalogue = read[e]
  /\ ~Settled(e) => /\ Between(e) \/ interrupted
                    /\ \A f \in Execs : f # e => Settled(f)

\* Between the two commits the execution in charge has Postgres to itself.
InCharge(e) ==
  Between(e) /\ Live(e) =>
    /\ \A f \in Execs : f # e => Settled(f)
    /\ commit[e] = "applied" => catalogue = read[e]
    /\ set[e] = "applied" => print = Content(catalogue)

\* Tables and fingerprint agree unless a fingerprint is still due.
Agreement ==
  ~interrupted /\ (\A e \in Execs : Between(e) => set[e] = "applied")
    => print = Content(catalogue)

Inv ==
  /\ TypeOK
  /\ Alone
  /\ \A e \in Execs : Newest(e) /\ Staged(e) /\ InFlight(e) /\ InCharge(e)
  /\ Agreement

-----------------------------------------------------------------------------
(* Types *)

\* The initial values are of the right types.
LEMMA InitTypeOK == Init => TypeOK
<1> SUFFICES ASSUME Init PROVE TypeOK
  OBVIOUS
<1>1. PICK c \in Contents \cup {None} : history = <<c>>
  BY DEF Init
<1>2. history \in Seq(Contents \cup {None}) /\ Len(history) = 1
  BY <1>1
<1>3. 1 \in 1..MaxVersions /\ 0 \in 0..Len(history)
  BY <1>2, BenchmarkSyncAssumption
<1> QED
  BY <1>2, <1>3 DEF Init, TypeOK

\* A version that the file has had stays what it was; there are ever more.
LEMMA HistoryGrows ==
  ASSUME TypeOK, [Next]_vars
  PROVE  /\ history' \in Seq(Contents \cup {None})
         /\ Len(history') \in 1..MaxVersions
         /\ Len(history) <= Len(history')
         /\ \A v \in 1..Len(history) : history'[v] = history[v]
<1>1. CASE Replace
  <2>1. PICK c \in Contents \cup {None} : history' = Append(history, c)
    BY <1>1 DEF Replace
  <2> QED
    BY <1>1, <2>1, BenchmarkSyncAssumption DEF Replace, TypeOK
<1>2. CASE history' = history
  BY <1>2 DEF TypeOK
<1> QED
  BY <1>1, <1>2 DEF Next, Advance, Outside, Answer, vars, store, Begin, ReadSource, Compare, Reject, SendCommit, SendSet, Succeed,
     Fail, Cancel, Crash, ApplyCommit, RollBack, ApplySet, RefuseSet

\* The content of a version is a content, and stays the same.
LEMMA ContentStays ==
  ASSUME TypeOK, [Next]_vars, NEW v \in 0..Len(history)
  PROVE  /\ Content(v) \in Contents \cup {None}
         /\ (IF v = 0 THEN None ELSE history'[v]) = Content(v)
  BY HistoryGrows DEF Content, TypeOK

\* Every step writes values of the right types.
LEMMA NextTypeOK == TypeOK /\ [Next]_vars => TypeOK'
<1> SUFFICES ASSUME TypeOK, [Next]_vars PROVE TypeOK'
  OBVIOUS
<1> USE DEF TypeOK, Busy, store
<1>1. ASSUME NEW e \in Execs, Begin(e) PROVE TypeOK'
  BY <1>1 DEF Begin, ReadSource
<1>2. ASSUME NEW e \in Execs, Compare(e) PROVE TypeOK'
  BY <1>2 DEF Compare
<1>3. ASSUME NEW e \in Execs, Reject(e) \/ SendCommit(e) PROVE TypeOK'
  BY <1>3 DEF Reject, SendCommit, Ends
<1>4. ASSUME NEW e \in Execs, SendSet(e) \/ Succeed(e) PROVE TypeOK'
  BY <1>4 DEF SendSet, Succeed, Ends
<1>5. ASSUME NEW e \in Execs, Fail(e) \/ Cancel(e) PROVE TypeOK'
  BY <1>5 DEF Fail, Cancel, Ends, Between
<1>6. CASE Crash
  BY <1>6 DEF Crash, Between
<1>11. ASSUME NEW e \in Execs, RollBack(e) \/ RefuseSet(e) PROVE TypeOK'
  BY <1>11 DEF RollBack, RefuseSet
<1>7. ASSUME NEW e \in Execs, ApplyCommit(e) PROVE TypeOK'
  BY <1>7 DEF ApplyCommit
<1>8. ASSUME NEW e \in Execs, ApplySet(e) PROVE TypeOK'
  <2>1. Content(read[e]) \in Contents \cup {None}
    BY ContentStays
  <2> QED
    BY <1>8, <2>1 DEF ApplySet
<1>9. CASE Replace
  <2>1. 0..Len(history) \subseteq 0..Len(history')
    BY HistoryGrows
  <2> QED
    BY <1>9, <2>1, HistoryGrows DEF Replace
<1>10. CASE UNCHANGED vars
  BY <1>10 DEF vars
<1> QED
  BY <1>1, <1>2, <1>3, <1>4, <1>5, <1>6, <1>7, <1>8, <1>9, <1>10, <1>11 DEF Next, Advance, Outside, Answer

-----------------------------------------------------------------------------
(* The invariant *)

\* The initial states satisfy the invariant.
LEMMA InitInv == Init => Inv
<1> SUFFICES ASSUME Init PROVE Inv
  OBVIOUS
<1>1. TypeOK
  BY InitTypeOK
<1>2. Alone /\ \A e \in Execs : Newest(e) /\ Staged(e) /\ InFlight(e) /\ InCharge(e)
  BY <1>1 DEF Init, Alone, Newest, Staged, InFlight, InCharge, Live, Between, Busy, Settled
<1>3. Agreement
  BY DEF Init, Agreement, Content
<1> QED
  BY <1>1, <1>2, <1>3 DEF Inv

\* An execution begins only when no other is in charge; no other step puts one in charge.
LEMMA NextAlone == Inv /\ [Next]_vars => Alone'
<1> SUFFICES ASSUME Inv, [Next]_vars PROVE Alone'
  OBVIOUS
<1> USE DEF Inv, TypeOK, Alone, Live, Busy, store
<1>1. ASSUME NEW e \in Execs, Begin(e) PROVE Alone'
  BY <1>1 DEF Begin, ReadSource
<1>2. ASSUME NEW e \in Execs, Compare(e) \/ Reject(e) PROVE Alone'
  BY <1>2 DEF Compare, Reject, Ends
<1>3. ASSUME NEW e \in Execs, SendCommit(e) \/ SendSet(e) PROVE Alone'
  BY <1>3 DEF SendCommit, SendSet
<1>4. ASSUME NEW e \in Execs, Succeed(e) \/ Fail(e) \/ Cancel(e) PROVE Alone'
  BY <1>4 DEF Succeed, Fail, Cancel, Ends
<1>5. ASSUME NEW e \in Execs, Answer(e) PROVE Alone'
  BY <1>5 DEF Answer, ApplyCommit, RollBack, ApplySet, RefuseSet
<1>6. CASE Crash \/ Replace \/ UNCHANGED vars
  BY <1>6 DEF Crash, Replace, vars
<1> QED
  BY <1>1, <1>2, <1>3, <1>4, <1>5, <1>6 DEF Next, Advance, Outside

\* An execution reads the newest version when it begins, and no one else reads or
\* writes a newer one while it is in charge.
LEMMA NextNewest == Inv /\ [Next]_vars => \A g \in Execs : Newest(g)'
<1> SUFFICES ASSUME Inv, [Next]_vars, NEW g \in Execs PROVE Newest(g)'
  OBVIOUS
<1> USE DEF Inv, TypeOK, Newest, Live, Busy, store
<1>1. ASSUME NEW e \in Execs, Begin(e) PROVE Newest(g)'
  BY <1>1 DEF Begin, ReadSource
<1>2. ASSUME NEW e \in Execs, Compare(e) \/ Reject(e) PROVE Newest(g)'
  BY <1>2 DEF Compare, Reject, Ends
<1>3. ASSUME NEW e \in Execs, SendCommit(e) \/ SendSet(e) PROVE Newest(g)'
  BY <1>3 DEF SendCommit, SendSet
<1>4. ASSUME NEW e \in Execs, Succeed(e) \/ Fail(e) \/ Cancel(e) PROVE Newest(g)'
  BY <1>4 DEF Succeed, Fail, Cancel, Ends
<1>5. ASSUME NEW e \in Execs, Answer(e) PROVE Newest(g)'
  BY <1>5 DEF Answer, ApplyCommit, RollBack, ApplySet, RefuseSet
<1>6. CASE Crash \/ Replace \/ UNCHANGED vars
  BY <1>6 DEF Crash, Replace, vars
<1> QED
  BY <1>1, <1>2, <1>3, <1>4, <1>5, <1>6 DEF Next, Advance, Outside

\* Nothing is sent before its stage.
LEMMA NextStaged == Inv /\ [Next]_vars => \A g \in Execs : Staged(g)'
<1> SUFFICES ASSUME Inv, [Next]_vars, NEW g \in Execs PROVE Staged(g)'
  OBVIOUS
<1> USE DEF Inv, TypeOK, Staged, Busy, store
<1>1. ASSUME NEW e \in Execs, Begin(e) PROVE Staged(g)'
  BY <1>1 DEF Begin, ReadSource
<1>2. ASSUME NEW e \in Execs, Compare(e) \/ Reject(e) PROVE Staged(g)'
  BY <1>2 DEF Compare, Reject, Ends
<1>3. ASSUME NEW e \in Execs, SendCommit(e) \/ SendSet(e) PROVE Staged(g)'
  BY <1>3 DEF SendCommit, SendSet
<1>4. ASSUME NEW e \in Execs, Succeed(e) \/ Fail(e) \/ Cancel(e) PROVE Staged(g)'
  BY <1>4 DEF Succeed, Fail, Cancel, Ends
<1>5. ASSUME NEW e \in Execs, Answer(e) PROVE Staged(g)'
  BY <1>5 DEF Answer, ApplyCommit, RollBack, ApplySet, RefuseSet
<1>6. CASE Crash \/ Replace \/ UNCHANGED vars
  BY <1>6 DEF Crash, Replace, vars
<1> QED
  BY <1>1, <1>2, <1>3, <1>4, <1>5, <1>6 DEF Next, Advance, Outside

\* SendCommit finds nothing in flight, and SendSet follows the acknowledgement of
\* the execution's own COMMIT; whoever is cut off afterwards counts as interrupted.
LEMMA NextInFlight == Inv /\ [Next]_vars => \A g \in Execs : InFlight(g)'
<1> SUFFICES ASSUME Inv, [Next]_vars, NEW g \in Execs PROVE InFlight(g)'
  OBVIOUS
<1> USE DEF Inv, TypeOK, InFlight, Between, Settled, Content, store
<1>1. ASSUME NEW e \in Execs, Begin(e) PROVE InFlight(g)'
  BY <1>1 DEF Begin, ReadSource, Busy
<1>2. ASSUME NEW e \in Execs, Compare(e) PROVE InFlight(g)'
  BY <1>2 DEF Compare, Staged
<1>11. ASSUME NEW e \in Execs, Reject(e) PROVE InFlight(g)'
  BY <1>11 DEF Reject, Ends, Staged
<1>3. ASSUME NEW e \in Execs, SendCommit(e) PROVE InFlight(g)'
  BY <1>3 DEF SendCommit, Newest, Staged, Live, Busy
<1>4. ASSUME NEW e \in Execs, SendSet(e) PROVE InFlight(g)'
  BY <1>4 DEF SendSet, InCharge, Live, Busy
<1>5. ASSUME NEW e \in Execs, Succeed(e) PROVE InFlight(g)'
  BY <1>5 DEF Succeed, Ends, InCharge, Live, Busy
<1>6. ASSUME NEW e \in Execs, Fail(e) \/ Cancel(e) PROVE InFlight(g)'
  BY <1>6 DEF Fail, Cancel, Ends, Staged, Busy
<1>7. ASSUME NEW e \in Execs, ApplyCommit(e) \/ RollBack(e) PROVE InFlight(g)'
  BY <1>7 DEF ApplyCommit, RollBack
<1>8. ASSUME NEW e \in Execs, ApplySet(e) \/ RefuseSet(e) PROVE InFlight(g)'
  BY <1>8 DEF ApplySet, RefuseSet
<1>9. CASE Replace \/ UNCHANGED vars
  BY <1>9, HistoryGrows DEF Replace, vars
<1>10. CASE Crash
  <2>1. interrupted \/ Between(g) => interrupted'
    BY <1>10 DEF Crash
  <2>2. UNCHANGED <<history, catalogue, print, read, commit, set>>
    BY <1>10 DEF Crash
  <2> HIDE DEF Between
  <2> QED
    BY <2>1, <2>2
<1> QED
  BY <1>1, <1>2, <1>3, <1>4, <1>5, <1>6, <1>7, <1>8, <1>9, <1>10, <1>11 DEF Next, Advance, Outside, Answer

\* The execution in charge alone writes tables and fingerprint, in this order.
LEMMA NextInCharge == Inv /\ [Next]_vars => \A g \in Execs : InCharge(g)'
<1> SUFFICES ASSUME Inv, [Next]_vars, NEW g \in Execs PROVE InCharge(g)'
  OBVIOUS
<1> USE DEF Inv, TypeOK, InCharge, Between, Settled, Live, Busy, Content, store
<1>1. ASSUME NEW e \in Execs, Begin(e) PROVE InCharge(g)'
  BY <1>1 DEF Begin, ReadSource
<1>2. ASSUME NEW e \in Execs, Compare(e) \/ Reject(e) PROVE InCharge(g)'
  BY <1>2 DEF Compare, Reject, Ends
<1>3. ASSUME NEW e \in Execs, SendCommit(e) PROVE InCharge(g)'
  BY <1>3 DEF SendCommit, Alone, Staged
<1>4. ASSUME NEW e \in Execs, SendSet(e) PROVE InCharge(g)'
  BY <1>4 DEF SendSet, Alone
<1>5. ASSUME NEW e \in Execs, Succeed(e) \/ Fail(e) \/ Cancel(e) PROVE InCharge(g)'
  BY <1>5 DEF Succeed, Fail, Cancel, Ends
<1>6. ASSUME NEW e \in Execs, ApplyCommit(e) \/ RollBack(e) PROVE InCharge(g)'
  BY <1>6 DEF ApplyCommit, RollBack, InFlight
<1>7. ASSUME NEW e \in Execs, ApplySet(e) \/ RefuseSet(e) PROVE InCharge(g)'
  BY <1>7 DEF ApplySet, RefuseSet, InFlight
<1>8. CASE Crash \/ Replace \/ UNCHANGED vars
  BY <1>8, HistoryGrows DEF Crash, Replace, vars
<1> QED
  BY <1>1, <1>2, <1>3, <1>4, <1>5, <1>6, <1>7, <1>8 DEF Next, Advance, Outside, Answer

\* A COMMIT leaves a fingerprint due, the SetJSON of the same execution settles it.
LEMMA NextAgreement == Inv /\ [Next]_vars => Agreement'
<1> SUFFICES ASSUME Inv, [Next]_vars PROVE Agreement'
  OBVIOUS
<1> USE DEF Inv, TypeOK, Agreement, Between, Content, store
<1>1. ASSUME NEW e \in Execs, Begin(e) PROVE Agreement'
  BY <1>1 DEF Begin, ReadSource, Busy
<1>2. ASSUME NEW e \in Execs, Compare(e) \/ Reject(e) PROVE Agreement'
  BY <1>2 DEF Compare, Reject, Ends
<1>3. ASSUME NEW e \in Execs, SendCommit(e) \/ SendSet(e) PROVE Agreement'
  BY <1>3 DEF SendCommit, SendSet, Staged
<1>4. ASSUME NEW e \in Execs, Succeed(e) PROVE Agreement'
  BY <1>4 DEF Succeed, Ends, InCharge, Live, Busy
<1>5. ASSUME NEW e \in Execs, Fail(e) \/ Cancel(e) PROVE Agreement'
  BY <1>5 DEF Fail, Cancel, Ends
<1>6. ASSUME NEW e \in Execs, ApplyCommit(e) \/ RollBack(e) PROVE Agreement'
  BY <1>6 DEF ApplyCommit, RollBack, InFlight, Settled
<1>7. ASSUME NEW e \in Execs, ApplySet(e) \/ RefuseSet(e) PROVE Agreement'
  BY <1>7 DEF ApplySet, RefuseSet, InFlight, Settled
<1>8. CASE Replace \/ UNCHANGED vars
  BY <1>8, HistoryGrows DEF Replace, vars
<1>9. CASE Crash
  <2>1. ~interrupted' => ~interrupted /\ \A e \in Execs : ~Between(e)
    BY <1>9 DEF Crash
  <2>2. UNCHANGED <<history, catalogue, print>>
    BY <1>9 DEF Crash
  <2> QED
    BY <2>1, <2>2
<1> QED
  BY <1>1, <1>2, <1>3, <1>4, <1>5, <1>6, <1>7, <1>8, <1>9 DEF Next, Advance, Outside, Answer

\* The invariant holds in every reachable state.
LEMMA Invariance == Spec => []Inv
<1>1. Inv /\ [Next]_vars => Inv'
  BY NextTypeOK, NextAlone, NextNewest, NextStaged, NextInFlight, NextInCharge,
     NextAgreement DEF Inv
<1> QED
  BY InitInv, <1>1, PTL DEF Spec

-----------------------------------------------------------------------------
(* Theorems *)

\* What the file, the tables, the fingerprint and the executions hold is of the
\* right type, however often a sync fails or the file changes.
THEOREM Typing == Spec => []TypeOK
<1>1. Inv => TypeOK
  BY DEF Inv
<1> QED
  BY <1>1, Invariance, PTL

\* Run writes tables and fingerprint in two commits; whenever none is between
\* them and none was cut off there, the fingerprint names what the tables hold.
THEOREM PrintFollowsTables == Spec => []PrintMatchesCatalogue
<1>1. Inv => PrintMatchesCatalogue
  BY DEF Inv, Agreement, Between, PrintMatchesCatalogue
<1> QED
  BY <1>1, Invariance, PTL

\* The initial states are initial states of the abstract catalogue.
LEMMA CatalogueInitial == Init => Atomic!CatalogueInit
  BY DEF Init, Atomic!CatalogueInit

\* Applying a COMMIT publishes a newer valid version or writes again the one that
\* is there; replacing the file is the same step in both; the rest is a stutter.
LEMMA CatalogueStep ==
  Inv /\ [Next]_vars => [Atomic!CatalogueNext]_<<history, catalogue>>
<1> SUFFICES ASSUME Inv, [Next]_vars PROVE [Atomic!CatalogueNext]_<<history, catalogue>>
  OBVIOUS
<1>1. ASSUME NEW e \in Execs, ApplyCommit(e)
      PROVE  [Atomic!CatalogueNext]_<<history, catalogue>>
  <2>1. /\ UNCHANGED history
        /\ catalogue' = read[e]
        /\ catalogue <= read[e]
        /\ read[e] \in 1..Len(history)
        /\ history[read[e]] \in Valid
    BY <1>1 DEF ApplyCommit, Inv, InFlight, TypeOK, Content
  <2>2. CASE catalogue = read[e]
    BY <2>1, <2>2
  <2>3. CASE catalogue < read[e]
    <3>1. read[e] \in DOMAIN history
      BY <2>1 DEF Inv, TypeOK
    <3>2. Atomic!Publish
      BY <2>1, <2>3, <3>1 DEF Atomic!Publish
    <3> QED
      BY <3>2 DEF Atomic!CatalogueNext
  <2> QED
    BY <2>1, <2>2, <2>3 DEF Inv, TypeOK
<1>2. CASE Replace
  BY <1>2 DEF Replace, Atomic!Replace, Atomic!CatalogueNext
<1>3. CASE UNCHANGED <<history, catalogue>>
  BY <1>3
<1> QED
  BY <1>1, <1>2, <1>3 DEF Next, Advance, Outside, Answer, vars, store, Begin, ReadSource, Compare, Reject, SendCommit, SendSet,
     Succeed, Fail, Cancel, Crash, RollBack, ApplySet, RefuseSet

\* To the API the benchmark tables are an atomic catalogue: syncToDatabase only
\* ever replaces a whole valid content by one that was read later, even if an
\* execution is cancelled with its COMMIT under way and the next one overtakes it.
THEOREM ImplementsCatalogue == Spec => CatalogueSpec
  BY CatalogueInitial, CatalogueStep, Invariance, PTL
     DEF Spec, CatalogueSpec, Atomic!CatalogueSpec
=============================================================================
