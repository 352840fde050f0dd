---------------------------- MODULE BenchmarkSync ----------------------------
(***************************************************************************)
(* benchmarksync.Service.Run: the source file, the benchmark tables and    *)
(* the fingerprint kept in worker_job_state.  The tables and the           *)
(* fingerprint are written by two separate commits.                        *)
(*                                                                         *)
(* An execution may be cut off at any point, by cancellation, timeout, an  *)
(* error or the death of the process; a COMMIT or a SetJSON it has sent    *)
(* may still be applied afterwards.  The next execution begins once the    *)
(* earlier ones have ended or lost their context (Worker shows this);      *)
(* what they sent has been settled by Postgres before the next one, which  *)
(* has first to fetch every difficulty from kovaaks, sends its COMMIT.     *)
(*                                                                         *)
(* The statements of the transaction are left to CatalogueTx, what kovaaks *)
(* answers to RankMerge; here they succeed or fail.                        *)
(***************************************************************************)
EXTENDS Naturals, Sequences

CONSTANTS
  Contents,    \* what the source file may hold, told apart by its hash
  Valid,       \* the contents that parse and that the tables accept
  None,        \* no readable file; no fingerprint
  Execs,       \* executions under way or not yet settled
  MaxVersions  \* bound: versions of the source file

ASSUME BenchmarkSyncAssumption ==
  /\ Valid \subseteq Contents
  /\ None \notin Contents
  /\ MaxVersions \in Nat \ {0}

VARIABLES
  history,     \* the contents the source file has had, the last one now
  catalogue,   \* the version in the benchmark tables, 0 while they are empty
  print,       \* the hash under source_file in worker_job_state
  pc,          \* where each execution stands, or how it ended
  ctx,         \* its context; "live" while there is none
  read,        \* the version it has read
  commit,      \* its COMMIT
  set,         \* its SetJSON
  interrupted  \* history: an execution was cut off between sending its COMMIT
               \* and hearing of its SetJSON, and no later one has succeeded

store == <<history, catalogue, print>>
vars == <<store, pc, ctx, read, commit, set, interrupted>>

Busy == {"comparing", "building", "committing", "recording"}

TypeOK ==
  /\ history \in Seq(Contents \cup {None})
  /\ Len(history) \in 1..MaxVersions
  /\ catalogue \in 0..Len(history)
  /\ print \in Contents \cup {None}
  /\ pc \in [Execs -> Busy \cup {"idle", "skipped", "succeeded", "failed"}]
  /\ ctx \in [Execs -> {"live", "canceled"}]
  /\ read \in [Execs -> 0..Len(history)]
  /\ commit \in [Execs -> {"none", "sent", "applied", "rolledback"}]
  /\ set \in [Execs -> {"none", "sent", "applied", "refused"}]
  /\ interrupted \in BOOLEAN

Content(version) == IF version = 0 THEN None ELSE history[version]

File == Content(Len(history))

Init ==
  /\ history \in {<<c>> : c \in Contents \cup {None}}
  /\ catalogue = 0
  /\ print = None
  /\ pc = [e \in Execs |-> "idle"]
  /\ ctx = [e \in Execs |-> "live"]
  /\ read = [e \in Execs |-> 0]
  /\ commit = [e \in Execs |-> "none"]
  /\ set = [e \in Execs |-> "none"]
  /\ interrupted = FALSE

-----------------------------------------------------------------------------
(* Run *)

Settled(e) == commit[e] # "sent" /\ set[e] # "sent"

\* readSource: the bytes and their hash come from one read of the file.
ReadSource(e) ==
  /\ pc[e] \notin Busy
  /\ Settled(e)
  /\ pc' = [pc EXCEPT ![e] = IF File = None THEN "failed" ELSE "comparing"]
  /\ ctx' = [ctx EXCEPT ![e] = "live"]
  /\ read' = [read EXCEPT ![e] = Len(history)]
  /\ commit' = [commit EXCEPT ![e] = "none"]
  /\ set' = [set EXCEPT ![e] = "none"]
  /\ UNCHANGED <<store, interrupted>>

Begin(e) ==
  /\ \A f \in Execs : pc[f] \in Busy => ctx[f] = "canceled"
  /\ ReadSource(e)

Ends(e, how) ==
  /\ pc' = [pc EXCEPT ![e] = how]
  /\ ctx' = [ctx EXCEPT ![e] = "live"]

\* Variant: any fingerprint counts as the file's.
CompareExistence(e) ==
  /\ pc[e] = "comparing"
  /\ ctx[e] = "live"
  /\ pc' = [pc EXCEPT ![e] = IF print # None THEN "skipped" ELSE "building"]
  /\ UNCHANGED <<store, ctx, read, commit, set, interrupted>>

\* GetJSON, and the comparison of the two hashes.
Compare(e) ==
  /\ pc[e] = "comparing"
  /\ ctx[e] = "live"
  /\ pc' = [pc EXCEPT ![e] =
              IF print = Content(read[e]) THEN "skipped" ELSE "building"]
  /\ UNCHANGED <<store, ctx, read, commit, set, interrupted>>

\* parseBenchmarks, or a statement of the transaction, refuses the content.
Reject(e) ==
  /\ pc[e] = "building"
  /\ Content(read[e]) \notin Valid
  /\ Ends(e, "failed")
  /\ UNCHANGED <<store, read, commit, set, interrupted>>

\* Variant: the transaction runs on a context of its own.
SendCommitDetached(e) ==
  /\ pc[e] = "building"
  /\ Content(read[e]) \in Valid
  /\ \A f \in Execs : Settled(f)
  /\ pc' = [pc EXCEPT ![e] = "committing"]
  /\ commit' = [commit EXCEPT ![e] = "sent"]
  /\ UNCHANGED <<store, ctx, read, set, interrupted>>

\* parseBenchmarks, enrichBenchmarks and syncToDatabase up to its COMMIT.
SendCommit(e) ==
  /\ pc[e] = "building"
  /\ ctx[e] = "live"
  /\ Content(read[e]) \in Valid
  /\ \A f \in Execs : Settled(f)
  /\ pc' = [pc EXCEPT ![e] = "committing"]
  /\ commit' = [commit EXCEPT ![e] = "sent"]
  /\ UNCHANGED <<store, ctx, read, set, interrupted>>

\* Variant: the fingerprint is written without waiting for the COMMIT.
SendSetUnconfirmed(e) ==
  /\ pc[e] = "committing"
  /\ ctx[e] = "live"
  /\ pc' = [pc EXCEPT ![e] = "recording"]
  /\ set' = [set EXCEPT ![e] = "sent"]
  /\ UNCHANGED <<store, ctx, read, commit, interrupted>>

\* The COMMIT is acknowledged: SetJSON with the fingerprint of what was read.
SendSet(e) ==
  /\ pc[e] = "committing"
  /\ ctx[e] = "live"
  /\ commit[e] = "applied"
  /\ pc' = [pc EXCEPT ![e] = "recording"]
  /\ set' = [set EXCEPT ![e] = "sent"]
  /\ UNCHANGED <<store, ctx, read, commit, interrupted>>

Succeed(e) ==
  /\ pc[e] = "recording"
  /\ set[e] = "applied"
  /\ interrupted' = (interrupted /\ ctx[e] = "canceled")
  /\ Ends(e, "succeeded")
  /\ UNCHANGED <<store, read, commit, set>>

\* What makes a call of the execution fail for certain.
HasFailed(e) ==
  ctx[e] = "canceled" \/ commit[e] = "rolledback" \/ set[e] = "refused"

Between(e) == pc[e] \in {"committing", "recording"}

\* The execution is cut off: a call fails or loses its reply, or times out.
Fail(e) ==
  /\ pc[e] \in Busy
  /\ interrupted' = (interrupted \/ Between(e))
  /\ Ends(e, "failed")
  /\ UNCHANGED <<store, read, commit, set>>

\* The process dies.
Crash ==
  /\ interrupted' = (interrupted \/ \E e \in Execs : Between(e))
  /\ pc' = [e \in Execs |-> IF pc[e] \in Busy THEN "failed" ELSE pc[e]]
  /\ ctx' = [e \in Execs |-> "live"]
  /\ UNCHANGED <<store, read, commit, set>>

-----------------------------------------------------------------------------
(* The context, Postgres and the file *)

Cancel(e) ==
  /\ pc[e] \in Busy
  /\ ctx[e] = "live"
  /\ ctx' = [ctx EXCEPT ![e] = "canceled"]
  /\ UNCHANGED <<store, pc, read, commit, set, interrupted>>

ApplyCommit(e) ==
  /\ commit[e] = "sent"
  /\ commit' = [commit EXCEPT ![e] = "applied"]
  /\ catalogue' = read[e]
  /\ UNCHANGED <<pc, ctx, history, print, read, set, interrupted>>

RollBack(e) ==
  /\ commit[e] = "sent"
  /\ commit' = [commit EXCEPT ![e] = "rolledback"]
  /\ UNCHANGED <<pc, ctx, store, read, set, interrupted>>

\* Variant: the version is stored in the place of the hash.
ApplySetVersion(e) ==
  /\ set[e] = "sent"
  /\ set' = [set EXCEPT ![e] = "applied"]
  /\ print' = read[e]
  /\ UNCHANGED <<pc, ctx, history, catalogue, read, commit, interrupted>>

ApplySet(e) ==
  /\ set[e] = "sent"
  /\ set' = [set EXCEPT ![e] = "applied"]
  /\ print' = Content(read[e])
  /\ UNCHANGED <<pc, ctx, history, catalogue, read, commit, interrupted>>

RefuseSet(e) ==
  /\ set[e] = "sent"
  /\ set' = [set EXCEPT ![e] = "refused"]
  /\ UNCHANGED <<pc, ctx, store, read, commit, interrupted>>

\* Somebody uploads or removes the source file.
Replace ==
  /\ Len(history) < MaxVersions
  /\ \E c \in Contents \cup {None} : history' = Append(history, c)
  /\ UNCHANGED <<pc, ctx, catalogue, print, read, commit, set, interrupted>>

-----------------------------------------------------------------------------
\* The execution goes on, or notices that a call has failed.
Advance(e) ==
  \/ Compare(e) \/ Reject(e) \/ SendCommit(e) \/ SendSet(e) \/ Succeed(e)
  \/ HasFailed(e) /\ Fail(e)

\* Postgres answers one way or the other.
Answer(e) == ApplyCommit(e) \/ RollBack(e) \/ ApplySet(e) \/ RefuseSet(e)

Outside == Replace \/ \E e \in Execs : Answer(e)

Next ==
  \/ \E e \in Execs : Begin(e) \/ Advance(e) \/ Fail(e) \/ Cancel(e)
  \/ Crash \/ Outside

Spec == Init /\ [][Next]_vars

\* The job keeps being called, its own steps are taken, and Postgres answers.
Fairness ==
  /\ WF_vars(\E e \in Execs : Begin(e))
  /\ \A e \in Execs : WF_vars(Advance(e)) /\ WF_vars(Answer(e))

FairSpec == Spec /\ Fairness

-----------------------------------------------------------------------------
(* Properties *)

\* The two commits of a sync are not atomic, yet the fingerprint names what the
\* tables hold whenever no execution is between them, unless one was cut off there
\* and no later one has succeeded.
PrintMatchesCatalogue ==
  \/ interrupted
  \/ \E e \in Execs : Between(e)
  \/ print = Content(catalogue)

\* The tables as the API sees them (see AtomicCatalogue): whole, valid, and never
\* set back to an older version of the file, even when an execution is cancelled
\* and the next one overtakes it.
Atomic == INSTANCE AtomicCatalogue WITH history <- history, catalogue <- catalogue
CatalogueSpec == Atomic!CatalogueSpec

Fault ==
  \/ Crash
  \/ \E e \in Execs :
       \/ Cancel(e) \/ RollBack(e) \/ RefuseSet(e)
       \/ ~HasFailed(e) /\ Fail(e)

\* Once nothing is cut off or refused any more, a valid file that stays in place
\* is the one fingerprinted; it is also the one in the tables, unless an execution
\* was interrupted before (see UnchangedMeansSynced).
Converges ==
  <>[](File \in Valid) /\ <>[][~Fault]_vars =>
    <>[](print = File /\ (interrupted \/ Content(catalogue) = File))

\* An execution ends with "benchmark source file unchanged" only if the tables
\* hold the content of the file it has read.
UnchangedMeansSynced ==
  [][\A e \in Execs :
       pc[e] = "comparing" /\ pc'[e] = "skipped"
         => Content(catalogue) = Content(read[e])]_vars
=============================================================================
