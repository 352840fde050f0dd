--------------------------- MODULE AtomicCatalogue ---------------------------
(***************************************************************************)
(* What the benchmark tables promise to the API that reads them: they hold *)
(* one content of the source file, whole; it is a valid one; and it is     *)
(* never replaced by an older one.  BenchmarkSync implements this module.  *)
(***************************************************************************)
EXTENDS Naturals, Sequences

CONSTANTS
  Contents,    \* what the source file may hold
  Valid,       \* the contents a sync accepts
  None         \* no readable file

VARIABLES
  history,     \* the contents the source file has had, the last one now
  catalogue    \* the version in the tables, 0 while they are empty

CatalogueInit ==
  /\ history \in {<<c>> : c \in Contents \cup {None}}
  /\ catalogue = 0

Replace ==
  /\ \E c \in Contents \cup {None} : history' = Append(history, c)
  /\ UNCHANGED catalogue

Publish ==
  /\ \E version \in DOMAIN history :
       /\ version > catalogue
       /\ history[version] \in Valid
       /\ catalogue' = version
  /\ UNCHANGED history

CatalogueNext == Replace \/ Publish

CatalogueSpec == CatalogueInit /\ [][CatalogueNext]_<<history, catalogue>>
=============================================================================
