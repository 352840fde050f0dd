---------------------------- MODULE RunSyncConfig ----------------------------
(***************************************************************************)
(* runsyncconfig.Store: the settings of the API in run_sync_config, seeded *)
(* key by key at every start of the worker while operators edit them.      *)
(***************************************************************************)
CONSTANTS Settings,    \* the keys of Defaults
          TrueByDefault,
          None,        \* no row, no word of an operator
          Gone         \* an operator has deleted the row

ASSUME RunSyncConfigAssumption ==
  /\ TrueByDefault \subseteq Settings
  /\ None \notin BOOLEAN \cup {Gone}
  /\ Gone \notin BOOLEAN

VARIABLES rows,      \* run_sync_config
          left,      \* the keys a start has still to seed
          worker,    \* "down", "seeding", "up"
          said       \* what operators have last said about each key

runSyncVars == <<rows, left, worker, said>>

Defaults == [key \in Settings |-> key \in TrueByDefault]

RunSyncInit ==
  /\ rows = [key \in Settings |-> None]
  /\ left = {}
  /\ worker = "down"
  /\ said = [key \in Settings |-> None]

StartSeeding ==
  /\ worker = "down"
  /\ worker' = "seeding"
  /\ left' = Settings
  /\ UNCHANGED <<rows, said>>

\* Variant: the default replaces what is there.
SeedAnyway(key) ==
  /\ key \in left
  /\ rows' = [rows EXCEPT ![key] = Defaults[key]]
  /\ left' = left \ {key}
  /\ said' = [said EXCEPT ![key] = IF @ = Gone THEN None ELSE @]
  /\ UNCHANGED worker

\* One statement for each key, in any order: the keys are those of a Go map.
\* A row that an operator has deleted is seeded again.
SeedKey(key) ==
  /\ key \in left
  /\ rows' = [rows EXCEPT ![key] = IF @ = None THEN Defaults[key] ELSE @]
  /\ left' = left \ {key}
  /\ said' = [said EXCEPT ![key] = IF @ = Gone THEN None ELSE @]
  /\ UNCHANGED worker

Seeded ==
  /\ worker = "seeding" /\ left = {}
  /\ worker' = "up"
  /\ UNCHANGED <<rows, left, said>>

\* The worker stops or dies, or a statement fails and the start with it.
Stops ==
  /\ worker # "down"
  /\ worker' = "down"
  /\ left' = {}
  /\ UNCHANGED <<rows, said>>

\* An operator sets a key, or deletes its row.
Operate ==
  /\ \E key \in Settings :
       \/ \E value \in BOOLEAN : /\ rows' = [rows EXCEPT ![key] = value]
                                 /\ said' = [said EXCEPT ![key] = value]
       \/ /\ rows' = [rows EXCEPT ![key] = None]
          /\ said' = [said EXCEPT ![key] = Gone]
  /\ UNCHANGED <<left, worker>>

RunSyncNext ==
  \/ StartSeeding \/ Seeded \/ Stops \/ Operate
  \/ \E key \in left : SeedKey(key)

RunSyncSpec == RunSyncInit /\ [][RunSyncNext]_runSyncVars

-----------------------------------------------------------------------------
(* Properties *)

\* Wherever starts broke off and whatever operators did in between: a key has
\* the value an operator has given it, else its default, and it is missing only
\* if no start has got to it since it was deleted, or at all; once a worker is
\* up no key is missing that was not deleted since.
OperatorsDecide ==
  \A key \in Settings :
    /\ said[key] \in BOOLEAN => rows[key] = said[key]
    /\ said[key] = Gone => rows[key] = None
    /\ said[key] = None => rows[key] \in {None, Defaults[key]}
    /\ (worker = "up" /\ said[key] # Gone) => rows[key] # None
=============================================================================
