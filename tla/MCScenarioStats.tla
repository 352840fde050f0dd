--------------------------- MODULE MCScenarioStats ---------------------------
(* ScenarioStats for runs with and without a sensitivity, without a score and
   with a value that cannot be marshalled. *)
EXTENDS ScenarioStats

MCUploads == {[score |-> 1, sens |-> 1], [score |-> Null, sens |-> 1],
              [score |-> NaN, sens |-> Null], [score |-> 1, sens |-> NaN]}
==============================================================================
