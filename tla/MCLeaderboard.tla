---------------------------- MODULE MCLeaderboard ----------------------------
(* Leaderboard for two players and two scenarios. *)
EXTENDS Leaderboard

CONSTANTS s1, s2

R(scenario, player, score, at) ==
  [scenario |-> scenario, player |-> player, score |-> score, at |-> at]

\* Player 1 plays one scenario twice, the second time worse, and the other one
\* once; player 2 ties with the worse run and beats the sum, or has a score of
\* zero; two runs are not counted.
MCUploads == {R(s1, 1, 2, 1), R(s1, 1, 1, 2), R(s2, 1, 1, 2),
              R(s1, 2, 1, 1), R(s2, 2, 2, 2), R(s2, 2, 0, 1),
              R(s1, Null, 2, 1), R(s1, 2, Null, 1)}
==============================================================================
