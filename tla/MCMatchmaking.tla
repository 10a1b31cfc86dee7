--------------------------- MODULE MCMatchmaking ---------------------------
(* Four players that join, poll, leave and expire in any order.           *)
EXTENDS Matchmaking, TLC

CONSTANTS a, b, c, d

MCPlayers == {a, b, c, d}
Symmetry  == Permutations(MCPlayers)
=============================================================================
