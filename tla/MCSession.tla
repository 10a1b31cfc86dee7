----------------------------- MODULE MCSession -----------------------------
(* Two requests at once, with token pairs for a login, refreshes and a     *)
(* second login.                                                           *)
EXTENDS Session, TLC

CONSTANTS r1, r2

MCRequests == {r1, r2}
Symmetry   == Permutations(MCRequests)
=============================================================================
