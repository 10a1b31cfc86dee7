------------------------------ MODULE MCMatch ------------------------------
(* A match of two players for TLC. They play symmetric roles, but liveness *)
(* is checked in the same run and rules out a SYMMETRY.                    *)
EXTENDS Match

CONSTANTS a, b

MCPlayers == {a, b}
=============================================================================
