----------------------------- MODULE MCSettings -----------------------------
(* Two actions and three keys: one key is free, and a key may be tried     *)
(* that serves the other action.                                           *)
EXTENDS Settings, TLC

CONSTANTS dash, attack, w, s, d

MCActions == {dash, attack}
MCKeys    == {w, s, d}
MCDefault == dash :> w @@ attack :> s
=============================================================================
