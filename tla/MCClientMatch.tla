--------------------------- MODULE MCClientMatch ---------------------------
(* One match of three ticks after its start, so that snapshots may be      *)
(* reordered and overtake the MatchStart or the MatchEnd.                  *)
EXTENDS ClientMatch

MCMaxTick == 3
=============================================================================
