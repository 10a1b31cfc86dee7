---------------------------- MODULE MatchOutcome ----------------------------
(***************************************************************************)
(* What finalize promises (matchserver/manager.go:289): one terminal       *)
(* outcome is decided, and from then on it is the only one that players    *)
(* are told and that is handed to persistence.                             *)
(***************************************************************************)
CONSTANTS Players, Outcomes

VARIABLES
  decided,   (* {} or the singleton of the outcome.                        *)
  told,      (* Per player: what its reliable stream said.                 *)
  reported   (* What persistence was given.                                *)

vars == <<decided, told, reported>>

Init == decided = {} /\ told = [p \in Players |-> {}] /\ reported = {}

Decide ==
  /\ decided = {}
  /\ \E o \in decided' : o \in Outcomes /\ decided' = {o}
  /\ UNCHANGED <<told, reported>>

Tell(p) ==
  /\ decided # {} /\ told[p] = {}
  /\ told' = [told EXCEPT ![p] = decided]
  /\ UNCHANGED <<decided, reported>>

Report ==
  /\ decided # {} /\ reported = {}
  /\ reported' = decided
  /\ UNCHANGED <<decided, told>>

Next == Decide \/ Report \/ \E p \in Players : Tell(p)

Spec == Init /\ [][Next]_vars
=============================================================================
