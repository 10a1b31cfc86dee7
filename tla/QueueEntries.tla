---------------------------- MODULE QueueEntries ----------------------------
(***************************************************************************)
(* What the Gateway's matchmaking queue promises the players, over what    *)
(* PlayerStatus tells them: each player's entry. Module Matchmaking says   *)
(* how the entries change.                                                 *)
(***************************************************************************)
CONSTANT Players

VARIABLE entries   (* Service.entries; a missing entry has status          *)
                   (* "not_queued".                                        *)

(* Two players never wait at the same time: the second joiner is always    *)
(* paired, through whatever leaves, expiries and stale ids came before     *)
(* (service.go:135).                                                       *)
NobodyWaitsInVain ==
  \A p, q \in Players :
    entries[p].status = "waiting" /\ entries[q].status = "waiting" => p = q

(* As long as both entries are there, the two players of a match name each *)
(* other; neither entry is dropped before the other, and no third player   *)
(* holds a ticket for the match (service.go:95-112).                       *)
PairsMutual ==
  \A p \in Players : entries[p].status = "matched" =>
    LET o == entries[p].opponent IN
      /\ o \in Players \ {p}
      /\ \A q \in Players \ {p} :
           entries[q].status = "matched" /\ entries[q].match = entries[p].match
             => /\ q = o /\ entries[q].opponent = p
                /\ entries[q].left = entries[p].left
=============================================================================
