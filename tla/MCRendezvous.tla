---------------------------- MODULE MCRendezvous ----------------------------
(* Four calls with the two tickets of one match, issued around the turn of *)
(* a second, so that one expires before the other.                         *)
EXTENDS Rendezvous

CONSTANTS a, b, m

Ticket(p, q, e) == [match |-> m, player |-> p, opponent |-> q, expiry |-> e]
Early == Ticket(a, b, 1)
Late  == Ticket(b, a, 2)
MCTickets == {Early, Late}

(* The calls are interchangeable, so that it only matters how many of them *)
(* come with which ticket; liveness rules out a SYMMETRY.                  *)
FourCalls == 1..4
MCInit == Init /\ \E n \in 0..4 : ticket = [c \in Calls |-> IF c <= n THEN Early ELSE Late]
MCSpec == MCInit /\ [][Next]_vars /\ Fairness
=============================================================================
