---------------------------- MODULE Matchmaking ----------------------------
(***************************************************************************)
(* The Gateway's matchmaking queue: matchmaking/service.go with the ticket *)
(* expiry of matchticket/ticket.go.                                        *)
(*                                                                         *)
(* Every operation runs under the service mutex, so each is one action.    *)
(* Time is the number of Ticks an entry has left before purgeExpired       *)
(* removes it: waitingTTL after joining, the ticket's lifetime after       *)
(* matching. Leave keeps the player's id in the waiting slice, and expiry  *)
(* does too: nextWaiting is what skips these stale ids.                    *)
(*                                                                         *)
(* Issue cannot fail here: it refuses only empty or equal ids, and         *)
(* nextWaiting never returns the joiner.                                   *)
(***************************************************************************)
EXTENDS Integers, Sequences, QueueEntries

CONSTANTS
  NoPlayer,     (* No opponent.                                            *)
  WaitingTTL,   (* Service.waitingTTL, in Ticks.                           *)
  TicketTTL,    (* Manager.ttl, in Ticks.                                  *)
  MaxMatches    (* Bounds the number of matches made.                      *)

ASSUME NoPlayerAssumption == NoPlayer \notin Players
ASSUME TTLAssumption == /\ WaitingTTL \in Nat \ {0}
                        /\ TicketTTL \in Nat \ {0}
                        /\ MaxMatches \in Nat

VARIABLES
  waiting,   (* Service.waiting: ids in order of arrival, stale ones too.  *)
  made       (* Matches made so far; the last uuid.NewString().            *)

vars == <<entries, waiting, made>>

Entries == [status : {"not_queued", "waiting", "matched"}, match : Nat,
            opponent : Players \cup {NoPlayer}, left : Nat]

NotQueued ==
  [status |-> "not_queued", match |-> 0, opponent |-> NoPlayer, left |-> 0]
Waiting ==
  [status |-> "waiting", match |-> 0, opponent |-> NoPlayer, left |-> WaitingTTL]
Matched(m, opponent) ==
  [status |-> "matched", match |-> m, opponent |-> opponent, left |-> TicketTTL]

Init ==
  /\ entries = [p \in Players |-> NotQueued]
  /\ waiting = << >>
  /\ made = 0

-----------------------------------------------------------------------------
Live(p) == entries[p].status # "not_queued" /\ entries[p].left > 0

(* purgeExpired *)
Purged == [p \in Players |-> IF Live(p) THEN entries[p] ELSE NotQueued]

IsCandidate(i, p) ==
  /\ waiting[i] # p
  /\ Purged[waiting[i]].status = "waiting"

(* nextWaiting pops up to and including the first candidate, or everything. *)
NextWaiting(p) ==
  {i \in 1..Len(waiting) :
     IsCandidate(i, p) /\ \A j \in 1..(i - 1) : ~ IsCandidate(j, p)}

HasResult(p) == Live(p)

JoinExisting(p) ==
  /\ HasResult(p)
  /\ entries' = Purged
  /\ UNCHANGED <<waiting, made>>

JoinWaits(p) ==
  /\ ~ HasResult(p)
  /\ NextWaiting(p) = {}
  /\ entries' = [Purged EXCEPT ![p] = Waiting]
  /\ waiting' = <<p>>
  /\ UNCHANGED made

(* Mutant: the opponent's result names the opponent itself. *)
JoinMatchesSelf(p) ==
  /\ ~ HasResult(p)
  /\ made < MaxMatches
  /\ \E i \in NextWaiting(p) :
       /\ entries' = [Purged EXCEPT ![p] = Matched(made + 1, waiting[i]),
                                    ![waiting[i]] = Matched(made + 1, waiting[i])]
       /\ waiting' = SubSeq(waiting, i + 1, Len(waiting))
  /\ made' = made + 1

JoinMatches(p) ==
  /\ ~ HasResult(p)
  /\ made < MaxMatches
  /\ \E i \in NextWaiting(p) :
       /\ entries' = [Purged EXCEPT ![p] = Matched(made + 1, waiting[i]),
                                    ![waiting[i]] = Matched(made + 1, p)]
       /\ waiting' = SubSeq(waiting, i + 1, Len(waiting))
  /\ made' = made + 1

Join(p) == JoinExisting(p) \/ JoinWaits(p) \/ JoinMatches(p)

(* PlayerStatus: a read, but it purges. *)
PlayerStatus(p) ==
  /\ entries' = Purged
  /\ UNCHANGED <<waiting, made>>

(* Mutant: leaving also pops the head of the queue. *)
LeavePops(p) ==
  /\ entries' = [entries EXCEPT ![p] = NotQueued]
  /\ waiting' = IF waiting = << >> THEN waiting ELSE Tail(waiting)
  /\ UNCHANGED made

Leave(p) ==
  /\ entries' = [entries EXCEPT ![p] = NotQueued]
  /\ UNCHANGED <<waiting, made>>

Tick ==
  /\ \E p \in Players : entries[p].left > 0
  /\ entries' = [p \in Players |->
                   [entries[p] EXCEPT !.left = IF @ > 0 THEN @ - 1 ELSE 0]]
  /\ UNCHANGED <<waiting, made>>

Next == Tick \/ \E p \in Players : Join(p) \/ PlayerStatus(p) \/ Leave(p)

Spec == Init /\ [][Next]_vars

-----------------------------------------------------------------------------
(* Properties.                                                             *)

TypeOK ==
  /\ entries \in [Players -> Entries]
  /\ waiting \in Seq(Players)
  /\ made \in Nat

(* A waiting player is the whole queue: no stale id is ahead of it or      *)
(* behind it, so the next joiner cannot miss it.                           *)
WaiterIsQueue ==
  \A p \in Players : entries[p].status = "waiting" => waiting = <<p>>

(* What PairsMutual rests on: a match number is used once, so the two      *)
(* entries a new match writes are alone with theirs.                       *)
MatchesMade ==
  \A p \in Players : entries[p].status = "matched" => entries[p].match <= made

PairInv == MatchesMade /\ PairsMutual

=============================================================================
