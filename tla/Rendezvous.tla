----------------------------- MODULE Rendezvous -----------------------------
(***************************************************************************)
(* How two players get into the same match: MatchManager.Authenticate of   *)
(* matchserver/manager.go, called by one connection handler per call.      *)
(*                                                                         *)
(* The ticket is verified outside the mutex. Under it the call is refused, *)
(* waits as the first of its match, or is paired with the waiting call and *)
(* creates the match. The two then meet on an unbuffered channel, unless   *)
(* the first has given up. A waitingPlayer is named by the call that made  *)
(* it, a match by the call that created it.                                *)
(*                                                                         *)
(* Tickets come from the Gateway: two for each match, which name each      *)
(* other. newMatch cannot fail for them: it refuses only empty and equal   *)
(* ids. What becomes of the match is module Match, whose HandOff and       *)
(* HandOffCanceled are Meet and Abandon here.                              *)
(***************************************************************************)
EXTENDS Integers

CONSTANTS
  Calls,     (* Calls of Authenticate; a client may call more than once.   *)
  NoCall,    (* No waitingPlayer.                                          *)
  Tickets,   (* The tickets issued.                                        *)
  MaxClock   (* Bounds time.                                               *)

ASSUME TicketsAssumption ==
  /\ \A t \in Tickets : t.expiry \in Nat \ {0} /\ t.player # t.opponent
  /\ NoCall \notin Calls
  /\ MaxClock \in Nat

Matches == {t.match : t \in Tickets}
Expiries == {t.expiry : t \in Tickets}

VARIABLES
  clock,
  used,       (* MatchManager.used: the expiry per match; 0 for no entry.  *)
  waiting,    (* MatchManager.waiting, per match.                          *)
  pc,         (* Per call: where it is.                                    *)
  ticket,     (* Per call: the claims of its ticket.                       *)
  partner,    (* Per call: the waitingPlayer it took, if it created.       *)
  canceled,   (* Calls whose waitingPlayer.canceled is closed.             *)
  session,    (* Per call: the match whose session it returned.            *)
  aborted,    (* The matches given to abort.                               *)
  gone        (* Calls whose connection context is done.                   *)

managerVars == <<used, waiting>>
vars == <<clock, managerVars, pc, ticket, partner, canceled, session, aborted,
          gone>>

Init ==
  /\ clock = 0
  /\ used = [m \in Matches |-> 0]
  /\ waiting = [m \in Matches |-> NoCall]
  /\ pc = [c \in Calls |-> "called"]
  /\ ticket \in [Calls -> Tickets]
  /\ partner = [c \in Calls |-> NoCall]
  /\ canceled = {}
  /\ session = [c \in Calls |-> NoCall]
  /\ aborted = {}
  /\ gone = {}

-----------------------------------------------------------------------------
Goes(c, from, to) == pc[c] = from /\ pc' = [pc EXCEPT ![c] = to]

(* Verify refuses a ticket that has expired.                               *)
Verify(c) ==
  /\ Goes(c, "called", IF clock < ticket[c].expiry THEN "verified" ELSE "refused")
  /\ UNCHANGED <<clock, managerVars, ticket, partner, canceled, session,
                 aborted, gone>>

-----------------------------------------------------------------------------
(* The section under the mutex.                                            *)

(* Mutant: purging by the wrong side of the expiry. *)
StillUsedEarly(m) == used[m] > clock + 1
(* purgeUsed keeps the matches whose ticket has not expired.               *)
StillUsed(m) == used[m] > clock
Purged == [m \in Matches |-> IF StillUsed(m) THEN used[m] ELSE 0]

First(c) == waiting[ticket[c].match]

(* A player is never its own opponent, so this refuses the same player     *)
(* twice as well.                                                          *)
Opponents(c, d) ==
  /\ ticket[c].opponent = ticket[d].player
  /\ ticket[d].opponent = ticket[c].player

Refuse(c) ==
  /\ Goes(c, "verified", "refused")
  /\ \/ StillUsed(ticket[c].match)
     \/ First(c) # NoCall /\ ~ Opponents(First(c), c)
  /\ used' = Purged
  /\ UNCHANGED <<clock, waiting, ticket, partner, canceled, session, aborted,
                 gone>>

Wait(c) ==
  /\ Goes(c, "verified", "waiting")
  /\ ~ StillUsed(ticket[c].match)
  /\ First(c) = NoCall
  /\ waiting' = [waiting EXCEPT ![ticket[c].match] = c]
  /\ used' = Purged
  /\ UNCHANGED <<clock, ticket, partner, canceled, session, aborted, gone>>

UsedUntil(c) == ticket[c].expiry

Pair(c) ==
  /\ Goes(c, "verified", "pairing")
  /\ ~ StillUsed(ticket[c].match)
  /\ First(c) # NoCall
  /\ Opponents(First(c), c)
  /\ partner' = [partner EXCEPT ![c] = First(c)]
  /\ waiting' = [waiting EXCEPT ![ticket[c].match] = NoCall]
  /\ used' = [Purged EXCEPT ![ticket[c].match] = UsedUntil(c)]
  /\ UNCHANGED <<clock, ticket, canceled, session, aborted, gone>>

-----------------------------------------------------------------------------
(* The two selects.                                                        *)

(* Mutant: the channel is buffered: nobody need be there to receive.       *)
MeetBuffered(c) ==
  /\ pc[c] = "pairing"
  /\ LET here == {c} \cup {w \in {partner[c]} : pc[w] = "waiting"}
     IN /\ pc' = [d \in Calls |-> IF d \in here THEN "playing" ELSE pc[d]]
        /\ session' = [d \in Calls |-> IF d \in here THEN c ELSE session[d]]
  /\ UNCHANGED <<clock, managerVars, ticket, partner, canceled, aborted, gone>>

(* The channel is unbuffered: the send succeeds only into the first one's  *)
(* running select.                                                         *)
Meet(c) ==
  /\ pc[c] = "pairing"
  /\ pc[partner[c]] = "waiting"
  /\ pc' = [pc EXCEPT ![c] = "playing", ![partner[c]] = "playing"]
  /\ session' = [session EXCEPT ![c] = c, ![partner[c]] = c]
  /\ UNCHANGED <<clock, managerVars, ticket, partner, canceled, aborted, gone>>

(* "case <-waiting.canceled": the match is aborted.                        *)
Abandon(c) ==
  /\ Goes(c, "pairing", "refused")
  /\ partner[c] \in canceled
  /\ aborted' = aborted \cup {c}
  /\ UNCHANGED <<clock, managerVars, ticket, partner, canceled, session, gone>>

(* Mutant: giving up without telling a creator. *)
GiveUpSilently(c) ==
  /\ Goes(c, "waiting", "removing")
  /\ c \in gone
  /\ UNCHANGED <<clock, managerVars, ticket, partner, canceled, session,
                 aborted, gone>>

(* "case <-ctx.Done()" of the first player.                                *)
GiveUp(c) ==
  /\ Goes(c, "waiting", "removing")
  /\ c \in gone
  /\ canceled' = canceled \cup {c}
  /\ UNCHANGED <<clock, managerVars, ticket, partner, session, aborted, gone>>

(* removeWaiting deletes only the caller's own waitingPlayer.              *)
OthersKept(c) == IF First(c) = c THEN NoCall ELSE First(c)

Remove(c) ==
  /\ Goes(c, "removing", "refused")
  /\ waiting' = [waiting EXCEPT ![ticket[c].match] = OthersKept(c)]
  /\ UNCHANGED <<clock, used, ticket, partner, canceled, session, aborted, gone>>

-----------------------------------------------------------------------------
(* The environment.                                                        *)

LoseConnection(c) ==
  /\ c \notin gone
  /\ gone' = gone \cup {c}
  /\ UNCHANGED <<clock, managerVars, pc, ticket, partner, canceled, session,
                 aborted>>

Tick ==
  /\ clock < MaxClock
  /\ clock' = clock + 1
  /\ UNCHANGED <<managerVars, pc, ticket, partner, canceled, session, aborted,
                 gone>>

Call(c) ==
  \/ Verify(c) \/ Refuse(c) \/ Wait(c) \/ Pair(c)
  \/ Meet(c) \/ Abandon(c) \/ GiveUp(c) \/ Remove(c)

Next == Tick \/ \E c \in Calls : Call(c) \/ LoseConnection(c)

(* A runnable handler runs. Arriving at all is up to the client.           *)
Fairness == \A c \in Calls : WF_vars(Call(c) /\ pc[c] # "called")

Spec == Init /\ [][Next]_vars /\ Fairness

-----------------------------------------------------------------------------
(* Properties.                                                             *)

Creators == {c \in Calls : partner[c] # NoCall}

TypeOK ==
  /\ clock \in Nat
  /\ used \in [Matches -> Expiries \cup {0}]
  /\ waiting \in [Matches -> Calls \cup {NoCall}]
  /\ pc \in [Calls -> {"called", "verified", "waiting", "pairing", "removing",
                       "playing", "refused"}]
  /\ ticket \in [Calls -> Tickets]
  /\ partner \in [Calls -> Calls \cup {NoCall}]
  /\ canceled \subseteq Calls
  /\ session \in [Calls -> Calls \cup {NoCall}]
  /\ aborted \subseteq Calls /\ gone \subseteq Calls

(* A player who waits can be found: as long as nobody has taken him, he is *)
(* the one in the map, whatever late removal of an earlier wait for the    *)
(* same match is still to come (manager.go:135).                           *)
NoOrphan ==
  \A c \in Calls : pc[c] = "waiting" =>
    \/ waiting[ticket[c].match] = c
    \/ \E d \in Creators : pc[d] = "pairing" /\ partner[d] = c

(* Both players get a session of a match, or neither does: whoever returns *)
(* with one has exactly one fellow with the other, who is the opponent his *)
(* ticket names, and the match has not been aborted (manager.go:116).      *)
BothOrNone ==
  \A c \in Calls : session[c] # NoCall =>
    /\ session[c] \notin aborted
    /\ \E d \in Calls \ {c} :
         /\ {e \in Calls : session[e] = session[c]} = {c, d}
         /\ ticket[d].match = ticket[c].match
         /\ Opponents(c, d)

(* A match is created once as long as a ticket its creator could be        *)
(* called with is valid (manager.go:105, docs/match-manager.md:13), although *)
(* the tickets are verified before the mutex is taken.                     *)
OnceWhileValid ==
  \A c, d \in Creators :
    c # d /\ ticket[c].match = ticket[d].match =>
      clock >= ticket[c].expiry \/ clock >= ticket[d].expiry

-----------------------------------------------------------------------------
(* The inductive invariant behind the safety properties.                   *)

(* The map holds waits that have not ended, under their own match.         *)
Registered ==
  \A m \in Matches : waiting[m] # NoCall =>
    /\ pc[waiting[m]] \in {"waiting", "removing"}
    /\ ticket[waiting[m]].match = m

(* A taken wait belongs to one creator, its opponent in the same match; it *)
(* is out of the map, and neither it nor anyone on his way creates.        *)
Partners ==
  /\ \A c \in Creators :
       /\ pc[c] \in {"pairing", "playing", "refused"}
       /\ Opponents(c, partner[c])
       /\ ticket[partner[c]].match = ticket[c].match
       /\ waiting[ticket[c].match] # partner[c]
       /\ pc[partner[c]] \in {"waiting", "removing", "playing", "refused"}
       /\ partner[partner[c]] = NoCall
  /\ \A c, d \in Creators : partner[c] = partner[d] => c = d
  /\ \A c \in Calls : pc[c] = "pairing" => c \in Creators

(* A creator plays if and only if its partner does, and who has canceled   *)
(* or aborted never will.                                                  *)
Sessions ==
  /\ \A c \in Calls : pc[c] = "playing" <=> session[c] # NoCall
  /\ \A c \in Creators : /\ session[c] = session[partner[c]]
                         /\ session[c] # NoCall => session[c] = c
  /\ \A c \in Calls : session[c] # NoCall =>
       session[c] \in Creators /\ c \in {session[c], partner[session[c]]}
  /\ \A c \in canceled : pc[c] \in {"removing", "refused"}
  /\ \A c \in aborted : pc[c] = "refused"

(* A match stays used for as long as its creator's ticket is valid.        *)
UsedSince ==
  \A c \in Creators :
    used[ticket[c].match] = ticket[c].expiry \/ clock >= ticket[c].expiry

IndInv == /\ TypeOK /\ NoOrphan /\ Registered /\ Partners /\ Sessions
          /\ UsedSince /\ OnceWhileValid

-----------------------------------------------------------------------------
(* No handler hangs: who has been taken, creates, or has lost his          *)
(* connection returns from Authenticate.                                   *)
Returned(c) == pc[c] \in {"playing", "refused"}
NobodyHangs ==
  \A c \in Calls :
    \/ pc[c] = "pairing"
    \/ pc[c] = "waiting" /\ waiting[ticket[c].match] # c
    \/ pc[c] = "waiting" /\ c \in gone
    ~> Returned(c)
=============================================================================
