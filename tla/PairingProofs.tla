--------------------------- MODULE PairingProofs ---------------------------
(***************************************************************************)
(* Proofs about how two players come together. The match server's          *)
(* Authenticate (Rendezvous), for any set of calls and tickets: who waits  *)
(* can be found, both players get a session or neither, and a match is     *)
(* created once while its tickets are valid. The queue that gives out the  *)
(* tickets (Q, module Matchmaking), for any players and any lifetimes. The *)
(* main loop of the client that asks both (A, module ClientApp), for any   *)
(* accounts: whom it lets use the transport, that it never waits for a     *)
(* thread, and that an accepted match is not accepted again.               *)
(***************************************************************************)
EXTENDS Rendezvous, QueueEntries, ClientLoop, Sequences, TLAPS

CONSTANTS NoPlayer, WaitingTTL, TicketTTL, MaxMatches
VARIABLES line, made

Q == INSTANCE Matchmaking WITH waiting <- line

CONSTANT Accounts
VARIABLES account, current, queueCall, profileOf, resetRequired, requestReset,
          profile, entry

A == INSTANCE ClientApp WITH session <- account

-----------------------------------------------------------------------------
(* Authenticate.                                                           *)

(* The types that the assumption on tickets gives to what is looked up by  *)
(* ticket.                                                                 *)
LEMMA TicketFacts ==
  ASSUME TypeOK
  PROVE  /\ clock \in Nat /\ NoCall \notin Calls
         /\ \A c \in Calls : /\ ticket[c].expiry \in Nat \ {0}
                            /\ ticket[c].match \in Matches
         /\ \A m \in Matches : used[m] \in Nat
         /\ \A t \in Tickets : t.expiry \in Expiries
BY TicketsAssumption DEF TypeOK, Matches, Expiries

(* What purgeUsed leaves is an expiry for each match, or none.             *)
LEMMA UsedType ==
  ASSUME TypeOK PROVE Purged \in [Matches -> Expiries \cup {0}]
BY DEF TypeOK, Purged

(* Before the first call the invariant holds.                              *)
LEMMA InitRendezvous == Init => IndInv
<1> SUFFICES ASSUME Init PROVE IndInv OBVIOUS
<1> USE DEF Init
<1>1. TypeOK BY TicketsAssumption DEF TypeOK
<1>2. Creators = {} BY DEF Creators
<1>3. Registered BY DEF Registered
<1>4. Sessions BY <1>2, TicketsAssumption DEF Sessions
<1> QED BY <1>1, <1>2, <1>3, <1>4 DEF IndInv, NoOrphan, Partners, UsedSince,
                                     OnceWhileValid

(* A call passes Verify, or is refused by it.                              *)
LEMMA VerifyKeeps ==
  ASSUME IndInv, NEW c \in Calls, Verify(c)
  PROVE  IndInv'
<1> USE DEF Verify, Goes, IndInv, managerVars
<1> USE TicketFacts
<1>1. TypeOK' BY UsedType DEF TypeOK
<1>2. Creators' = Creators BY DEF Creators
<1>3. NoOrphan' BY <1>2 DEF NoOrphan, TypeOK
<1>4. Registered' BY DEF Registered, TypeOK
<1>5. Partners' BY <1>2 DEF Partners, Creators, Opponents, TypeOK
<1>6. Sessions' BY <1>2 DEF Sessions, Creators, TypeOK
<1>7. UsedSince' BY <1>2 DEF UsedSince, TypeOK
<1>8. OnceWhileValid' BY <1>2 DEF OnceWhileValid, Creators, TypeOK
<1> QED BY <1>1, <1>3, <1>4, <1>5, <1>6, <1>7, <1>8

(* Under the mutex: refused.                                               *)
LEMMA RefuseKeeps ==
  ASSUME IndInv, NEW c \in Calls, Refuse(c)
  PROVE  IndInv'
<1> USE DEF Refuse, Goes, IndInv, managerVars
<1> USE TicketFacts
<1>1. TypeOK' BY UsedType DEF TypeOK
<1>2. Creators' = Creators BY DEF Creators
<1>3. NoOrphan' BY <1>2 DEF NoOrphan, TypeOK
<1>4. Registered' BY DEF Registered, TypeOK
<1>5. Partners' BY <1>2 DEF Partners, Creators, Opponents, TypeOK
<1>6. Sessions' BY <1>2 DEF Sessions, Creators, TypeOK
<1>7. UsedSince' BY <1>2 DEF UsedSince, TypeOK, Purged, StillUsed, Creators
<1>8. OnceWhileValid' BY <1>2 DEF OnceWhileValid, Creators, TypeOK
<1> QED BY <1>1, <1>3, <1>4, <1>5, <1>6, <1>7, <1>8

(* Under the mutex: first of its match.                                    *)
LEMMA WaitKeeps ==
  ASSUME IndInv, NEW c \in Calls, Wait(c)
  PROVE  IndInv'
<1> USE DEF Wait, Goes, IndInv, managerVars
<1> USE TicketFacts
<1>1. TypeOK' BY UsedType DEF TypeOK
<1>2. Creators' = Creators BY DEF Creators
<1>3. NoOrphan' BY <1>2 DEF NoOrphan, TypeOK, First, Creators
<1>4. Registered' BY DEF Registered, TypeOK
<1>5. Partners' BY <1>2 DEF Partners, Creators, Opponents, TypeOK
<1>6. Sessions' BY <1>2 DEF Sessions, Creators, TypeOK
<1>7. UsedSince' BY <1>2 DEF UsedSince, TypeOK, Purged, StillUsed, Creators
<1>8. OnceWhileValid' BY <1>2 DEF OnceWhileValid, Creators, TypeOK
<1> QED BY <1>1, <1>3, <1>4, <1>5, <1>6, <1>7, <1>8

(* Under the mutex: paired with the call that waits.                       *)
LEMMA PairKeeps ==
  ASSUME IndInv, NEW c \in Calls, Pair(c)
  PROVE  IndInv'
<1> USE DEF Pair, Goes, IndInv, managerVars
<1> USE TicketFacts
<1>1. TypeOK'
  <2>1. First(c) \in Calls BY DEF TypeOK, First
  <2>2. UsedUntil(c) \in Expiries BY DEF TypeOK, UsedUntil
  <2> QED BY <2>1, <2>2, UsedType DEF TypeOK
<1>2. Creators' = Creators \cup {c} BY DEF Creators, TypeOK, First
<1>3. NoOrphan' BY <1>2 DEF NoOrphan, TypeOK, First, Creators
<1>4. Registered' BY DEF Registered, TypeOK, First
<1>5. Partners' BY <1>2 DEF Partners, Creators, Opponents, TypeOK, Registered, First
<1>6. Sessions' BY <1>2 DEF Sessions, Creators, TypeOK, Registered, First, Partners
<1>7. UsedSince' BY <1>2 DEF UsedSince, TypeOK, Purged, StillUsed, Creators, UsedUntil
<1>8. OnceWhileValid' BY <1>2 DEF OnceWhileValid, UsedSince, StillUsed, Creators, TypeOK
<1> QED BY <1>1, <1>3, <1>4, <1>5, <1>6, <1>7, <1>8

(* Creator and first player meet.                                          *)
LEMMA MeetKeeps ==
  ASSUME IndInv, NEW c \in Calls, Meet(c)
  PROVE  IndInv'
<1> USE DEF Meet, Goes, IndInv, managerVars
<1> USE TicketFacts
<1>1. TypeOK' BY UsedType DEF TypeOK
<1>2. Creators' = Creators BY DEF Creators
<1>3. NoOrphan' BY <1>2 DEF NoOrphan, TypeOK, Creators, Partners
<1>4. Registered' BY DEF Registered, TypeOK, Partners, Creators
<1>5. Partners' BY <1>2 DEF Partners, Creators, Opponents, TypeOK
<1>6. Sessions' BY <1>2 DEF Sessions, Creators, TypeOK, Partners
<1>7. UsedSince' BY <1>2 DEF UsedSince, TypeOK
<1>8. OnceWhileValid' BY <1>2 DEF OnceWhileValid, Creators, TypeOK
<1> QED BY <1>1, <1>3, <1>4, <1>5, <1>6, <1>7, <1>8

(* The creator finds that the first player has given up.                   *)
LEMMA AbandonKeeps ==
  ASSUME IndInv, NEW c \in Calls, Abandon(c)
  PROVE  IndInv'
<1> USE DEF Abandon, Goes, IndInv, managerVars
<1> USE TicketFacts
<1>1. TypeOK' BY UsedType DEF TypeOK
<1>2. Creators' = Creators BY DEF Creators
<1>3. NoOrphan' BY <1>2 DEF NoOrphan, TypeOK, Sessions, Creators
<1>4. Registered' BY DEF Registered, TypeOK
<1>5. Partners' BY <1>2 DEF Partners, Creators, Opponents, TypeOK
<1>6. Sessions' BY <1>2 DEF Sessions, Creators, TypeOK
<1>7. UsedSince' BY <1>2 DEF UsedSince, TypeOK
<1>8. OnceWhileValid' BY <1>2 DEF OnceWhileValid, Creators, TypeOK
<1> QED BY <1>1, <1>3, <1>4, <1>5, <1>6, <1>7, <1>8

(* The first player's connection is gone.                                  *)
LEMMA GiveUpKeeps ==
  ASSUME IndInv, NEW c \in Calls, GiveUp(c)
  PROVE  IndInv'
<1> USE DEF GiveUp, Goes, IndInv, managerVars
<1> USE TicketFacts
<1>1. TypeOK' BY UsedType DEF TypeOK
<1>2. Creators' = Creators BY DEF Creators
<1>3. NoOrphan' BY <1>2 DEF NoOrphan, TypeOK
<1>4. Registered' BY DEF Registered, TypeOK
<1>5. Partners' BY <1>2 DEF Partners, Creators, Opponents, TypeOK
<1>6. Sessions' BY <1>2 DEF Sessions, Creators, TypeOK
<1>7. UsedSince' BY <1>2 DEF UsedSince, TypeOK
<1>8. OnceWhileValid' BY <1>2 DEF OnceWhileValid, Creators, TypeOK
<1> QED BY <1>1, <1>3, <1>4, <1>5, <1>6, <1>7, <1>8

(* It takes its wait out of the map.                                       *)
LEMMA RemoveKeeps ==
  ASSUME IndInv, NEW c \in Calls, Remove(c)
  PROVE  IndInv'
<1> USE DEF Remove, Goes, IndInv, managerVars
<1> USE TicketFacts
<1>1. TypeOK' BY DEF TypeOK, OthersKept, First
<1>2. Creators' = Creators BY DEF Creators
<1>3. NoOrphan' BY <1>2 DEF NoOrphan, TypeOK, OthersKept, First, Creators
<1>4. Registered' BY DEF Registered, TypeOK, OthersKept, First
<1>5. Partners' BY <1>2 DEF Partners, Creators, Opponents, TypeOK, OthersKept, First, Sessions
<1>6. Sessions' BY <1>2 DEF Sessions, Creators, TypeOK
<1>7. UsedSince' BY <1>2 DEF UsedSince, TypeOK
<1>8. OnceWhileValid' BY <1>2 DEF OnceWhileValid, Creators, TypeOK
<1> QED BY <1>1, <1>3, <1>4, <1>5, <1>6, <1>7, <1>8

(* Time, lost connections and stuttering.                                  *)
LEMMA TickKeeps == ASSUME IndInv, Tick PROVE IndInv'
<1> USE DEF Tick, IndInv, managerVars
<1>1. clock \in Nat /\ clock' = clock + 1 BY DEF TypeOK
<1>2. Creators' = Creators BY DEF Creators
<1>3. \A c \in Creators : ticket[c].expiry \in Nat
  BY TicketsAssumption DEF Creators, TypeOK
<1>4. TypeOK' BY <1>1 DEF TypeOK
<1>5. UsedSince' BY <1>1, <1>2, <1>3 DEF UsedSince
<1>6. OnceWhileValid' BY <1>1, <1>2, <1>3 DEF OnceWhileValid
<1> QED BY <1>2, <1>4, <1>5, <1>6 DEF NoOrphan, Registered, Partners, Sessions,
                                      Opponents

(* A connection that is lost changes nothing the manager holds.            *)
LEMMA LoseKeeps ==
  ASSUME IndInv, NEW c \in Calls, LoseConnection(c) PROVE IndInv'
<1>1. Creators' = Creators BY DEF Creators, LoseConnection
<1>2. TypeOK' BY DEF IndInv, TypeOK, LoseConnection, managerVars
<1> QED
  BY <1>1, <1>2 DEF LoseConnection, managerVars, IndInv, NoOrphan, Registered,
     Partners, Sessions, UsedSince, OnceWhileValid, Opponents

(* Nor does a step of somebody else.                                       *)
LEMMA StutterKeeps == ASSUME IndInv, UNCHANGED vars PROVE IndInv'
<1>1. Creators' = Creators BY DEF Creators, vars
<1>2. TypeOK' BY DEF IndInv, TypeOK, vars, managerVars
<1> QED BY <1>1, <1>2 DEF vars, managerVars, IndInv, NoOrphan, Registered,
              Partners, Sessions, UsedSince, OnceWhileValid, Opponents

(* The invariant of Authenticate, for any calls, tickets and expiries.     *)
THEOREM RendezvousInvariant == Spec => []IndInv
<1>1. ASSUME IndInv, [Next]_vars PROVE IndInv'
  <2>1. ASSUME NEW c \in Calls, Call(c) PROVE IndInv'
    BY <1>1, <2>1, VerifyKeeps, RefuseKeeps, WaitKeeps, PairKeeps, MeetKeeps,
       AbandonKeeps, GiveUpKeeps, RemoveKeeps DEF Call
  <2>2. ASSUME NEW c \in Calls, LoseConnection(c) PROVE IndInv'
    BY <1>1, <2>2, LoseKeeps
  <2>3. CASE Tick BY <1>1, <2>3, TickKeeps
  <2>4. CASE UNCHANGED vars BY <1>1, <2>4, StutterKeeps
  <2> QED BY <1>1, <2>1, <2>2, <2>3, <2>4 DEF Next
<1> QED BY <1>1, InitRendezvous, PTL DEF Spec

(* The types of the manager's maps and of the calls.                       *)
THEOREM RendezvousTypeOK == Spec => []TypeOK
<1>1. IndInv => TypeOK BY DEF IndInv
<1> QED BY <1>1, RendezvousInvariant, PTL

(* Who waits and has not been taken is the one in the map.                 *)
THEOREM RendezvousNoOrphan == Spec => []NoOrphan
<1>1. IndInv => NoOrphan BY DEF IndInv
<1> QED BY <1>1, RendezvousInvariant, PTL

(* A match is created once while its tickets are valid, although they are  *)
(* verified before the mutex is taken.                                     *)
THEOREM RendezvousOnceWhileValid == Spec => []OnceWhileValid
<1>1. IndInv => OnceWhileValid BY DEF IndInv
<1> QED BY <1>1, RendezvousInvariant, PTL

(* Both players get a session of a match that is not aborted, or neither.  *)
THEOREM RendezvousBothOrNone == Spec => []BothOrNone
<1>1. ASSUME IndInv, NEW c \in Calls, session[c] # NoCall
      PROVE  /\ session[c] \notin aborted
             /\ \E d \in Calls \ {c} :
                  /\ {e \in Calls : session[e] = session[c]} = {c, d}
                  /\ ticket[d].match = ticket[c].match
                  /\ Opponents(c, d)
  <2> DEFINE k == session[c]
  <2>1. /\ k \in Creators /\ k \in Calls /\ c \in {k, partner[k]}
        /\ partner[k] \in Calls
    BY <1>1 DEF IndInv, Sessions, Creators, TypeOK
  <2>2. session[k] = k /\ session[partner[k]] = k
    BY <1>1, <2>1 DEF IndInv, Sessions
  <2>3. k \notin aborted
    BY <1>1, <2>1, <2>2, TicketsAssumption DEF IndInv, Sessions
  <2>4. /\ Opponents(k, partner[k]) /\ Opponents(partner[k], k)
        /\ ticket[partner[k]].match = ticket[k].match
        /\ partner[k] # k
    BY <1>1, <2>1 DEF IndInv, Partners, Opponents, Creators
  <2>5. {e \in Calls : session[e] = k} = {k, partner[k]}
    BY <1>1, <2>1, <2>2, TicketsAssumption DEF IndInv, Sessions, Creators
  <2>6. CASE c = k BY <2>1, <2>3, <2>4, <2>5, <2>6
  <2>7. CASE c = partner[k] BY <2>1, <2>3, <2>4, <2>5, <2>7
  <2> QED BY <2>1, <2>6, <2>7
<1>2. IndInv => BothOrNone BY <1>1 DEF BothOrNone
<1> QED BY <1>2, RendezvousInvariant, PTL

-----------------------------------------------------------------------------
(* The queue.                                                              *)

(* The three entries the service writes are entries.                       *)
LEMMA EntryTypes ==
  ASSUME Q!TTLAssumption, NEW m \in Nat, NEW p \in Players
  PROVE  /\ Q!NotQueued \in Q!Entries /\ Q!Waiting \in Q!Entries
         /\ Q!Matched(m, p) \in Q!Entries
BY DEF Q!TTLAssumption, Q!NotQueued, Q!Waiting, Q!Matched, Q!Entries

(* So is what purgeExpired leaves for each player.                         *)
LEMMA PurgedType ==
  ASSUME Q!TTLAssumption, Q!TypeOK
  PROVE  Q!Purged \in [Players -> Q!Entries]
BY EntryTypes DEF Q!TypeOK, Q!Purged

(* The queue's entries and its order of arrival keep their types.          *)
LEMMA InitQueueTypeOK ==
  ASSUME Q!TTLAssumption
  PROVE  Q!Init => Q!TypeOK
<1> SUFFICES ASSUME Q!Init PROVE Q!TypeOK OBVIOUS
<1>1. Q!NotQueued \in Q!Entries BY DEF Q!NotQueued, Q!Entries
<1> QED BY <1>1 DEF Q!Init, Q!TypeOK

(* Every operation of the service keeps the types.                         *)
LEMMA NextQueueTypeOK ==
  ASSUME Q!TTLAssumption, Q!TypeOK, [Q!Next]_Q!vars
  PROVE  Q!TypeOK'
<1> USE DEF Q!TypeOK
<1>1. ASSUME NEW p \in Players, Q!JoinExisting(p) \/ Q!PlayerStatus(p) PROVE Q!TypeOK'
  BY <1>1, PurgedType DEF Q!JoinExisting, Q!PlayerStatus
<1>2. ASSUME NEW p \in Players, Q!JoinWaits(p) PROVE Q!TypeOK'
  BY <1>2, PurgedType, EntryTypes DEF Q!JoinWaits
<1>3. ASSUME NEW p \in Players, Q!JoinMatches(p) PROVE Q!TypeOK'
  <2>1. PICK i \in Q!NextWaiting(p) :
          /\ entries' = [Q!Purged EXCEPT ![p] = Q!Matched(made + 1, line[i]),
                                         ![line[i]] = Q!Matched(made + 1, p)]
          /\ line' = SubSeq(line, i + 1, Len(line))
    BY <1>3 DEF Q!JoinMatches
  <2>2. i \in 1..Len(line) /\ line[i] \in Players BY DEF Q!NextWaiting
  <2>3. line' \in Seq(Players) BY <2>1, <2>2
  <2>4. made' \in Nat BY <1>3 DEF Q!JoinMatches
  <2>5. entries' \in [Players -> Q!Entries]
    BY <2>1, <2>2, PurgedType, EntryTypes
  <2> QED BY <2>3, <2>4, <2>5
<1>4. ASSUME NEW p \in Players, Q!Leave(p) PROVE Q!TypeOK'
  BY <1>4, EntryTypes DEF Q!Leave
<1>5. CASE Q!Tick
  <2>1. \A p \in Players :
          [entries[p] EXCEPT !.left = IF @ > 0 THEN @ - 1 ELSE 0] \in Q!Entries
    BY DEF Q!Entries
  <2> QED BY <1>5, <2>1 DEF Q!Tick
<1>6. CASE UNCHANGED Q!vars BY <1>6 DEF Q!vars
<1> QED BY <1>1, <1>2, <1>3, <1>4, <1>5, <1>6 DEF Q!Next, Q!Join

(* Entries, queue and match counter are well typed.                        *)
THEOREM MatchmakingTypeOK ==
  ASSUME Q!TTLAssumption
  PROVE  Q!Spec => []Q!TypeOK
BY InitQueueTypeOK, NextQueueTypeOK, PTL DEF Q!Spec

-----------------------------------------------------------------------------
(* WaiterIsQueue is inductive: joining either empties the queue of         *)
(* everybody else or takes its only waiting member.                        *)
LEMMA NextWaiterIsQueue ==
  ASSUME Q!TTLAssumption, Q!TypeOK, Q!WaiterIsQueue, [Q!Next]_Q!vars
  PROVE  Q!WaiterIsQueue'
<1> USE DEF Q!TypeOK, Q!WaiterIsQueue
<1>1. \A q \in Players : Q!Purged[q].status = "waiting" => line = <<q>>
  BY DEF Q!Purged, Q!NotQueued
<1>2. ASSUME NEW p \in Players, Q!JoinExisting(p) \/ Q!PlayerStatus(p)
      PROVE  Q!WaiterIsQueue'
  BY <1>1, <1>2 DEF Q!JoinExisting, Q!PlayerStatus
<1>3. ASSUME NEW p \in Players, Q!JoinWaits(p) PROVE Q!WaiterIsQueue'
  <2>1. \A q \in Players \ {p} : Q!Purged[q].status # "waiting"
    <3> SUFFICES ASSUME NEW q \in Players \ {p}, Q!Purged[q].status = "waiting"
                 PROVE FALSE
      OBVIOUS
    <3>1. line = <<q>> BY <1>1
    <3>2. 1 \in Q!NextWaiting(p) BY <3>1 DEF Q!NextWaiting, Q!IsCandidate
    <3> QED BY <1>3, <3>2 DEF Q!JoinWaits
  <2>2. \A q \in Players \ {p} : entries'[q].status # "waiting"
    BY <1>3, <2>1, PurgedType DEF Q!JoinWaits
  <2> QED BY <1>3, <2>2 DEF Q!JoinWaits
<1>4. ASSUME NEW p \in Players, Q!JoinMatches(p) PROVE Q!WaiterIsQueue'
  <2>1. PICK i \in Q!NextWaiting(p) :
          entries' = [Q!Purged EXCEPT ![p] = Q!Matched(made + 1, line[i]),
                                      ![line[i]] = Q!Matched(made + 1, p)]
    BY <1>4 DEF Q!JoinMatches
  <2>2. /\ i \in 1..Len(line) /\ line[i] \in Players
        /\ Q!Purged[line[i]].status = "waiting"
    BY DEF Q!NextWaiting, Q!IsCandidate
  <2>3. line = <<line[i]>> BY <1>1, <2>2
  <2>4. \A q \in Players \ {line[i]} : Q!Purged[q].status # "waiting"
    BY <1>1, <2>3
  <2>5. \A q \in Players : entries'[q].status # "waiting"
    BY <2>1, <2>2, <2>4, PurgedType DEF Q!Matched
  <2> QED BY <2>5
<1>5. ASSUME NEW p \in Players, Q!Leave(p) PROVE Q!WaiterIsQueue'
  BY <1>5 DEF Q!Leave, Q!NotQueued
<1>6. CASE Q!Tick
  <2>1. \A p \in Players : entries'[p].status = entries[p].status
    BY <1>6 DEF Q!Tick, Q!Entries
  <2> QED BY <1>6, <2>1 DEF Q!Tick
<1>7. CASE UNCHANGED Q!vars BY <1>7 DEF Q!vars
<1> QED BY <1>2, <1>3, <1>4, <1>5, <1>6, <1>7 DEF Q!Next, Q!Join

(* A waiting player is the whole queue: the next joiner is paired with it. *)
THEOREM MatchmakingWaiterIsQueue ==
  ASSUME Q!TTLAssumption
  PROVE  Q!Spec => []Q!WaiterIsQueue
<1>1. Q!Init => Q!WaiterIsQueue BY DEF Q!Init, Q!WaiterIsQueue, Q!NotQueued
<1> QED BY <1>1, NextWaiterIsQueue, MatchmakingTypeOK, PTL DEF Q!Spec

(* Two players never wait at the same time.                                *)
THEOREM MatchmakingNobodyWaitsInVain ==
  ASSUME Q!TTLAssumption
  PROVE  Q!Spec => []NobodyWaitsInVain
<1>1. Q!WaiterIsQueue => NobodyWaitsInVain
  <2> SUFFICES ASSUME Q!WaiterIsQueue, NEW p \in Players, NEW q \in Players,
                      entries[p].status = "waiting", entries[q].status = "waiting"
               PROVE  p = q
    BY DEF NobodyWaitsInVain
  <2>1. line = <<p>> /\ line = <<q>> BY DEF Q!WaiterIsQueue
  <2> QED BY <2>1
<1> QED BY <1>1, MatchmakingWaiterIsQueue, PTL
-----------------------------------------------------------------------------
(* Purging keeps the pairs: it drops an entry or leaves it as it is.       *)
LEMMA PurgedMatched ==
  ASSUME Q!TTLAssumption, NEW p \in Players, Q!Purged[p].status = "matched"
  PROVE  Q!Purged[p] = entries[p]
BY DEF Q!Purged, Q!NotQueued

(* One step keeps PairInv whatever it does to the entries of other         *)
(* matches, as long as it drops entries or leaves them.                    *)
LEMMA DroppingKeepsPairs ==
  ASSUME Q!TTLAssumption, Q!PairInv, made' = made,
         \A p \in Players : entries'[p].status = "matched" => entries'[p] = entries[p]
  PROVE  Q!PairInv'
<1>1. Q!MatchesMade' BY DEF Q!PairInv, Q!MatchesMade
<1>2. ASSUME NEW p \in Players, entries'[p].status = "matched"
      PROVE  LET o == entries'[p].opponent IN
               /\ o \in Players \ {p}
               /\ \A q \in Players \ {p} :
                    entries'[q].status = "matched" /\ entries'[q].match = entries'[p].match
                      => /\ q = o /\ entries'[q].opponent = p
                         /\ entries'[q].left = entries'[p].left
  <2>1. entries'[p] = entries[p] BY <1>2
  <2>2. entries[p].opponent \in Players \ {p}
    BY <1>2, <2>1 DEF Q!PairInv, Q!PairsMutual
  <2>3. ASSUME NEW q \in Players \ {p}, entries'[q].status = "matched",
               entries'[q].match = entries'[p].match
        PROVE  /\ q = entries'[p].opponent /\ entries'[q].opponent = p
               /\ entries'[q].left = entries'[p].left
    <3>1. entries'[q] = entries[q] BY <2>3
    <3> QED BY <1>2, <2>1, <2>3, <3>1 DEF Q!PairInv, Q!PairsMutual
  <2> QED BY <2>1, <2>2, <2>3
<1> QED BY <1>1, <1>2 DEF Q!PairInv, Q!PairsMutual

(* Every operation keeps the pairs: a new match gets a new number, and     *)
(* only its two entries are written.                                       *)
LEMMA NextPairInv ==
  ASSUME Q!TTLAssumption, Q!TypeOK, Q!PairInv, [Q!Next]_Q!vars
  PROVE  Q!PairInv'
<1> USE DEF Q!TypeOK
<1>1. ASSUME NEW p \in Players, Q!JoinExisting(p) \/ Q!PlayerStatus(p) PROVE Q!PairInv'
  <2>1. entries' = Q!Purged /\ made' = made
    BY <1>1 DEF Q!JoinExisting, Q!PlayerStatus
  <2> QED BY <2>1, PurgedMatched, DroppingKeepsPairs
<1>2. ASSUME NEW p \in Players, Q!JoinWaits(p) PROVE Q!PairInv'
  <2>1. entries' = [Q!Purged EXCEPT ![p] = Q!Waiting] /\ made' = made
    BY <1>2 DEF Q!JoinWaits
  <2>2. \A q \in Players : entries'[q].status = "matched" => entries'[q] = entries[q]
    BY <2>1, PurgedMatched, PurgedType DEF Q!Waiting
  <2> QED BY <2>1, <2>2, DroppingKeepsPairs
<1>3. ASSUME NEW p \in Players, Q!JoinMatches(p) PROVE Q!PairInv'
  <2>1. PICK i \in Q!NextWaiting(p) :
          entries' = [Q!Purged EXCEPT ![p] = Q!Matched(made + 1, line[i]),
                                      ![line[i]] = Q!Matched(made + 1, p)]
    BY <1>3 DEF Q!JoinMatches
  <2> DEFINE w == line[i]
  <2>2. w \in Players \ {p} BY DEF Q!NextWaiting, Q!IsCandidate
  <2>3. made \in Nat /\ made' = made + 1 BY <1>3 DEF Q!JoinMatches
  <2>4. /\ entries'[p] = Q!Matched(made + 1, w)
        /\ entries'[w] = Q!Matched(made + 1, p)
        /\ \A q \in Players \ {p, w} : entries'[q] = Q!Purged[q]
    BY <2>1, <2>2, PurgedType
  <2> HIDE DEF w
  <2>5. ASSUME NEW q \in Players \ {p, w}, entries'[q].status = "matched"
        PROVE  /\ entries'[q] = entries[q]
               /\ entries[q].match \in Nat /\ entries[q].match <= made
    BY <2>4, <2>5, PurgedMatched DEF Q!PairInv, Q!MatchesMade, Q!Entries
  <2>6. /\ entries'[p].match = made + 1 /\ entries'[w].match = made + 1
        /\ entries'[p].opponent = w /\ entries'[w].opponent = p
        /\ entries'[p].left = entries'[w].left
    BY <2>4 DEF Q!Matched
  <2>7. Q!MatchesMade'
    BY <2>3, <2>5, <2>6 DEF Q!MatchesMade
  <2>8. ASSUME NEW q \in Players, entries'[q].status = "matched",
               NEW r \in Players \ {q}, entries'[r].status = "matched",
               entries'[r].match = entries'[q].match
        PROVE  /\ r = entries'[q].opponent /\ entries'[r].opponent = q
               /\ entries'[r].left = entries'[q].left
    <3>1. CASE q \in {p, w}
      <4>1. entries'[r].match = made + 1 BY <2>6, <2>8, <3>1
      <4>2. r \in {p, w} BY <2>3, <2>5, <2>8, <4>1
      <4> QED BY <2>6, <2>8, <3>1, <4>2
    <3>2. CASE q \notin {p, w}
      <4>1. entries'[q] = entries[q] /\ entries[q].match \in Nat /\ entries[q].match <= made
        BY <2>5, <2>8, <3>2
      <4>2. r \notin {p, w} BY <2>3, <2>6, <2>8, <4>1
      <4>3. entries'[r] = entries[r] BY <2>5, <2>8, <4>2
      <4> QED BY <2>8, <4>1, <4>3 DEF Q!PairInv, Q!PairsMutual
    <3> QED BY <3>1, <3>2
  <2>9. ASSUME NEW q \in Players, entries'[q].status = "matched"
        PROVE  entries'[q].opponent \in Players \ {q}
    <3>1. CASE q \in {p, w} BY <2>2, <2>6, <3>1
    <3>2. CASE q \notin {p, w}
      BY <2>5, <2>9, <3>2 DEF Q!PairInv, Q!PairsMutual
    <3> QED BY <3>1, <3>2
  <2>10. Q!PairsMutual' BY <2>8, <2>9 DEF Q!PairsMutual
  <2> QED BY <2>7, <2>10 DEF Q!PairInv
<1>4. ASSUME NEW p \in Players, Q!Leave(p) PROVE Q!PairInv'
  <2>1. entries' = [entries EXCEPT ![p] = Q!NotQueued] /\ made' = made
    BY <1>4 DEF Q!Leave
  <2>2. \A q \in Players : entries'[q].status = "matched" => entries'[q] = entries[q]
    BY <2>1 DEF Q!NotQueued
  <2> QED BY <2>1, <2>2, DroppingKeepsPairs
<1>5. CASE Q!Tick
  <2>1. made' = made BY <1>5 DEF Q!Tick
  <2>2. \A p \in Players :
          /\ entries'[p].status = entries[p].status
          /\ entries'[p].match = entries[p].match
          /\ entries'[p].opponent = entries[p].opponent
          /\ entries'[p].left = IF entries[p].left > 0 THEN entries[p].left - 1 ELSE 0
    BY <1>5 DEF Q!Tick, Q!Entries
  <2>3. Q!MatchesMade' BY <2>1, <2>2 DEF Q!PairInv, Q!MatchesMade
  <2>4. ASSUME NEW p \in Players, entries[p].status = "matched",
               NEW q \in Players \ {p}, entries[q].status = "matched",
               entries[q].match = entries[p].match
        PROVE  /\ q = entries[p].opponent /\ entries[q].opponent = p
               /\ entries'[q].left = entries'[p].left
    <3>1. q = entries[p].opponent /\ entries[q].opponent = p
          /\ entries[q].left = entries[p].left
      BY <2>4 DEF Q!PairInv, Q!PairsMutual
    <3> QED BY <2>2, <3>1
  <2>5. \A p \in Players : entries[p].status = "matched"
          => entries[p].opponent \in Players \ {p}
    BY DEF Q!PairInv, Q!PairsMutual
  <2>6. Q!PairsMutual' BY <2>2, <2>4, <2>5 DEF Q!PairsMutual
  <2> QED BY <2>3, <2>6 DEF Q!PairInv
<1>6. CASE UNCHANGED Q!vars
  BY <1>6 DEF Q!vars, Q!PairInv, Q!MatchesMade, Q!PairsMutual
<1> QED BY <1>1, <1>2, <1>3, <1>4, <1>5, <1>6 DEF Q!Next, Q!Join

(* Two players whose entries name the same match name each other, for the  *)
(* same time, and nobody else holds a ticket for it.                       *)
THEOREM MatchmakingPairsMutual ==
  ASSUME Q!TTLAssumption
  PROVE  Q!Spec => []PairsMutual
<1>1. Q!Init => Q!PairInv
  BY DEF Q!Init, Q!PairInv, Q!MatchesMade, Q!PairsMutual, Q!NotQueued
<1>2. Q!PairInv => PairsMutual
  BY DEF Q!PairInv, Q!PairsMutual, PairsMutual
<1> QED BY <1>1, <1>2, NextPairInv, MatchmakingTypeOK, PTL DEF Q!Spec

-----------------------------------------------------------------------------
(* The main loop.                                                          *)

(* There is a free object for every new transport.                         *)
LEMMA NewObjectIsNew ==
  ASSUME screen = "QueuePending", A!Owned PROVE A!NewObject \in A!Objects \ {None}
BY DEF A!Owned, A!NewObject, A!Objects

(* Every step keeps the types; a matched entry is the session's own.       *)
LEMMA NextAppTypeOK ==
  ASSUME A!ClientAppAssumption
  PROVE  A!TypeOK /\ A!Owned /\ A!OneSession /\ [A!Next]_A!vars => A!TypeOK'
<1> SUFFICES ASSUME A!TypeOK, A!Owned, A!OneSession, [A!Next]_A!vars PROVE A!TypeOK'
  OBVIOUS
<1> USE DEF A!ClientAppAssumption, A!TypeOK, A!Futures, A!Objects, A!Screens,
       A!Pending, A!OneSession, A!sessionVars, A!queueVars, A!objectVars,
       A!profileVars, A!gatewayVars
<1>1. CASE A!Pair
  BY <1>1 DEF A!Pair
<1>2. CASE A!Expire
  BY <1>2 DEF A!Expire
<1>3. CASE A!RestoreEnds
  BY <1>3 DEF A!RestoreEnds, A!Ends, A!ThreadKeeps
<1>4. CASE A!AuthEnds
  BY <1>4 DEF A!AuthEnds, A!Ends, A!ThreadKeeps
<1>5. CASE A!LogoutEnds
  BY <1>5 DEF A!LogoutEnds, A!Ends, A!ThreadKeeps
<1>6. CASE A!ConnectEnds
  BY <1>6 DEF A!ConnectEnds, A!Ends, A!ThreadKeeps
<1>7. CASE A!LeaveCall
  BY <1>7 DEF A!LeaveCall, A!Ends, A!ThreadKeeps, A!QueueFails, A!SessionAfterFailure
<1>8. CASE A!JoinCall
  BY <1>8 DEF A!JoinCall, A!Ends, A!ThreadKeeps, A!QueueFails, A!SessionAfterFailure,
     A!Joined
<1>9. CASE A!StatusCall
  BY <1>9 DEF A!StatusCall, A!Ends, A!ThreadKeeps
<1>10. CASE A!QueueCallFails
  BY <1>10 DEF A!QueueCallFails, A!Ends, A!ThreadKeeps, A!QueueFails,
     A!SessionAfterFailure
<1>11. CASE A!ProfileAsks
  BY <1>11 DEF A!ProfileAsks, A!Ends, A!ThreadKeeps
<1>12. CASE A!ProfileEnds
  BY <1>12 DEF A!ProfileEnds, A!Ends, A!ThreadKeeps, A!SessionAfterFailure
<1>13. CASE A!RestorePolled
  BY <1>13 DEF A!RestorePolled, A!Take, A!Ready, A!LoopKeeps
<1>14. CASE A!AuthPolled
  BY <1>14 DEF A!AuthPolled, A!Take, A!Ready, A!LoopKeeps
<1>15. CASE A!LogoutPolled
  BY <1>15 DEF A!LogoutPolled, A!Take, A!Ready, A!LoopKeeps
<1>16. CASE A!QueueResult
  <2>1. CASE A!QueueFailed /\ A!QueuePolled
    BY <2>1 DEF A!QueueFailed, A!QueuePolled, A!Ready, A!LoopKeeps
  <2>2. CASE A!QueueMatched /\ UNCHANGED account /\ A!QueuePolled
    BY <2>2, NewObjectIsNew DEF A!QueueMatched, A!QueuePolled, A!Ready, A!LoopKeeps
  <2>3. CASE A!QueueSettled /\ UNCHANGED account /\ A!QueuePolled
    BY <2>3 DEF A!QueueSettled, A!QueuePolled, A!Ready, A!LoopKeeps
  <2> QED
    BY <1>16, <2>1, <2>2, <2>3 DEF A!QueueResult
<1>17. CASE A!ConnectPolled
  BY <1>17 DEF A!ConnectPolled, A!Take, A!Ready, A!LoopKeeps
<1>18. CASE A!ProfilePolled
  BY <1>18 DEF A!ProfilePolled, A!Take, A!Ready, A!LoopKeeps
<1>19. CASE A!MatchOver
  BY <1>19 DEF A!MatchOver, A!LoopKeeps
<1>20. CASE A!LoginPressed
  BY <1>20 DEF A!LoginPressed, A!Press, A!GoesTo, A!LoopKeeps, A!Buttons, A!DrawLogin,
     A!DrawMainMenu, A!DrawResult, A!DrawProfile, A!Begins
<1>21. CASE A!LogoutPressed
  BY <1>21 DEF A!LogoutPressed, A!Press, A!GoesTo, A!LoopKeeps, A!Buttons, A!DrawLogin,
     A!DrawMainMenu, A!DrawResult, A!DrawProfile, A!Begins
<1>22. CASE A!FindMatch
  BY <1>22 DEF A!FindMatch, A!Press, A!GoesTo, A!LoopKeeps, A!Buttons, A!DrawLogin,
     A!DrawMainMenu, A!DrawResult, A!DrawProfile, A!Begins, A!Release
<1>23. CASE A!ProfilePressed
  BY <1>23 DEF A!ProfilePressed, A!Press, A!GoesTo, A!LoopKeeps, A!Buttons,
     A!DrawLogin, A!DrawMainMenu, A!DrawResult, A!DrawProfile, A!Begins
<1>24. CASE A!Back
  BY <1>24 DEF A!Back, A!Press, A!GoesTo, A!LoopKeeps, A!Buttons, A!DrawLogin,
     A!DrawMainMenu, A!DrawResult, A!DrawProfile
<1>25. CASE A!WaitingPoll
  BY <1>25 DEF A!WaitingPoll, A!GoesTo, A!LoopKeeps, A!Begins
<1>26. CASE A!Restart
  BY <1>26 DEF A!Restart, A!NoFuture
<1>27. CASE UNCHANGED A!vars
  BY <1>27 DEF A!vars
<1> QED
  BY <1>1, <1>2, <1>3, <1>4, <1>5, <1>6, <1>7, <1>8, <1>9, <1>10, <1>11, <1>12, <1>13,
     <1>14, <1>15, <1>16, <1>17, <1>18, <1>19, <1>20, <1>21, <1>22, <1>23, <1>24,
     <1>25, <1>26, <1>27
     DEF A!Next, A!Gateway, A!Threads, A!QueueThread, A!ProfileThread, A!Polls,
         A!Player

(* Every step leaves a future to the screen that polls it.                 *)
LEMMA NextOwnScreen ==
  ASSUME A!ClientAppAssumption
  PROVE  A!TypeOK /\ A!OwnScreen /\ [A!Next]_A!vars => A!OwnScreen'
<1> SUFFICES ASSUME A!TypeOK, A!OwnScreen, [A!Next]_A!vars PROVE A!OwnScreen'
  OBVIOUS
<1> USE DEF A!ClientAppAssumption, A!TypeOK, A!Futures, A!Objects, A!Screens,
       A!Pending, A!OwnScreen, A!PolledOn, A!sessionVars, A!queueVars, A!objectVars,
       A!profileVars, A!gatewayVars
<1>1. CASE A!Pair
  BY <1>1 DEF A!Pair
<1>2. CASE A!Expire
  BY <1>2 DEF A!Expire
<1>3. CASE A!RestoreEnds
  BY <1>3 DEF A!RestoreEnds, A!Ends, A!ThreadKeeps
<1>4. CASE A!AuthEnds
  BY <1>4 DEF A!AuthEnds, A!Ends, A!ThreadKeeps
<1>5. CASE A!LogoutEnds
  BY <1>5 DEF A!LogoutEnds, A!Ends, A!ThreadKeeps
<1>6. CASE A!ConnectEnds
  BY <1>6 DEF A!ConnectEnds, A!Ends, A!ThreadKeeps
<1>7. CASE A!LeaveCall
  BY <1>7 DEF A!LeaveCall, A!Ends, A!ThreadKeeps, A!QueueFails, A!SessionAfterFailure
<1>8. CASE A!JoinCall
  BY <1>8 DEF A!JoinCall, A!Ends, A!ThreadKeeps, A!QueueFails, A!SessionAfterFailure,
     A!Joined
<1>9. CASE A!StatusCall
  BY <1>9 DEF A!StatusCall, A!Ends, A!ThreadKeeps
<1>10. CASE A!QueueCallFails
  BY <1>10 DEF A!QueueCallFails, A!Ends, A!ThreadKeeps, A!QueueFails,
     A!SessionAfterFailure
<1>11. CASE A!ProfileAsks
  BY <1>11 DEF A!ProfileAsks, A!Ends, A!ThreadKeeps
<1>12. CASE A!ProfileEnds
  BY <1>12 DEF A!ProfileEnds, A!Ends, A!ThreadKeeps, A!SessionAfterFailure
<1>13. CASE A!RestorePolled
  BY <1>13 DEF A!RestorePolled, A!Take, A!Ready, A!LoopKeeps
<1>14. CASE A!AuthPolled
  BY <1>14 DEF A!AuthPolled, A!Take, A!Ready, A!LoopKeeps
<1>15. CASE A!LogoutPolled
  BY <1>15 DEF A!LogoutPolled, A!Take, A!Ready, A!LoopKeeps
<1>16. CASE A!QueueResult
  BY <1>16 DEF A!QueueResult, A!QueuePolled, A!Ready, A!LoopKeeps, A!QueueFailed,
     A!QueueMatched, A!QueueSettled
<1>17. CASE A!ConnectPolled
  BY <1>17 DEF A!ConnectPolled, A!Take, A!Ready, A!LoopKeeps
<1>18. CASE A!ProfilePolled
  BY <1>18 DEF A!ProfilePolled, A!Take, A!Ready, A!LoopKeeps
<1>19. CASE A!MatchOver
  BY <1>19 DEF A!MatchOver, A!LoopKeeps
<1>20. CASE A!LoginPressed
  BY <1>20 DEF A!LoginPressed, A!Press, A!GoesTo, A!LoopKeeps, A!Buttons, A!DrawLogin,
     A!DrawMainMenu, A!DrawResult, A!DrawProfile, A!Begins
<1>21. CASE A!LogoutPressed
  BY <1>21 DEF A!LogoutPressed, A!Press, A!GoesTo, A!LoopKeeps, A!Buttons, A!DrawLogin,
     A!DrawMainMenu, A!DrawResult, A!DrawProfile, A!Begins
<1>22. CASE A!FindMatch
  BY <1>22 DEF A!FindMatch, A!Press, A!GoesTo, A!LoopKeeps, A!Buttons, A!DrawLogin,
     A!DrawMainMenu, A!DrawResult, A!DrawProfile, A!Begins, A!Release
<1>23. CASE A!ProfilePressed
  BY <1>23 DEF A!ProfilePressed, A!Press, A!GoesTo, A!LoopKeeps, A!Buttons,
     A!DrawLogin, A!DrawMainMenu, A!DrawResult, A!DrawProfile, A!Begins
<1>24. CASE A!Back
  BY <1>24 DEF A!Back, A!Press, A!GoesTo, A!LoopKeeps, A!Buttons, A!DrawLogin,
     A!DrawMainMenu, A!DrawResult, A!DrawProfile
<1>25. CASE A!WaitingPoll
  BY <1>25 DEF A!WaitingPoll, A!GoesTo, A!LoopKeeps, A!Begins
<1>26. CASE A!Restart
  BY <1>26 DEF A!Restart, A!NoFuture
<1>27. CASE UNCHANGED A!vars
  BY <1>27 DEF A!vars
<1> QED
  BY <1>1, <1>2, <1>3, <1>4, <1>5, <1>6, <1>7, <1>8, <1>9, <1>10, <1>11, <1>12, <1>13,
     <1>14, <1>15, <1>16, <1>17, <1>18, <1>19, <1>20, <1>21, <1>22, <1>23, <1>24,
     <1>25, <1>26, <1>27
     DEF A!Next, A!Gateway, A!Threads, A!QueueThread, A!ProfileThread, A!Polls,
         A!Player

(* Every step leaves the transport to those who may use it.                *)
LEMMA NextOwned ==
  ASSUME A!ClientAppAssumption
  PROVE  A!TypeOK /\ A!OwnScreen /\ A!Owned /\ [A!Next]_A!vars => A!Owned'
<1> SUFFICES ASSUME A!TypeOK, A!OwnScreen, A!Owned, [A!Next]_A!vars PROVE A!Owned'
  OBVIOUS
<1> USE DEF A!ClientAppAssumption, A!TypeOK, A!Futures, A!Objects, A!Screens,
       A!Pending, A!OwnScreen, A!PolledOn, A!Owned, A!sessionVars, A!queueVars,
       A!objectVars, A!profileVars, A!gatewayVars
<1>1. CASE A!Pair
  BY <1>1 DEF A!Pair
<1>2. CASE A!Expire
  BY <1>2 DEF A!Expire
<1>3. CASE A!RestoreEnds
  BY <1>3 DEF A!RestoreEnds, A!Ends, A!ThreadKeeps
<1>4. CASE A!AuthEnds
  BY <1>4 DEF A!AuthEnds, A!Ends, A!ThreadKeeps
<1>5. CASE A!LogoutEnds
  BY <1>5 DEF A!LogoutEnds, A!Ends, A!ThreadKeeps
<1>6. CASE A!ConnectEnds
  BY <1>6 DEF A!ConnectEnds, A!Ends, A!ThreadKeeps
<1>7. CASE A!LeaveCall
  BY <1>7 DEF A!LeaveCall, A!Ends, A!ThreadKeeps, A!QueueFails, A!SessionAfterFailure
<1>8. CASE A!JoinCall
  BY <1>8 DEF A!JoinCall, A!Ends, A!ThreadKeeps, A!QueueFails, A!SessionAfterFailure,
     A!Joined
<1>9. CASE A!StatusCall
  BY <1>9 DEF A!StatusCall, A!Ends, A!ThreadKeeps
<1>10. CASE A!QueueCallFails
  BY <1>10 DEF A!QueueCallFails, A!Ends, A!ThreadKeeps, A!QueueFails,
     A!SessionAfterFailure
<1>11. CASE A!ProfileAsks
  BY <1>11 DEF A!ProfileAsks, A!Ends, A!ThreadKeeps
<1>12. CASE A!ProfileEnds
  BY <1>12 DEF A!ProfileEnds, A!Ends, A!ThreadKeeps, A!SessionAfterFailure
<1>13. CASE A!RestorePolled
  BY <1>13 DEF A!RestorePolled, A!Take, A!Ready, A!LoopKeeps
<1>14. CASE A!AuthPolled
  BY <1>14 DEF A!AuthPolled, A!Take, A!Ready, A!LoopKeeps
<1>15. CASE A!LogoutPolled
  BY <1>15 DEF A!LogoutPolled, A!Take, A!Ready, A!LoopKeeps
<1>16. CASE A!QueueResult
  <2>1. CASE A!QueueFailed /\ A!QueuePolled
    BY <2>1 DEF A!QueueFailed, A!QueuePolled, A!Ready, A!LoopKeeps
  <2>2. CASE A!QueueMatched /\ UNCHANGED account /\ A!QueuePolled
    BY <2>2, NewObjectIsNew DEF A!QueueMatched, A!QueuePolled, A!Ready, A!LoopKeeps
  <2>3. CASE A!QueueSettled /\ UNCHANGED account /\ A!QueuePolled
    BY <2>3 DEF A!QueueSettled, A!QueuePolled, A!Ready, A!LoopKeeps
  <2> QED
    BY <1>16, <2>1, <2>2, <2>3 DEF A!QueueResult
<1>17. CASE A!ConnectPolled
  BY <1>17 DEF A!ConnectPolled, A!Take, A!Ready, A!LoopKeeps
<1>18. CASE A!ProfilePolled
  BY <1>18 DEF A!ProfilePolled, A!Take, A!Ready, A!LoopKeeps
<1>19. CASE A!MatchOver
  BY <1>19 DEF A!MatchOver, A!LoopKeeps
<1>20. CASE A!LoginPressed
  BY <1>20 DEF A!LoginPressed, A!Press, A!GoesTo, A!LoopKeeps, A!Buttons, A!DrawLogin,
     A!DrawMainMenu, A!DrawResult, A!DrawProfile, A!Begins
<1>21. CASE A!LogoutPressed
  BY <1>21 DEF A!LogoutPressed, A!Press, A!GoesTo, A!LoopKeeps, A!Buttons, A!DrawLogin,
     A!DrawMainMenu, A!DrawResult, A!DrawProfile, A!Begins
<1>22. CASE A!FindMatch
  BY <1>22 DEF A!FindMatch, A!Press, A!GoesTo, A!LoopKeeps, A!Buttons, A!DrawLogin,
     A!DrawMainMenu, A!DrawResult, A!DrawProfile, A!Begins, A!Release
<1>23. CASE A!ProfilePressed
  BY <1>23 DEF A!ProfilePressed, A!Press, A!GoesTo, A!LoopKeeps, A!Buttons,
     A!DrawLogin, A!DrawMainMenu, A!DrawResult, A!DrawProfile, A!Begins
<1>24. CASE A!Back
  BY <1>24 DEF A!Back, A!Press, A!GoesTo, A!LoopKeeps, A!Buttons, A!DrawLogin,
     A!DrawMainMenu, A!DrawResult, A!DrawProfile
<1>25. CASE A!WaitingPoll
  BY <1>25 DEF A!WaitingPoll, A!GoesTo, A!LoopKeeps, A!Begins
<1>26. CASE A!Restart
  BY <1>26 DEF A!Restart, A!NoFuture
<1>27. CASE UNCHANGED A!vars
  BY <1>27 DEF A!vars
<1> QED
  BY <1>1, <1>2, <1>3, <1>4, <1>5, <1>6, <1>7, <1>8, <1>9, <1>10, <1>11, <1>12, <1>13,
     <1>14, <1>15, <1>16, <1>17, <1>18, <1>19, <1>20, <1>21, <1>22, <1>23, <1>24,
     <1>25, <1>26, <1>27
     DEF A!Next, A!Gateway, A!Threads, A!QueueThread, A!ProfileThread, A!Polls,
         A!Player

(* Every step keeps the loop's session and the manager's together.         *)
LEMMA NextOneSession ==
  ASSUME A!ClientAppAssumption
  PROVE  A!TypeOK /\ A!OwnScreen /\ A!OneSession /\ [A!Next]_A!vars => A!OneSession'
<1> SUFFICES ASSUME A!TypeOK, A!OwnScreen, A!OneSession, [A!Next]_A!vars
             PROVE  A!OneSession'
  OBVIOUS
<1> USE DEF A!ClientAppAssumption, A!TypeOK, A!Futures, A!Objects, A!Screens,
       A!Pending, A!OwnScreen, A!PolledOn, A!OneSession, A!Ready, A!sessionVars,
       A!queueVars, A!objectVars, A!profileVars, A!gatewayVars
<1>1. CASE A!Pair
  BY <1>1 DEF A!Pair
<1>2. CASE A!Expire
  BY <1>2 DEF A!Expire
<1>3. CASE A!RestoreEnds
  BY <1>3 DEF A!RestoreEnds, A!Ends, A!ThreadKeeps
<1>4. CASE A!AuthEnds
  BY <1>4 DEF A!AuthEnds, A!Ends, A!ThreadKeeps
<1>5. CASE A!LogoutEnds
  BY <1>5 DEF A!LogoutEnds, A!Ends, A!ThreadKeeps
<1>6. CASE A!ConnectEnds
  BY <1>6 DEF A!ConnectEnds, A!Ends, A!ThreadKeeps
<1>7. CASE A!LeaveCall
  BY <1>7 DEF A!LeaveCall, A!Ends, A!ThreadKeeps, A!QueueFails, A!SessionAfterFailure
<1>8. CASE A!JoinCall
  BY <1>8 DEF A!JoinCall, A!Ends, A!ThreadKeeps, A!QueueFails, A!SessionAfterFailure,
     A!Joined
<1>9. CASE A!StatusCall
  BY <1>9 DEF A!StatusCall, A!Ends, A!ThreadKeeps
<1>10. CASE A!QueueCallFails
  BY <1>10 DEF A!QueueCallFails, A!Ends, A!ThreadKeeps, A!QueueFails,
     A!SessionAfterFailure
<1>11. CASE A!ProfileAsks
  BY <1>11 DEF A!ProfileAsks, A!Ends, A!ThreadKeeps
<1>12. CASE A!ProfileEnds
  BY <1>12 DEF A!ProfileEnds, A!Ends, A!ThreadKeeps, A!SessionAfterFailure
<1>13. CASE A!RestorePolled
  BY <1>13 DEF A!RestorePolled, A!Take, A!Ready, A!LoopKeeps
<1>14. CASE A!AuthPolled
  BY <1>14 DEF A!AuthPolled, A!Take, A!Ready, A!LoopKeeps
<1>15. CASE A!LogoutPolled
  BY <1>15 DEF A!LogoutPolled, A!Take, A!Ready, A!LoopKeeps
<1>16. CASE A!QueueResult
  BY <1>16 DEF A!QueueResult, A!QueuePolled, A!Ready, A!LoopKeeps, A!QueueFailed,
     A!QueueMatched, A!QueueSettled
<1>17. CASE A!ConnectPolled
  BY <1>17 DEF A!ConnectPolled, A!Take, A!Ready, A!LoopKeeps
<1>18. CASE A!ProfilePolled
  BY <1>18 DEF A!ProfilePolled, A!Take, A!Ready, A!LoopKeeps
<1>19. CASE A!MatchOver
  BY <1>19 DEF A!MatchOver, A!LoopKeeps
<1>20. CASE A!LoginPressed
  BY <1>20 DEF A!LoginPressed, A!Press, A!GoesTo, A!LoopKeeps, A!Buttons, A!DrawLogin,
     A!DrawMainMenu, A!DrawResult, A!DrawProfile, A!Begins
<1>21. CASE A!LogoutPressed
  BY <1>21 DEF A!LogoutPressed, A!Press, A!GoesTo, A!LoopKeeps, A!Buttons, A!DrawLogin,
     A!DrawMainMenu, A!DrawResult, A!DrawProfile, A!Begins
<1>22. CASE A!FindMatch
  BY <1>22 DEF A!FindMatch, A!Press, A!GoesTo, A!LoopKeeps, A!Buttons, A!DrawLogin,
     A!DrawMainMenu, A!DrawResult, A!DrawProfile, A!Begins, A!Release
<1>23. CASE A!ProfilePressed
  BY <1>23 DEF A!ProfilePressed, A!Press, A!GoesTo, A!LoopKeeps, A!Buttons,
     A!DrawLogin, A!DrawMainMenu, A!DrawResult, A!DrawProfile, A!Begins
<1>24. CASE A!Back
  BY <1>24 DEF A!Back, A!Press, A!GoesTo, A!LoopKeeps, A!Buttons, A!DrawLogin,
     A!DrawMainMenu, A!DrawResult, A!DrawProfile
<1>25. CASE A!WaitingPoll
  BY <1>25 DEF A!WaitingPoll, A!GoesTo, A!LoopKeeps, A!Begins
<1>26. CASE A!Restart
  BY <1>26 DEF A!Restart, A!NoFuture
<1>27. CASE UNCHANGED A!vars
  BY <1>27 DEF A!vars
<1> QED
  BY <1>1, <1>2, <1>3, <1>4, <1>5, <1>6, <1>7, <1>8, <1>9, <1>10, <1>11, <1>12, <1>13,
     <1>14, <1>15, <1>16, <1>17, <1>18, <1>19, <1>20, <1>21, <1>22, <1>23, <1>24,
     <1>25, <1>26, <1>27
     DEF A!Next, A!Gateway, A!Threads, A!QueueThread, A!ProfileThread, A!Polls,
         A!Player

(* Every step has an accepted match cleaned up before the next join.       *)
LEMMA NextCleaned ==
  ASSUME A!ClientAppAssumption
  PROVE  A!TypeOK /\ A!OwnScreen /\ A!OneSession /\ A!Cleaned /\ [A!Next]_A!vars =>
           A!Cleaned'
<1> SUFFICES ASSUME A!TypeOK, A!OwnScreen, A!OneSession, A!Cleaned, [A!Next]_A!vars
             PROVE  A!Cleaned'
  OBVIOUS
<1> USE DEF A!ClientAppAssumption, A!TypeOK, A!Futures, A!Objects, A!Screens,
       A!Pending, A!OwnScreen, A!PolledOn, A!OneSession, A!Cleaned, A!Accepted, A!NoStaleMatch,
       A!sessionVars, A!queueVars, A!objectVars, A!profileVars, A!gatewayVars
<1>1. CASE A!Pair
  BY <1>1 DEF A!Pair
<1>2. CASE A!Expire
  BY <1>2 DEF A!Expire
<1>3. CASE A!RestoreEnds
  BY <1>3 DEF A!RestoreEnds, A!Ends, A!ThreadKeeps
<1>4. CASE A!AuthEnds
  BY <1>4 DEF A!AuthEnds, A!Ends, A!ThreadKeeps
<1>5. CASE A!LogoutEnds
  BY <1>5 DEF A!LogoutEnds, A!Ends, A!ThreadKeeps
<1>6. CASE A!ConnectEnds
  BY <1>6 DEF A!ConnectEnds, A!Ends, A!ThreadKeeps
<1>7. CASE A!LeaveCall
  BY <1>7 DEF A!LeaveCall, A!Ends, A!ThreadKeeps, A!QueueFails, A!SessionAfterFailure
<1>8. CASE A!JoinCall
  BY <1>8 DEF A!JoinCall, A!Ends, A!ThreadKeeps, A!QueueFails, A!SessionAfterFailure,
     A!Joined
<1>9. CASE A!StatusCall
  BY <1>9 DEF A!StatusCall, A!Ends, A!ThreadKeeps
<1>10. CASE A!QueueCallFails
  BY <1>10 DEF A!QueueCallFails, A!Ends, A!ThreadKeeps, A!QueueFails,
     A!SessionAfterFailure
<1>11. CASE A!ProfileAsks
  BY <1>11 DEF A!ProfileAsks, A!Ends, A!ThreadKeeps
<1>12. CASE A!ProfileEnds
  BY <1>12 DEF A!ProfileEnds, A!Ends, A!ThreadKeeps, A!SessionAfterFailure
<1>13. CASE A!RestorePolled
  BY <1>13 DEF A!RestorePolled, A!Take, A!Ready, A!LoopKeeps
<1>14. CASE A!AuthPolled
  BY <1>14 DEF A!AuthPolled, A!Take, A!Ready, A!LoopKeeps
<1>15. CASE A!LogoutPolled
  BY <1>15 DEF A!LogoutPolled, A!Take, A!Ready, A!LoopKeeps
<1>16. CASE A!QueueResult
  <2>1. CASE A!QueueFailed /\ A!QueuePolled
    BY <2>1 DEF A!QueueFailed, A!QueuePolled, A!Ready, A!LoopKeeps
  <2>2. CASE A!QueueMatched /\ UNCHANGED account /\ A!QueuePolled
    BY <2>2 DEF A!QueueMatched, A!QueuePolled, A!Ready, A!LoopKeeps
  <2>3. CASE A!QueueSettled /\ UNCHANGED account /\ A!QueuePolled
    <3>1. queueOf = account /\ account # None /\ ~A!Accepted(account)
      BY <2>3 DEF A!QueueSettled, A!QueuePolled
    <3>2. ~resetRequired' /\ UNCHANGED entry /\ screen' \in {"Waiting", "Ready"}
      <4>1. requestReset = resetRequired
        BY <2>3 DEF A!QueuePolled
      <4>2. resetRequired' = (resetRequired /\ ~requestReset) /\ UNCHANGED entry
        BY <2>3 DEF A!QueueSettled, A!QueuePolled, A!LoopKeeps
      <4>3. screen' \in {"Waiting", "Ready"}
        BY <2>3 DEF A!QueueSettled
      <4> QED
        BY <4>1, <4>2, <4>3
    <3>3. \A a \in Accounts : ~A!Accepted(a)'
      BY <2>3, <3>1, <3>2 DEF A!QueueSettled, A!QueuePolled
    <3> QED
      BY <3>2, <3>3
  <2> QED
    BY <1>16, <2>1, <2>2, <2>3 DEF A!QueueResult
<1>17. CASE A!ConnectPolled
  BY <1>17 DEF A!ConnectPolled, A!Take, A!Ready, A!LoopKeeps
<1>18. CASE A!ProfilePolled
  BY <1>18 DEF A!ProfilePolled, A!Take, A!Ready, A!LoopKeeps
<1>19. CASE A!MatchOver
  BY <1>19 DEF A!MatchOver, A!LoopKeeps
<1>20. CASE A!LoginPressed
  BY <1>20 DEF A!LoginPressed, A!Press, A!GoesTo, A!LoopKeeps, A!Buttons, A!DrawLogin,
     A!DrawMainMenu, A!DrawResult, A!DrawProfile, A!Begins
<1>21. CASE A!LogoutPressed
  BY <1>21 DEF A!LogoutPressed, A!Press, A!GoesTo, A!LoopKeeps, A!Buttons, A!DrawLogin,
     A!DrawMainMenu, A!DrawResult, A!DrawProfile, A!Begins
<1>22. CASE A!FindMatch
  BY <1>22 DEF A!FindMatch, A!Press, A!GoesTo, A!LoopKeeps, A!Buttons, A!DrawLogin,
     A!DrawMainMenu, A!DrawResult, A!DrawProfile, A!Begins, A!Release
<1>23. CASE A!ProfilePressed
  BY <1>23 DEF A!ProfilePressed, A!Press, A!GoesTo, A!LoopKeeps, A!Buttons,
     A!DrawLogin, A!DrawMainMenu, A!DrawResult, A!DrawProfile, A!Begins
<1>24. CASE A!Back
  BY <1>24 DEF A!Back, A!Press, A!GoesTo, A!LoopKeeps, A!Buttons, A!DrawLogin,
     A!DrawMainMenu, A!DrawResult, A!DrawProfile
<1>25. CASE A!WaitingPoll
  BY <1>25 DEF A!WaitingPoll, A!GoesTo, A!LoopKeeps, A!Begins
<1>26. CASE A!Restart
  BY <1>26 DEF A!Restart, A!NoFuture
<1>27. CASE UNCHANGED A!vars
  BY <1>27 DEF A!vars
<1> QED
  BY <1>1, <1>2, <1>3, <1>4, <1>5, <1>6, <1>7, <1>8, <1>9, <1>10, <1>11, <1>12, <1>13,
     <1>14, <1>15, <1>16, <1>17, <1>18, <1>19, <1>20, <1>21, <1>22, <1>23, <1>24,
     <1>25, <1>26, <1>27
     DEF A!Next, A!Gateway, A!Threads, A!QueueThread, A!ProfileThread, A!Polls,
         A!Player

(* The invariant holds in the initial state.                               *)
LEMMA InitApp ==
  ASSUME A!ClientAppAssumption
  PROVE  A!Init => A!TypeOK /\ A!IndInv
<1> USE DEF A!ClientAppAssumption, A!Init, A!NoFuture, A!Futures
<1>1. A!Init => A!TypeOK
  BY DEF A!TypeOK, A!Objects, A!Screens, A!Pending
<1>2. A!Init => A!OwnScreen /\ A!Owned /\ A!OneSession /\ A!Cleaned
  BY DEF A!OwnScreen, A!PolledOn, A!Owned, A!OneSession, A!Cleaned, A!Accepted, A!NoStaleMatch,
     A!Ready
<1> QED
  BY <1>1, <1>2 DEF A!IndInv

(* The inductive invariant of the main loop.                               *)
THEOREM ClientAppInvariant ==
  ASSUME A!ClientAppAssumption
  PROVE  A!Spec => [](A!TypeOK /\ A!IndInv)
<1>1. A!TypeOK /\ A!IndInv /\ [A!Next]_A!vars => (A!TypeOK /\ A!IndInv)'
  BY NextAppTypeOK, NextOwnScreen, NextOwned, NextOneSession, NextCleaned DEF A!IndInv
<1> QED
  BY InitApp, <1>1, PTL DEF A!Spec

(* No thread and no controller is ever left with a transport that has been *)
(* destroyed, for any accounts and any order of answers and buttons.       *)
THEOREM ClientAppNoDangling ==
  ASSUME A!ClientAppAssumption
  PROVE  A!Spec => []NoDangling
<1>1. A!TypeOK /\ A!IndInv => NoDangling
  BY DEF A!ClientAppAssumption, A!TypeOK, A!IndInv, A!OwnScreen, A!PolledOn, A!Owned,
     NoDangling
<1> QED
  BY <1>1, ClientAppInvariant, PTL

(* The loop never waits for a thread by assigning its future.              *)
THEOREM ClientAppNeverBlocks ==
  ASSUME A!ClientAppAssumption
  PROVE  A!Spec => []NeverBlocks
<1>1. A!TypeOK /\ A!IndInv => NeverBlocks
  BY DEF A!ClientAppAssumption, A!TypeOK, A!IndInv, A!OwnScreen, A!PolledOn,
     NeverBlocks, Assigns, A!Futures
<1> QED
  BY <1>1, ClientAppInvariant, PTL

(* No match that was accepted is ever found again in a result, for any     *)
(* accounts, whatever is lost on the way.                                  *)
THEOREM ClientAppNoStaleMatch ==
  ASSUME A!ClientAppAssumption
  PROVE  A!Spec => []NoStaleMatch
<1>1. A!IndInv => NoStaleMatch
  BY DEF A!IndInv, A!Cleaned, A!NoStaleMatch, NoStaleMatch
<1> QED
  BY <1>1, ClientAppInvariant, PTL
=============================================================================
