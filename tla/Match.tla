------------------------------- MODULE Match -------------------------------
(***************************************************************************)
(* One running match of the match server: matchserver/manager.go (type     *)
(* match), room/loop.go and the connection handlers of                     *)
(* transport/quicserver/server.go.                                         *)
(*                                                                         *)
(* Five kinds of goroutine share the match:                                *)
(*   - the loop, which waits at the start barrier, steps the Room once per *)
(*     tick and publishes a snapshot after each step;                      *)
(*   - the broadcaster, which forwards snapshots to the two sessions and   *)
(*     finalizes the match when a snapshot says it is finished;            *)
(*   - one connection handler per player, which writes MatchStart, streams *)
(*     snapshots, writes MatchEnd and calls session.Close when it returns; *)
(*   - the reporter, spawned by finalize (only its start is modelled here).*)
(*                                                                         *)
(* A Go channel of capacity one is a set with at most one element. The     *)
(* Room is module Duel: its clock, status and result. Player input is left *)
(* out: it can only influence which blow ends the duel, and when.          *)
(***************************************************************************)
EXTENDS Duel

ASSUME PlayersAssumption ==
  /\ \E a, b \in Players : a # b /\ Players = {a, b}
  /\ NoPlayer \notin Players
ASSUME TicksAssumption ==
  /\ CountdownTicks \in Nat \ {0}
  /\ MatchDurationTicks \in Nat \ {0}

VARIABLES
  loopPc,        (* Where the loop goroutine is.                           *)
  roomSnapshots, (* Channel from the loop to the broadcaster.              *)
  bcPc,          (* Where the broadcaster is.                              *)
  bcSnapshot,    (* The snapshot the broadcaster is working on.            *)
  bcLeft,        (* Sessions its current "for range m.players" has left.   *)
  lastSnapshot,  (* match.lastSnapshot, under snapshotMutex.               *)
  snapshots,     (* Per player: playerSession.snapshots.                   *)
  matchEnds,     (* Per player: playerSession.matchEnds.                   *)
  closed,        (* Per player: the broadcaster closed both channels.      *)
  terminalOnce,  (* sync.Once of finalize: "idle", "running" or "done".    *)
  unsent,        (* matchEnds that the running finalize has still to fill. *)
  outcome,       (* The MatchEnd that won terminalOnce, once there is one. *)
  reported,      (* What reportTerminal was started with.                  *)
  hpc,           (* Per player: where the connection handler is.           *)
  draft,         (* Per player: the MatchEnd playerDisconnected holds.     *)
  connection,    (* Per player: "up" until the connection context is done. *)
  started,       (* Players whose MatchStart was written (history).        *)
  startCount,    (* match.startCount.                                      *)
  canceled,      (* The match context has been canceled.                   *)
  written        (* Per player: the MatchEnd written to the stream.        *)

roomVars    == <<room, loopPc>>
bcVars      == <<bcPc, bcSnapshot, bcLeft>>
onceVars    == <<terminalOnce, unsent, outcome, reported>>
handlerVars == <<hpc, draft, connection, started, startCount, written>>
vars == <<roomVars, roomSnapshots, bcVars, lastSnapshot, snapshots, matchEnds,
          closed, onceVars, handlerVars, canceled>>

Opponent(p) == CHOOSE q \in Players \ {p} : TRUE

Outcomes  == [winner : Players \cup {NoPlayer}, tick : Nat,
              reason : {"ko", "time_limit", "disconnect"}]

-----------------------------------------------------------------------------
(* What a MatchEnd says.                                                   *)

RoomOutcome(s) == [winner |-> s.winner, tick |-> s.tick, reason |-> s.reason]

(* Mutant: the technical defeat goes to the opponent. *)
DisconnectOutcomeSwapped(p) ==
  [winner |-> p, tick |-> lastSnapshot.tick, reason |-> "disconnect"]

DisconnectOutcome(p) ==
  [winner |-> Opponent(p), tick |-> lastSnapshot.tick, reason |-> "disconnect"]

-----------------------------------------------------------------------------
Init ==
  /\ room = InitialRoom
  /\ loopPc = "barrier"
  /\ roomSnapshots = {}
  /\ bcPc = "receive"
  /\ bcSnapshot = InitialRoom
  /\ bcLeft = {}
  /\ lastSnapshot = InitialRoom
  /\ snapshots = [p \in Players |-> {}]
  /\ matchEnds = [p \in Players |-> {}]
  /\ closed = [p \in Players |-> FALSE]
  /\ terminalOnce = "idle"
  /\ unsent = {}
  /\ outcome = {}
  /\ reported = {}
  /\ hpc = [p \in Players |-> "handoff"]
  /\ draft = [p \in Players |-> {}]
  /\ connection = [p \in Players |-> "up"]
  /\ started = {}
  /\ startCount = 0
  /\ canceled = FALSE
  /\ written = [p \in Players |-> {}]

-----------------------------------------------------------------------------
(* Handing the match to the two handlers: the select that ends             *)
(* MatchManager.Authenticate.                                              *)

HandOff ==
  /\ \A p \in Players : hpc[p] = "handoff"
  /\ hpc' = [p \in Players |-> "start"]
  /\ UNCHANGED <<roomVars, roomSnapshots, bcVars, lastSnapshot, snapshots,
                 matchEnds, closed, onceVars, draft, connection, started,
                 startCount, written, canceled>>

(* The first player gave up waiting before the match could be handed out.  *)
HandOffCanceled ==
  /\ \A p \in Players : hpc[p] = "handoff"
  /\ hpc' = [p \in Players |-> "absent"]
  /\ canceled' = TRUE
  /\ UNCHANGED <<roomVars, roomSnapshots, bcVars, lastSnapshot, snapshots,
                 matchEnds, closed, onceVars, draft, connection, started,
                 startCount, written>>

-----------------------------------------------------------------------------
(* The loop goroutine.                                                     *)

LoopLeaves(from, to) == loopPc = from /\ loopPc' = to

BarrierOpen == startCount = 2

LoopStart ==
  /\ BarrierOpen
  /\ LoopLeaves("barrier", "run")
  /\ UNCHANGED <<room, roomSnapshots, bcVars, lastSnapshot, snapshots,
                 matchEnds, closed, onceVars, handlerVars, canceled>>

LoopTick ==
  /\ LoopLeaves("run", "publish")
  /\ room' \in Steps(room)
  /\ UNCHANGED <<roomSnapshots, bcVars, lastSnapshot, snapshots, matchEnds,
                 closed, onceVars, handlerVars, canceled>>

AfterPublish == IF room.status = "finished" THEN "close" ELSE "run"

(* Mutant: a full channel drops the new snapshot, a final one included. *)
PublishTryDrops ==
  /\ LoopLeaves("publish", AfterPublish)
  /\ roomSnapshots' = IF roomSnapshots = {} THEN {room} ELSE roomSnapshots
  /\ UNCHANGED <<room, bcVars, lastSnapshot, snapshots, matchEnds, closed,
                 onceVars, handlerVars, canceled>>

(* First select of Loop.publish.                                           *)
PublishTry ==
  /\ IF roomSnapshots = {}
       THEN /\ LoopLeaves("publish", AfterPublish)
            /\ roomSnapshots' = {room}
       ELSE /\ LoopLeaves("publish", "displace")
            /\ UNCHANGED roomSnapshots
  /\ UNCHANGED <<room, bcVars, lastSnapshot, snapshots, matchEnds, closed,
                 onceVars, handlerVars, canceled>>

(* Second select: discard a queued update, if it is still there.           *)
PublishDisplace ==
  /\ LoopLeaves("displace", "republish")
  /\ roomSnapshots' = {}
  /\ UNCHANGED <<room, bcVars, lastSnapshot, snapshots, matchEnds, closed,
                 onceVars, handlerVars, canceled>>

(* Third select: best effort for an update, blocking for a final snapshot. *)
Republish ==
  /\ LoopLeaves("republish", AfterPublish)
  /\ \/ /\ roomSnapshots = {}
        /\ roomSnapshots' = {room}
     \/ /\ IF room.status = "finished" THEN canceled ELSE roomSnapshots # {}
        /\ UNCHANGED roomSnapshots
  /\ UNCHANGED <<room, bcVars, lastSnapshot, snapshots, matchEnds, closed,
                 onceVars, handlerVars, canceled>>

(* ctx.Done at the barrier or in the select of Run.                        *)
LoopCanceled ==
  /\ canceled
  /\ \E pc \in {"barrier", "run"} : LoopLeaves(pc, "close")
  /\ UNCHANGED <<room, roomSnapshots, bcVars, lastSnapshot, snapshots,
                 matchEnds, closed, onceVars, handlerVars, canceled>>

LoopClose ==
  /\ LoopLeaves("close", "exited")
  /\ UNCHANGED <<room, roomSnapshots, bcVars, lastSnapshot, snapshots,
                 matchEnds, closed, onceVars, handlerVars, canceled>>

Loop == \/ LoopStart \/ LoopTick \/ PublishTry \/ PublishDisplace
        \/ Republish \/ LoopCanceled \/ LoopClose

-----------------------------------------------------------------------------
(* The broadcaster goroutine.                                              *)

BcLeaves(from, to) == bcPc = from /\ bcPc' = to

BcReceive ==
  /\ BcLeaves("receive", "update")
  /\ bcSnapshot' \in roomSnapshots
  /\ roomSnapshots' = {}
  /\ UNCHANGED <<roomVars, bcLeft, lastSnapshot, snapshots, matchEnds, closed,
                 onceVars, handlerVars, canceled>>

(* "for range" ends on the closed, drained channel; the deferred closes.   *)
BcDrained ==
  /\ loopPc = "exited"
  /\ roomSnapshots = {}
  /\ BcLeaves("receive", "close")
  /\ bcLeft' = Players
  /\ UNCHANGED <<roomVars, roomSnapshots, bcSnapshot, lastSnapshot, snapshots,
                 matchEnds, closed, onceVars, handlerVars, canceled>>

BcUpdateLast ==
  /\ IF bcSnapshot.status = "finished"
       THEN BcLeaves("update", "finalize") /\ UNCHANGED bcLeft
       ELSE BcLeaves("update", "publish") /\ bcLeft' = Players
  /\ lastSnapshot' = bcSnapshot
  /\ UNCHANGED <<roomVars, roomSnapshots, bcSnapshot, snapshots, matchEnds,
                 closed, onceVars, handlerVars, canceled>>

(* Mutant: the newest snapshot is discarded in place of the queued one. *)
PublishOldest(channel, s) == IF channel = {} THEN {s} ELSE channel

(* publishLatest: its three selects have this net effect, for the          *)
(* broadcaster is the only sender and a receive between two of them can    *)
(* only take what the second select would discard.                         *)
PublishLatest(channel, s) == {s}

BcPublish(p) ==
  /\ p \in bcLeft
  /\ bcLeft' = bcLeft \ {p}
  /\ BcLeaves("publish", IF bcLeft' = {} THEN "receive" ELSE "publish")
  /\ snapshots' = [snapshots EXCEPT ![p] = PublishLatest(@, bcSnapshot)]
  /\ UNCHANGED <<roomVars, roomSnapshots, bcSnapshot, lastSnapshot, matchEnds,
                 closed, onceVars, handlerVars, canceled>>

BcCloseSession(p) ==
  /\ p \in bcLeft
  /\ bcLeft' = bcLeft \ {p}
  /\ BcLeaves("close", IF bcLeft' = {} THEN "exited" ELSE "close")
  /\ closed' = [closed EXCEPT ![p] = TRUE]
  /\ UNCHANGED <<roomVars, roomSnapshots, bcSnapshot, lastSnapshot, snapshots,
                 matchEnds, onceVars, handlerVars, canceled>>

-----------------------------------------------------------------------------
(* match.finalize, called by the broadcaster and by the closing handlers.  *)
(* terminalOnce.Do runs the first caller and blocks the others until it is *)
(* done.                                                                   *)

(* Mutant: finalize without terminalOnce. *)
EnterAlways(o) ==
  /\ terminalOnce' = "running"
  /\ outcome' = {o}
  /\ unsent' = Players
  /\ UNCHANGED reported

EnterOnce(o) ==
  /\ terminalOnce = "idle"
  /\ terminalOnce' = "running"
  /\ outcome' = {o}
  /\ unsent' = Players
  /\ UNCHANGED reported

BcFinalize ==
  /\ BcLeaves("finalize", "sending")
  /\ EnterOnce(RoomOutcome(bcSnapshot))
  /\ UNCHANGED <<roomVars, roomSnapshots, bcSnapshot, bcLeft, lastSnapshot,
                 snapshots, matchEnds, closed, handlerVars, canceled>>

HandlerFinalize(p) ==
  /\ hpc[p] = "finalize"
  /\ hpc' = [hpc EXCEPT ![p] = "sending"]
  /\ \E o \in draft[p] : EnterOnce(o)
  /\ draft' = [draft EXCEPT ![p] = {}]
  /\ UNCHANGED <<roomVars, roomSnapshots, bcVars, lastSnapshot, snapshots,
                 matchEnds, closed, connection, started, startCount, written,
                 canceled>>

(* player.matchEnds <- matchEnd: blocks on a full channel and would panic  *)
(* on a closed one (NeverBlocksNorPanics says that neither happens).       *)
SendEnd(p) ==
  /\ terminalOnce = "running"
  /\ p \in unsent
  /\ matchEnds[p] = {} /\ ~ closed[p]
  /\ matchEnds' = [matchEnds EXCEPT ![p] = outcome]
  /\ unsent' = unsent \ {p}
  /\ UNCHANGED <<roomVars, roomSnapshots, bcVars, lastSnapshot, snapshots,
                 closed, terminalOnce, outcome, reported, handlerVars, canceled>>

(* "go m.reportTerminal", then the caller returns from finalize.           *)
FinishOnce ==
  /\ terminalOnce = "running"
  /\ unsent = {}
  /\ terminalOnce' = "done"
  /\ reported' = reported \cup outcome
  /\ bcPc' = IF bcPc = "sending" THEN "receive" ELSE bcPc
  /\ hpc' = [p \in Players |-> IF hpc[p] = "sending" THEN "abort" ELSE hpc[p]]
  /\ UNCHANGED <<roomVars, roomSnapshots, bcSnapshot, bcLeft, lastSnapshot,
                 snapshots, matchEnds, closed, unsent, outcome, draft,
                 connection, started, startCount, written, canceled>>

BcSkipOnce ==
  /\ terminalOnce = "done"
  /\ BcLeaves("finalize", "receive")
  /\ UNCHANGED <<roomVars, roomSnapshots, bcSnapshot, bcLeft, lastSnapshot,
                 snapshots, matchEnds, closed, onceVars, handlerVars, canceled>>

Broadcaster ==
  \/ BcReceive \/ BcDrained \/ BcUpdateLast \/ BcFinalize \/ BcSkipOnce
  \/ \E p \in Players : BcPublish(p) \/ BcCloseSession(p)

Finalizer == FinishOnce \/ \E p \in Players : SendEnd(p)

-----------------------------------------------------------------------------
(* The connection handler of player p, from Authenticate's return on.      *)

HandlerLeaves(p, from, to) == hpc[p] = from /\ hpc' = [hpc EXCEPT ![p] = to]

(* Ready and MatchStart; a failed write ends the handler.                  *)
WriteStart(p) ==
  /\ IF connection[p] = "up"
       THEN HandlerLeaves(p, "start", "ack") /\ started' = started \cup {p}
       ELSE HandlerLeaves(p, "start", "close") /\ UNCHANGED started
  /\ UNCHANGED <<roomVars, roomSnapshots, bcVars, lastSnapshot, snapshots,
                 matchEnds, closed, onceVars, draft, connection, startCount,
                 written, canceled>>

Acknowledge(p) ==
  /\ HandlerLeaves(p, "ack", "serve")
  /\ startCount' = startCount + 1
  /\ UNCHANGED <<roomVars, roomSnapshots, bcVars, lastSnapshot, snapshots,
                 matchEnds, closed, onceVars, draft, connection, started,
                 written, canceled>>

StreamSnapshot(p) ==
  /\ hpc[p] = "serve"
  /\ snapshots[p] # {}
  /\ snapshots' = [snapshots EXCEPT ![p] = {}]
  /\ UNCHANGED <<roomVars, roomSnapshots, bcVars, lastSnapshot, matchEnds,
                 closed, onceVars, handlerVars, canceled>>

(* connection.Context().Done, or receiveInputs returned because of it.     *)
ConnectionDone(p) ==
  /\ connection[p] = "lost"
  /\ HandlerLeaves(p, "serve", "close")
  /\ UNCHANGED <<roomVars, roomSnapshots, bcVars, lastSnapshot, snapshots,
                 matchEnds, closed, onceVars, draft, connection, started,
                 startCount, written, canceled>>

(* The matchEnds case of the select: a MatchEnd to write, or a channel     *)
(* closed without one.                                                     *)
DeliverEnd(p) ==
  /\ matchEnds[p] # {} \/ closed[p]
  /\ LET deliver == matchEnds[p] # {} /\ connection[p] = "up" IN
       /\ HandlerLeaves(p, "serve", IF deliver THEN "grace" ELSE "close")
       /\ written' = [written EXCEPT ![p] = IF deliver THEN matchEnds[p] ELSE @]
  /\ matchEnds' = [matchEnds EXCEPT ![p] = {}]
  /\ UNCHANGED <<roomVars, roomSnapshots, bcVars, lastSnapshot, snapshots,
                 closed, onceVars, draft, connection, started, startCount,
                 canceled>>

(* The grace period ends by its timer, which closes the connection, or by  *)
(* the connection.                                                         *)
GraceOver(p) ==
  /\ HandlerLeaves(p, "grace", "close")
  /\ connection' = [connection EXCEPT ![p] = "lost"]
  /\ UNCHANGED <<roomVars, roomSnapshots, bcVars, lastSnapshot, snapshots,
                 matchEnds, closed, onceVars, draft, started, startCount,
                 written, canceled>>

(* Mutant: playerDisconnected aborts the match before it finalizes it. *)
CloneLastAborting(p) ==
  /\ HandlerLeaves(p, "close", "finalize")
  /\ draft' = [draft EXCEPT ![p] = {DisconnectOutcome(p)}]
  /\ canceled' = TRUE
  /\ UNCHANGED <<roomVars, roomSnapshots, bcVars, lastSnapshot, snapshots,
                 matchEnds, closed, onceVars, connection, started, startCount,
                 written>>

(* session.Close -> playerDisconnected: lastSnapshotClone ...              *)
CloneLast(p) ==
  /\ HandlerLeaves(p, "close", "finalize")
  /\ draft' = [draft EXCEPT ![p] = {DisconnectOutcome(p)}]
  /\ UNCHANGED <<roomVars, roomSnapshots, bcVars, lastSnapshot, snapshots,
                 matchEnds, closed, onceVars, connection, started, startCount,
                 written, canceled>>

(* ... finalize, which does nothing after another caller's finalize ...    *)
HandlerSkipOnce(p) ==
  /\ terminalOnce = "done"
  /\ HandlerLeaves(p, "finalize", "abort")
  /\ draft' = [draft EXCEPT ![p] = {}]
  /\ UNCHANGED <<roomVars, roomSnapshots, bcVars, lastSnapshot, snapshots,
                 matchEnds, closed, onceVars, connection, started, startCount,
                 written, canceled>>

(* Mutant: Close leaves the match running. *)
AbortForgotten(p) ==
  /\ HandlerLeaves(p, "abort", "returned")
  /\ UNCHANGED <<roomVars, roomSnapshots, bcVars, lastSnapshot, snapshots,
                 matchEnds, closed, onceVars, draft, connection, started,
                 startCount, written, canceled>>

(* ... and abort.                                                          *)
Abort(p) ==
  /\ HandlerLeaves(p, "abort", "returned")
  /\ canceled' = TRUE
  /\ UNCHANGED <<roomVars, roomSnapshots, bcVars, lastSnapshot, snapshots,
                 matchEnds, closed, onceVars, draft, connection, started,
                 startCount, written>>

Handler(p) ==
  \/ WriteStart(p) \/ Acknowledge(p) \/ StreamSnapshot(p) \/ ConnectionDone(p)
  \/ DeliverEnd(p) \/ GraceOver(p) \/ CloneLast(p) \/ HandlerFinalize(p)
  \/ HandlerSkipOnce(p) \/ Abort(p)

(* The client closes, crashes or goes silent.                              *)
LoseConnection(p) ==
  /\ connection[p] = "up"
  /\ connection' = [connection EXCEPT ![p] = "lost"]
  /\ UNCHANGED <<roomVars, roomSnapshots, bcVars, lastSnapshot, snapshots,
                 matchEnds, closed, onceVars, hpc, draft, started, startCount,
                 written, canceled>>

-----------------------------------------------------------------------------
HandlersOver == \A p \in Players : hpc[p] \in {"returned", "absent"}

(* Every goroutine has returned; reporting apart, the match is over.       *)
AllReturned == HandlersOver /\ loopPc = "exited" /\ bcPc = "exited"

Terminated == AllReturned /\ UNCHANGED vars

Next ==
  \/ HandOff \/ HandOffCanceled
  \/ Loop \/ Broadcaster \/ Finalizer
  \/ \E p \in Players : Handler(p) \/ LoseConnection(p)
  \/ Terminated

(* Go runs every runnable goroutine, and RunRealtime's ticker keeps        *)
(* firing: each goroutine that can take a step takes one. Nothing makes a  *)
(* connection fail.                                                        *)
Fairness ==
  /\ WF_vars(HandOff \/ HandOffCanceled)
  /\ WF_vars(Loop) /\ WF_vars(Broadcaster) /\ WF_vars(Finalizer)
  /\ \A p \in Players : WF_vars(Handler(p))

Spec == Init /\ [][Next]_vars /\ Fairness

-----------------------------------------------------------------------------
(* Properties.                                                             *)

AtMostOne(channel) == \A x, y \in channel : x = y

(* Types; every channel holds at most its capacity of one element.         *)
TypeOK ==
  /\ room \in Snapshots
  /\ loopPc \in {"barrier", "run", "publish", "displace", "republish", "close",
                 "exited"}
  /\ roomSnapshots \subseteq Snapshots /\ AtMostOne(roomSnapshots)
  /\ bcPc \in {"receive", "update", "finalize", "sending", "publish", "close",
               "exited"}
  /\ bcSnapshot \in Snapshots
  /\ bcLeft \subseteq Players
  /\ lastSnapshot \in Snapshots
  /\ snapshots \in [Players -> SUBSET Snapshots]
  /\ matchEnds \in [Players -> SUBSET Outcomes]
  /\ draft \in [Players -> SUBSET Outcomes]
  /\ written \in [Players -> SUBSET Outcomes]
  /\ \A p \in Players : /\ AtMostOne(snapshots[p]) /\ AtMostOne(matchEnds[p])
                        /\ AtMostOne(draft[p]) /\ AtMostOne(written[p])
  /\ closed \in [Players -> BOOLEAN]
  /\ terminalOnce \in {"idle", "running", "done"}
  /\ unsent \subseteq Players
  /\ outcome \subseteq Outcomes /\ AtMostOne(outcome)
  /\ reported \subseteq Outcomes
  /\ hpc \in [Players -> {"handoff", "absent", "start", "ack", "serve", "grace",
                          "close", "finalize", "sending", "abort", "returned"}]
  /\ connection \in [Players -> {"up", "lost"}]
  /\ started \subseteq Players
  /\ startCount \in Nat
  /\ canceled \in BOOLEAN

(* Every MatchEnd queued for a player, written to a player or reported for *)
(* persistence is the one outcome terminalOnce admitted (manager.go:289).  *)
Announced == reported \cup UNION {matchEnds[p] \cup written[p] : p \in Players}
SoleOutcome == \A x, y \in Announced : x = y

(* The sends inside terminalOnce (manager.go:294) find an open channel with *)
(* room: finalize neither panics on a closed channel nor blocks, so neither *)
(* the broadcaster nor a closing handler can hang in it.                   *)
NeverBlocksNorPanics ==
  terminalOnce # "done" =>
    \A p \in Players : ( \/ terminalOnce = "idle" /\ hpc[p] # "absent"
                         \/ p \in unsent )
                         => matchEnds[p] = {} /\ ~ closed[p]

(* A handler never finds its matchEnds closed and empty: the "!open" case  *)
(* of server.go:144 would drop the client without a terminal event.        *)
EndBeforeClose ==
  \A p \in Players :
    closed[p] /\ hpc[p] \in {"start", "ack", "serve"} => matchEnds[p] # {}

(* A handler leaves a client whose connection is up only after writing it  *)
(* the MatchEnd (server.go:144): by Settles, a player whose connection     *)
(* stays up hears the end of every match that was handed out.              *)
EveryoneHears ==
  \A p \in Players :
    hpc[p] \in {"close", "finalize", "sending", "abort", "returned"}
      => written[p] # {} \/ connection[p] = "lost"

(* A disconnect is awarded only against a player whose connection was lost *)
(* before it was told anything; any other outcome is the finished Room's   *)
(* own result. With both connections up the Room's verdict is therefore    *)
(* final, whatever the backpressure between loop, broadcaster and handlers. *)
OutcomeJustified ==
  \A o \in outcome :
    IF o.reason = "disconnect"
      THEN \E loser \in Players : /\ o.winner = Opponent(loser)
                                  /\ connection[loser] = "lost"
                                  /\ written[loser] = {}
      ELSE room.status = "finished" /\ o = RoomOutcome(room)

(* Latest-wins mailboxes: between two steps of the loop the queue to the   *)
(* broadcaster holds nothing older than the Room, and between two          *)
(* broadcasts no session queue holds anything older than lastSnapshot      *)
(* (loop.go:95, manager.go:252). A final snapshot never enters a session   *)
(* queue.                                                                  *)
NewestWins ==
  /\ loopPc \in {"run", "close"} => roomSnapshots \subseteq {room}
  /\ bcPc \in {"receive", "update"} /\ lastSnapshot.status # "finished"
       => \A p \in Players : snapshots[p] \subseteq {lastSnapshot}
  /\ \A p \in Players : \A s \in snapshots[p] : s.status # "finished"

HandedOut == \A p \in Players : hpc[p] \notin {"handoff", "absent"}

(* No goroutine leaks: whatever connections do, the loop, the broadcaster  *)
(* and both handlers return, and a match that was handed out is reported.  *)
Settles == <>[](AllReturned /\ (HandedOut => reported # {}))

(* The implementation relation to the abstract promise of finalize.        *)
Promise == INSTANCE MatchOutcome WITH decided <- outcome, told <- written
PromiseKept == Promise!Spec

(* What manager.go:289-291 says: once the Room has ended, a disconnect can *)
(* no longer produce a different result.                                   *)
RoomOutcomeStands ==
  [][ room.status = "finished" /\ outcome = {} /\ outcome' # {}
        => outcome' = {RoomOutcome(room)} ]_vars

-----------------------------------------------------------------------------
(* The inductive invariant behind the safety properties.                   *)

(* What has been said comes from the one outcome that has been chosen.     *)
OutcomeOnce ==
  /\ terminalOnce = "idle" <=> outcome = {}
  /\ reported \subseteq outcome
  /\ \A p \in Players : /\ matchEnds[p] \subseteq outcome
                        /\ written[p] \subseteq outcome

(* Each session is filled exactly once, and keeps its MatchEnd until its   *)
(* handler takes it.                                                       *)
Filling ==
  /\ \A p \in unsent : matchEnds[p] = {}
  /\ terminalOnce # "running" => unsent = {}
  /\ \A p \in Players :
       /\ terminalOnce # "idle" /\ p \notin unsent
       /\ hpc[p] \in {"handoff", "start", "ack", "serve"}
       => matchEnds[p] # {}

(* A match whose handoff was canceled has no sessions and never starts.    *)
Absent == \E p \in Players : hpc[p] = "absent"
NeverStarted ==
  /\ Absent => \A p \in Players : hpc[p] = "absent"
  /\ \A p, q \in Players : hpc[p] = "handoff" => hpc[q] = "handoff"
  /\ (\A p \in Players : hpc[p] \in {"absent", "handoff"}) =>
       /\ startCount = 0
       /\ loopPc \in {"barrier", "close", "exited"}
       /\ roomSnapshots = {}
       /\ bcPc \in {"receive", "close", "exited"}
       /\ terminalOnce = "idle"

(* Somebody is on the way to finalize the finished Room's match.           *)
TerminalInFlight ==
  \/ \E s \in roomSnapshots : s.status = "finished"
  \/ bcPc = "update" /\ bcSnapshot.status = "finished"
  \/ bcPc \in {"finalize", "sending"}

(* Channels are closed in order, and only when the outcome is settled.     *)
Closing ==
  /\ \A p \in Players : closed[p] => bcPc \in {"close", "exited"}
  /\ bcPc \in {"close", "exited"} => loopPc = "exited" /\ roomSnapshots = {}
  /\ loopPc \in {"close", "exited"} =>
       canceled \/ TerminalInFlight \/ terminalOnce = "done"
  /\ canceled => terminalOnce = "done" \/ Absent
  /\ \A p \in Players : hpc[p] \in {"abort", "returned"} => terminalOnce = "done"

(* A finished Room stands still, and a finished snapshot is its last.      *)
Verdict ==
  /\ room.status = "finished" => loopPc \notin {"barrier", "run"}
  /\ room.status = "finished" => room.reason # "none"
  /\ \A s \in roomSnapshots \cup {bcSnapshot} :
       s.status = "finished" => s = room
  /\ bcPc \in {"finalize", "sending"} => bcSnapshot.status = "finished"

(* Who is closing an undecided match has lost its connection; who won the  *)
(* decision by closing was told nothing and never will be.                 *)
Losers ==
  /\ \A p \in Players :
       /\ hpc[p] \in {"close", "finalize"} /\ outcome = {} => connection[p] = "lost"
       /\ \A o \in draft[p] : o.winner = Opponent(p) /\ o.reason = "disconnect"
  /\ \A o \in outcome :
       IF o.reason = "disconnect"
         THEN \E loser \in Players :
                /\ o.winner = Opponent(loser)
                /\ connection[loser] = "lost"
                /\ written[loser] = {}
                /\ hpc[loser] \in {"sending", "abort", "returned"}
         ELSE room.status = "finished" /\ o = RoomOutcome(room)

(* Everything TLAPS needs; every part holds in every reachable state.      *)
IndInv == /\ TypeOK /\ OutcomeOnce /\ Filling /\ NeverStarted /\ Closing
          /\ Verdict /\ Losers

(* What NewestWins needs between its two moments: a mailbox the loop has   *)
(* not filled yet or has just emptied, and the part of a broadcast that is *)
(* done.                                                                   *)
Mailboxes ==
  /\ loopPc \in {"barrier", "republish"} => roomSnapshots = {}
  /\ bcPc \in {"finalize", "sending"} => lastSnapshot.status = "finished"
  /\ bcPc = "publish" =>
       /\ lastSnapshot = bcSnapshot /\ bcSnapshot.status # "finished"
       /\ \A p \in Players \ bcLeft : snapshots[p] \subseteq {bcSnapshot}
=============================================================================
