--------------------------- MODULE ActionDelivery ---------------------------
(***************************************************************************)
(* How one player's input reaches the authoritative Room: the client's     *)
(* PendingActionQueue and MatchController (game/input, game/match), the    *)
(* lossy datagrams in both directions, and the input half of room/room.go. *)
(*                                                                         *)
(* Every input datagram repeats all commands the client does not yet know  *)
(* to be acknowledged. Datagrams may be lost and overtake each other.      *)
(* The match server's inputs channel is part of "up": it only delays       *)
(* inputs further, or drops them when it is full.                          *)
(*                                                                         *)
(* Commands are their sequence numbers. pending_ and pendingActions are    *)
(* kept sorted by the code and are sets here. The match is active: this    *)
(* client sends nothing before.                                            *)
(***************************************************************************)
EXTENDS Integers, FiniteSets, FiniteSetsExt

CONSTANTS
  QueueSize,      (* kMaximumSize of the client, MaxPendingActions of the
                     Room and of the datagram: 8.                          *)
  SequenceWindow, (* MaxActionSequenceAhead: 64.                           *)
  TickWindow,     (* MaxInputTickAdvance: 120.                             *)
  PerTick,        (* Commands one client tick can enqueue (dash, attack).  *)
  MaxCommands,    (* Bounds the commands issued.                           *)
  MaxTicks,       (* Bounds the client's and the server's ticks.           *)
  MaxInFlight     (* Bounds the datagrams in flight, per direction.        *)

ASSUME ConstantsAssumption ==
  /\ QueueSize \in Nat \ {0} /\ SequenceWindow \in Nat /\ TickWindow \in Nat
  /\ PerTick \in Nat /\ MaxCommands \in Nat /\ MaxTicks \in Nat
  /\ MaxInFlight \in Nat \ {0}
ASSUME WindowAssumption == QueueSize <= SequenceWindow

VARIABLES
  issued,        (* nextSequence_ - 1.                                     *)
  pending,       (* PendingActionQueue::pending_.                          *)
  inputTick,     (* model_.inputTick_.                                     *)
  world,         (* Tick and own ack of the newest snapshot applied.       *)
  up,            (* PlayerInput datagrams on their way to the Room.        *)
  down,          (* WorldSnapshot datagrams on their way to the client.    *)
  lastInputTick, (* Room.lastInputTick.                                    *)
  queued,        (* Room.pendingActions.                                   *)
  ack,           (* LastAckedActionSequence.                               *)
  tick,          (* Room.tick.                                             *)
  refused,       (* The tick window refused a datagram (history).          *)
  runs           (* How often the Room carried out each command (history). *)

clientVars == <<issued, pending, inputTick, world>>
roomVars   == <<lastInputTick, queued, ack, tick, refused, runs>>
vars       == <<clientVars, up, down, roomVars>>

Commands  == 1..MaxCommands
Inputs    == [tick : Nat, commands : SUBSET Commands]
Snapshots == [tick : Nat, ack : 0..MaxCommands]

Init ==
  /\ issued = 0 /\ pending = {} /\ inputTick = 0
  /\ world = [tick |-> 0, ack |-> 0]
  /\ up = {} /\ down = {}
  /\ lastInputTick = 0 /\ queued = {} /\ ack = 0 /\ tick = 0
  /\ refused = FALSE
  /\ runs = [s \in Commands |-> 0]

-----------------------------------------------------------------------------
(* The client.                                                             *)

(* Sending when MaxInFlight datagrams are under way loses one of them.     *)
Send(net, d) ==
  {n \in SUBSET (net \cup {d}) : Cardinality(n) <= MaxInFlight}

(* The n commands of S with the lowest sequences. *)
Lowest(S, n) == {s \in S : Cardinality({t \in S : t < s}) < n}

(* Mutant: a datagram carries only the commands of its own tick. *)
OutgoingFresh(P) == P \ pending

(* ToProtobuf cuts the pending commands P to the size of a datagram. *)
Outgoing(P) == Lowest(P, QueueSize)

HasRoom(n) == Cardinality(pending) + n <= QueueSize

(* FixedTick: edge actions are enqueued while the queue has room, then     *)
(* everything pending is sent, whether or not something was pressed.       *)
FixedTick ==
  /\ inputTick < MaxTicks
  /\ inputTick' = inputTick + 1
  /\ \E n \in 0..PerTick :
       /\ issued + n <= MaxCommands
       /\ HasRoom(n)
       /\ issued' = issued + n
       /\ pending' = pending \cup (issued + 1)..(issued + n)
  /\ up' \in Send(up, [tick |-> inputTick', commands |-> Outgoing(pending')])
  /\ UNCHANGED <<world, down, roomVars>>

(* Mutant: overtaken snapshots are not ignored, and the ack is taken as is. *)
ApplyAnySnapshot(s) ==
  /\ world' = s
  /\ pending' = {c \in 1..issued : c > s.ack}

(* Mutant: a snapshot clears the queue, whatever it acknowledges. *)
ApplyForgets(s) ==
  /\ world' = IF s.tick < world.tick THEN world ELSE s
  /\ pending' = IF s.tick < world.tick THEN pending ELSE {}

(* ApplySnapshot and Acknowledge; a snapshot older than the last is        *)
(* ignored.                                                                *)
ApplySnapshot(s) ==
  /\ world' = IF s.tick < world.tick THEN world ELSE s
  /\ pending' = IF s.tick < world.tick THEN pending
                ELSE {c \in pending : c > s.ack}

ReceiveSnapshot ==
  /\ \E s \in down : /\ down' = down \ {s}
                     /\ ApplySnapshot(s)
  /\ UNCHANGED <<issued, inputTick, up, roomVars>>

-----------------------------------------------------------------------------
(* The network.                                                            *)

Lose ==
  /\ \/ \E d \in up : up' = up \ {d} /\ UNCHANGED down
     \/ \E s \in down : down' = down \ {s} /\ UNCHANGED up
  /\ UNCHANGED <<clientVars, roomVars>>

-----------------------------------------------------------------------------
(* The Room.                                                               *)

(* Mutant: acknowledged commands are not recognised. *)
FreshForgetful(d) == d.commands \ queued

(* What queueAction lets through, before it looks at the queue's length.   *)
Fresh(d) ==
  {s \in d.commands : s > ack /\ s - ack <= SequenceWindow} \ queued

(* Commands are queued in order of sequence until the queue is full.       *)
Taken(d) == Lowest(Fresh(d), QueueSize - Cardinality(queued))

TooFarAhead(d) == d.tick > lastInputTick + TickWindow

SubmitInput ==
  /\ \E d \in up :
       /\ up' = up \ {d}
       /\ \/ /\ TooFarAhead(d)
             /\ refused' = TRUE
             /\ UNCHANGED <<lastInputTick, queued>>
          \/ /\ ~ TooFarAhead(d)
             /\ UNCHANGED refused
             /\ lastInputTick' =
                  IF d.tick > lastInputTick THEN d.tick ELSE lastInputTick
             /\ queued' = queued \cup Taken(d)
  /\ UNCHANGED <<clientVars, down, ack, tick, runs>>

(* processActions acknowledges each queued command in turn.                *)
AckAfter == IF queued = {} THEN ack ELSE Max(queued)

(* Step on an active Room, and the snapshot it publishes.                  *)
Step ==
  /\ tick < MaxTicks
  /\ tick' = tick + 1
  /\ ack' = AckAfter
  /\ runs' = [s \in Commands |-> IF s \in queued THEN runs[s] + 1 ELSE runs[s]]
  /\ queued' = {}
  /\ down' \in Send(down, [tick |-> tick', ack |-> ack'])
  /\ UNCHANGED <<clientVars, up, lastInputTick, refused>>

Next == FixedTick \/ ReceiveSnapshot \/ Lose \/ SubmitInput \/ Step

Spec == Init /\ [][Next]_vars

-----------------------------------------------------------------------------
(* Properties.                                                             *)

TypeOK ==
  /\ issued \in 0..MaxCommands /\ pending \subseteq Commands
  /\ inputTick \in Nat /\ world \in Snapshots
  /\ up \subseteq Inputs /\ down \subseteq Snapshots
  /\ lastInputTick \in Nat /\ queued \subseteq Commands
  /\ ack \in 0..MaxCommands /\ tick \in Nat
  /\ refused \in BOOLEAN
  /\ runs \in [Commands -> Nat]

(* Whatever is lost or overtaken, the Room carries out the commands in     *)
(* order, without a gap and each once: those up to its ack have run once,  *)
(* the others never (room.go:249, room.go:386).                            *)
ExactlyOnce ==
  \A s \in Commands : runs[s] = IF s <= ack THEN 1 ELSE 0

(* No command vanishes: what the client no longer repeats has run, so a    *)
(* player's press is either done or still being sent.                      *)
NothingForgotten ==
  \A s \in 1..issued : runs[s] = 0 => s \in pending

(* The Room's queue bound and sequence window never reject a command of    *)
(* this client: the client's own bound keeps it inside both.               *)
NeverOverflows ==
  \A d \in up : Taken(d) = {s \in d.commands : s > ack} \ queued

(* The client's queue, its datagrams and the Room's queue fit together:    *)
(* each holds everything between its acknowledgement and its newest        *)
(* command.                                                                *)
SnapshotOrder ==
  \A s, t \in down \cup {world, [tick |-> tick, ack |-> ack]} :
    s.tick <= t.tick => s.ack <= t.ack
Contiguous ==
  /\ pending = {s \in 1..issued : s > world.ack}
  /\ issued <= world.ack + QueueSize
  /\ \A d \in up : \A s \in d.commands :
       s <= issued /\ \A t \in 1..s : t > ack => t \in d.commands
  /\ \A s \in queued :
       s <= issued /\ s > ack /\ \A t \in 1..s : t > ack => t \in queued
  /\ ack <= issued
  /\ \A s \in down \cup {world} : s.tick <= tick

IndInv == TypeOK /\ SnapshotOrder /\ Contiguous /\ ExactlyOnce

(* The implementation relation to the promise to the player.               *)
Stream == INSTANCE CommandStream
            WITH Window <- QueueSize, done <- ack, known <- world.ack
StreamKept == Stream!Spec

(* docs/client-prediction.md:14: the tick numbers let inputs survive loss  *)
(* and reordering. A datagram that does arrive, newer than all that        *)
(* arrived before it, is used.                                             *)
NewestIsUsed == ~ refused
=============================================================================
