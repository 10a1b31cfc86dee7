------------------------------ MODULE Playback ------------------------------
(***************************************************************************)
(* What the player sees of an active match: game/prediction.cpp and        *)
(* game/interpolation.cpp, game/presentation/match_presentation.cpp, and   *)
(* the frame of the main loop that drives them through                     *)
(* game/match/match_controller.cpp, against the Room they follow.          *)
(*                                                                         *)
(* Input and snapshot datagrams may be lost, delayed and overtaken. Time   *)
(* is in ticks of 1/30 s, distance in steps of MovementPerTick, along one  *)
(* axis (the other is alike). A frame's rounding of time, the smoothing of *)
(* the local player's drawn position and the flashes are left out. The     *)
(* commands of the input datagrams are module ActionDelivery, the start,   *)
(* end and threads of a match ClientMatch.                                 *)
(***************************************************************************)
EXTENDS Integers, FiniteSets, FiniteSetsExt, SequencesExt

CONSTANTS
  Moves,       (* What the player's keys may say: a part of -1..1.         *)
  Arena,       (* The arena is -Arena..Arena.                              *)
  DashDistance,
  MaxHP,
  DelayTicks,  (* The render delay of the InterpolationBuffer: 3.          *)
  Capacity,    (* Its size: 32.                                            *)
  MaxTick,     (* Bounds the server's ticks,                               *)
  MaxInput,    (* the client's,                                            *)
  MaxElapsed,  (* the ticks that one frame takes,                          *)
  MaxInFlight, (* the snapshots under way and                              *)
  MaxQuiet     (* the history of undisturbed frames.                       *)

ASSUME PlaybackAssumption ==
  /\ Moves \subseteq -1..1 /\ Moves # {}
  /\ {Arena, DashDistance, MaxHP, DelayTicks} \subseteq Nat
  /\ {MaxTick, MaxInput, MaxElapsed, MaxQuiet} \subseteq Nat
  /\ Capacity \in Nat \ {0, 1} /\ MaxInFlight \in Nat \ {0}

VARIABLES
  (* The Room. *)
  tick,
  input,      (* The newest input tick it has, of the local player.        *)
  state,      (* That player's position and acknowledged input tick; a     *)
              (* player's hit points and attack (its first tick, or 0).    *)
  (* The network. *)
  down,       (* Snapshots on their way.                                   *)
  arrived,    (* Those to poll: the last one counts.                       *)
  (* The client. *)
  moves,      (* The moves of input ticks 1, 2... (history).               *)
  pending,    (* Prediction::pending_, by tick.                            *)
  predicted,
  world,      (* The snapshot applied last.                                *)
  announced,  (* AttackStarted events, by the attack's first tick, and     *)
  damage,     (* the sum of the PlayerHit events (history).                *)
  points,     (* The ticks in the InterpolationBuffer.                     *)
  renderTick,
  newest,     (* The newest snapshot polled (history).                     *)
  quiet       (* Frames since the last that had no snapshot of its own     *)
              (* (history).                                                *)

serverVars == <<tick, input, state>>
clientVars == <<moves, pending, predicted, world, announced, damage, points,
                renderTick, newest, quiet>>
vars == <<serverVars, down, arrived, clientVars>>

inputTick == Len(moves)
Snapshot(s, t) == [tick |-> t, position |-> s.position, acked |-> s.acked,
                   hp |-> s.hp, attack |-> s.attack]

InitialState == [position |-> 0, acked |-> 0, hp |-> MaxHP, attack |-> 0]

(* The MatchStart has been applied, its snapshot too.                      *)
Init ==
  /\ tick = 0 /\ input = 0 /\ state = InitialState
  /\ down = {} /\ arrived = << >>
  /\ moves = << >> /\ pending = << >> /\ predicted = 0
  /\ world = Snapshot(InitialState, 0)
  /\ announced = << >> /\ damage = 0
  /\ points = <<0>> /\ renderTick = 0
  /\ newest = world /\ quiet = 0

-----------------------------------------------------------------------------
(* The Room (see Room) and the network.                                    *)

Clamp(p) == Max({-Arena, Min({p, Arena})})
ApplyMovement(position, move) == Clamp(position + move)
MoveOf(t) == IF t = 0 THEN 0 ELSE moves[t]

(* SubmitInput: of the movement the newest counts.                         *)
SubmitInput ==
  /\ input' \in (input + 1)..inputTick
  /\ UNCHANGED <<tick, state, down, arrived, clientVars>>

(* tryDash, facing either way or along the other axis.                     *)
Dashes == {Clamp(state.position + facing * DashDistance) : facing \in -1..1}

(* Step and its snapshot. The last input is repeated until there is        *)
(* another; a player that dashes or was hit is not moved by it, and a hit  *)
(* ends an attack.                                                         *)
Attacks(hp) == IF hp = 0 \/ hp < state.hp THEN {0} ELSE {0, state.attack, tick'}

Step ==
  /\ tick < MaxTick /\ tick' = tick + 1
  /\ \E hp \in {state.hp, state.hp - 1} \cap Nat :
     \E attack \in Attacks(hp),
        position \in Dashes \cup {ApplyMovement(state.position, MoveOf(input))} :
       state' = [position |-> position, acked |-> input, hp |-> hp, attack |-> attack]
  /\ down' \in {n \in SUBSET (down \cup {Snapshot(state', tick')}) :
                  Cardinality(n) <= MaxInFlight}
  /\ UNCHANGED <<input, arrived, clientVars>>

(* ReceiveDatagram                                                         *)
Arrive ==
  /\ \E s \in down : down' = down \ {s} /\ arrived' = <<s>>
  /\ UNCHANGED <<serverVars, clientVars>>

-----------------------------------------------------------------------------
(* Prediction, InterpolationBuffer and MatchPresentation.                  *)

(* Where a player stands that makes these moves one after the other.       *)
Walk(position, path) ==
  LET at[k \in 0..Len(path)] ==
        IF k = 0 THEN position ELSE ApplyMovement(at[k - 1], path[k])
  IN  at[Len(path)]

Replay(position, ticks) == Walk(position, [i \in 1..Len(ticks) |-> moves'[ticks[i]]])

(* Acknowledged inputs are taken off the front.                            *)
Unacked(acked) ==
  LET taken == Max({n \in 0..Len(pending) : \A i \in 1..n : pending[i] <= acked})
  IN  SubSeq(pending, taken + 1, Len(pending))

(* Push                                                                    *)
Push(t) ==
  IF t <= Last(points) THEN points
  ELSE LET p == Append(points, t)
       IN  SubSeq(p, Max({1, Len(p) - Capacity + 1}), Len(p))

(* InterpolationBuffer::Advance                                            *)
Advance(elapsed) ==
  LET delayed == Max({0, Last(points') - DelayTicks})
  IN  Min({renderTick + elapsed, Max({points'[1], delayed})})

(* The tick whose position is drawn: a point, or one between two.          *)
Sample == Max({points[1], Min({renderTick, Last(points)})})

(* Mutant: every snapshot that shows an attack announces it. *)
AnnouncedEachTime(s) == IF s.attack # 0 THEN Append(announced, s.attack) ELSE announced

(* MatchPresentation::ApplySnapshot, against observed_, which is the       *)
(* world: an attack is announced when the first tick of the action is new, *)
(* damage when the hit points are fewer.                                   *)
Announced(s) ==
  IF s.attack \notin {0, world.attack} THEN Append(announced, s.attack) ELSE announced
Damage(s) == damage + Max({0, world.hp - s.hp})

-----------------------------------------------------------------------------
(* The controller and a frame of the main loop.                            *)

(* Mutant: overtaken snapshots are not ignored. *)
TakesAny(s) == TRUE

Takes(s) == s.tick >= world.tick

(* PollNetwork and its ApplySnapshot: what is left of pending, and the     *)
(* position that replays that.                                             *)
Poll(s) ==
  IF Takes(s)
  THEN /\ world' = s
       /\ points' = Push(s.tick)
       /\ announced' = Announced(s) /\ damage' = Damage(s)
       /\ newest' = IF s.tick > newest.tick THEN s ELSE newest
  ELSE UNCHANGED <<world, points, announced, damage, newest>>

PolledPending(s) == IF Takes(s) THEN Unacked(s.acked) ELSE pending
PolledPosition(s) ==
  IF Takes(s) THEN Replay(s.position, PolledPending(s)) ELSE predicted

(* n calls of FixedTick, each with the move the frame observed, on a       *)
(* position p and the pending inputs P.                                    *)
FixedTicks(n, p, P) ==
  LET new == [i \in 1..n |-> inputTick + i]
  IN  /\ pending' = P \o new
      /\ predicted' = Replay(p, new)

(* Observe: the keys of a frame, all its ticks have the same movement.     *)
Observe(n, m) == moves' = moves \o [i \in 1..n |-> m]

Quiet(elapsed) ==
  IF elapsed = 1 /\ arrived # << >> /\ Last(arrived).tick = world.tick + 1
  THEN Min({quiet + 1, MaxQuiet}) ELSE 0

Frame ==
  /\ \E elapsed \in 0..MaxElapsed, m \in Moves :
       /\ inputTick + elapsed <= MaxInput
       /\ Observe(elapsed, m)
       /\ IF arrived = << >>
          THEN /\ UNCHANGED <<world, points, announced, damage, newest>>
               /\ FixedTicks(elapsed, predicted, pending)
          ELSE LET s == Last(arrived)
               IN  /\ Poll(s)
                   /\ FixedTicks(elapsed, PolledPosition(s), PolledPending(s))
       /\ renderTick' = Advance(elapsed)
       /\ quiet' = Quiet(elapsed)
  /\ arrived' = << >>
  /\ UNCHANGED <<serverVars, down>>

Next == SubmitInput \/ Step \/ Arrive \/ Frame

Spec == Init /\ [][Next]_vars

-----------------------------------------------------------------------------
(* Properties.                                                             *)

(* The predicted position is what the newest snapshot says, followed by    *)
(* every input it does not acknowledge and by no other, whatever was lost, *)
(* delayed or overtaken (prediction.cpp:34-49, client-prediction.md:7-12). *)
PredictedFromNewest ==
  predicted = Walk(newest.position, SubSeq(moves, newest.acked + 1, inputTick))

(* The damage shown adds up to the hit points lost, and an attack is       *)
(* announced once, although several snapshots tell of either and others of *)
(* them are missing (match_presentation.cpp:51-67).                        *)
ShownOnce ==
  /\ damage = MaxHP - newest.hp
  /\ IsInjective(announced)
  /\ newest.attack # 0 => newest.attack \in ToSet(announced)

(* client-prediction.md:16-18: the opponent "рендерится на три server      *)
(* ticks позади" (is rendered three server ticks behind): so it is once    *)
(* MaxQuiet frames in a row had each a tick of their own and its snapshot. *)
CatchesUp == quiet = MaxQuiet => Last(points) - Sample <= DelayTicks

-----------------------------------------------------------------------------
(* What these rest on, proved in PlaybackProofs.                           *)

(* The Room's state, what is on its way and what was applied.              *)
Told == {Snapshot(state, tick), world} \cup down \cup ToSet(arrived)

(* Of two snapshots the later has no more hit points and acknowledges no   *)
(* less, and its attack, if it is another one, has begun since the         *)
(* earlier; one tick has one.                                              *)
Chain ==
  \A s, t \in Told :
    /\ s.tick <= t.tick =>
         /\ t.hp <= s.hp /\ s.acked <= t.acked
         /\ t.attack \in {0, s.attack} \/ t.attack > s.tick
    /\ s.tick = t.tick => s = t

TellsOnce ==
  /\ tick \in Nat /\ moves \in Seq(Moves) /\ input \in 0..inputTick
  /\ \A s \in Told : /\ s.tick \in 0..tick /\ s.acked \in 0..input
                    /\ s.hp \in 0..MaxHP /\ s.attack \in 0..s.tick
  /\ Chain
  /\ arrived = << >> \/ \E s \in Told : arrived = <<s>>

ShownSoFar ==
  /\ newest = world
  /\ announced \in Seq(Nat) /\ \A a \in ToSet(announced) : a <= world.tick
  /\ ShownOnce

(* The inputs after the newest snapshot's are pending, in order.           *)
Predicts ==
  /\ pending = [i \in 1..(inputTick - newest.acked) |-> newest.acked + i]
  /\ PredictedFromNewest

IndInv == TellsOnce /\ ShownSoFar /\ Predicts
=============================================================================
