-------------------------------- MODULE Room --------------------------------
(***************************************************************************)
(* The authoritative simulation of a duel: backend/internal/room/room.go.  *)
(*                                                                         *)
(* The room loop alone calls SubmitInput and Step, in any order. A queue   *)
(* of pending actions is the sequence of the commands' types in order of   *)
(* their sequence numbers; which sequence numbers are let in, and how they *)
(* are acknowledged, is module ActionDelivery. One SubmitInput brings at   *)
(* most one new command here: a datagram with several is several           *)
(* SubmitInputs without a Step in between.                                 *)
(***************************************************************************)
EXTENDS Integers, Sequences

CONSTANTS
  A, B, NoPlayer,                       (* The players; an empty WinnerID. *)
  CountdownTicks, MatchDurationTicks, InitialHP, MovementPerTick,
  AttackDepth, AttackHalfWidth, PlayerHalfExtent,
  MinX, MaxX, MinY, MaxY, SpawnAX, SpawnAY, SpawnBX, SpawnBY,
  DashCooldown, DashDistance,
  AttackCooldown, Windup, Active, Recovery, Damage,
  MaxPendingActions,
  Moves,          (* The raw movement axes, <<x, y>>, an input may carry.  *)
  ActionTypes     (* The types a command may carry, unknown ones included. *)

(* What NewWithRuleset demands, the unsigned types, and that the arena     *)
(* holds the spawn points, as it does in DefaultRuleset.                   *)
ASSUME RulesAssumption ==
  /\ A # B /\ NoPlayer \notin {A, B}
  /\ CountdownTicks \in Nat \ {0} /\ MatchDurationTicks \in Nat \ {0}
  /\ InitialHP \in Nat \ {0} /\ MovementPerTick \in Nat
  /\ {AttackDepth, AttackHalfWidth, PlayerHalfExtent, DashDistance} \subseteq Int
  /\ {MinX, MaxX, MinY, MaxY} \subseteq Int /\ MinX < MaxX /\ MinY < MaxY
  /\ {SpawnAX, SpawnBX} \subseteq MinX..MaxX
  /\ {SpawnAY, SpawnBY} \subseteq MinY..MaxY
  /\ {DashCooldown, AttackCooldown, Windup, Recovery} \subseteq Nat
  /\ Active \in Nat \ {0} /\ Damage \in Nat
  /\ MaxPendingActions \in Nat
  /\ Moves \subseteq Int \X Int

VARIABLES
  players,        (* Room.players, without ID and acknowledgements.        *)
  inputs,         (* Room.inputs: the movement in force, <<x, y>>.         *)
  pendingActions, (* Room.pendingActions.                                  *)
  attackFacing,   (* Room.attackFacing.                                    *)
  nextDashTick, nextAttackTick, tick, activeTicks,
  status, winnerID, finishReason,
  silent,         (* Players without any input since the countdown ended   *)
                  (* (history).                                            *)
  even            (* Both played mirror images so far (history).           *)

simulation == <<players, attackFacing, nextDashTick, nextAttackTick, tick,
                activeTicks, status, winnerID, finishReason>>
vars == <<simulation, inputs, pendingActions, silent, even>>

Players == {A, B}
Other(p) == IF p = A THEN B ELSE A

Still       == <<0, 0>>
ActionStates == {"idle", "move", "dash", "windup", "active", "recovery",
                 "hit", "ko"}
Axis     == -1..1
Facings  == {<<1, 0>>, <<-1, 0>>, <<0, 1>>, <<0, -1>>}
PlayerStates ==
  [x : MinX..MaxX, y : MinY..MaxY, hp : 0..InitialHP, facing : Facings,
   state : ActionStates, started : Nat, remaining : Nat]

Clamp(v, low, high) == IF v < low THEN low ELSE IF v > high THEN high ELSE v

ClampAxes(m) == <<Clamp(m[1], -1, 1), Clamp(m[2], -1, 1)>>

Spawned(x, y, right) ==
  [x |-> x, y |-> y, hp |-> InitialHP, facing |-> <<right, 0>>,
   state |-> "idle", started |-> 0, remaining |-> 0]
Spawn == [p \in Players |-> IF p = A THEN Spawned(SpawnAX, SpawnAY, 1)
                                     ELSE Spawned(SpawnBX, SpawnBY, -1)]

Init ==
  /\ players = Spawn
  /\ inputs = [p \in Players |-> Still]
  /\ pendingActions = [p \in Players |-> <<>>]
  /\ attackFacing = [p \in Players |-> Still]
  /\ nextDashTick = [p \in Players |-> 0]
  /\ nextAttackTick = [p \in Players |-> 0]
  /\ tick = 0 /\ activeTicks = 0
  /\ status = "countdown" /\ winnerID = NoPlayer /\ finishReason = "none"
  /\ silent = Players /\ even = TRUE

-----------------------------------------------------------------------------
(* SubmitInput. The loop has returned once the Room is finished.           *)

(* The queue after a command was sorted in, if there is room for it.       *)
Queued(queue, type) ==
  IF Len(queue) >= MaxPendingActions THEN {queue}
  ELSE {SubSeq(queue, 1, k) \o <<type>> \o SubSeq(queue, k + 1, Len(queue)) :
          k \in 0..Len(queue)}

SubmitInput(p) ==
  /\ status # "finished"
  /\ \/ \E m \in Moves : inputs' = [inputs EXCEPT ![p] = ClampAxes(m)]
     \/ UNCHANGED inputs                    (* an overtaken datagram       *)
  /\ \/ \E type \in ActionTypes : \E queue \in Queued(pendingActions[p], type) :
          pendingActions' = [pendingActions EXCEPT ![p] = queue]
     \/ UNCHANGED pendingActions            (* no new command              *)
  /\ silent' = IF status = "active" THEN silent \ {p} ELSE silent
  /\ UNCHANGED <<simulation, even>>

-----------------------------------------------------------------------------
(* The parts of an active Step, for one player s with movement m.          *)

Free(s)     == s.state \in {"idle", "move"}
InAttack(s) == s.state \in {"windup", "active", "recovery"}

(* setLocomotionState *)
Locomotion(s, m) ==
  [s EXCEPT !.state = IF m = Still THEN "idle" ELSE "move",
            !.started = 0, !.remaining = 0]

(* Mutant: every phase lasts one tick more. *)
AdvancedLate(s, m) ==
  CASE Free(s) \/ s.state = "ko" -> s
    [] ~ Free(s) /\ s.state # "ko" /\ s.remaining > 0 ->
         [s EXCEPT !.remaining = @ - 1]
    [] s.state = "windup" /\ s.remaining = 0 ->
         [s EXCEPT !.state = "active", !.remaining = Active]
    [] OTHER -> Locomotion(s, m)

(* advanceActionStates *)
Advanced(s, m) ==
  CASE Free(s) \/ s.state = "ko" -> s
    [] ~ Free(s) /\ s.state # "ko" /\ s.remaining > 1 ->
         [s EXCEPT !.remaining = @ - 1]
    [] s.state = "windup" /\ s.remaining <= 1 ->
         [s EXCEPT !.state = "active", !.remaining = Active]
    [] s.state = "active" /\ s.remaining <= 1 /\ Recovery > 0 ->
         [s EXCEPT !.state = "recovery", !.remaining = Recovery]
    [] OTHER -> Locomotion(s, m)

Magnitude(v) == IF v < 0 THEN -v ELSE v

(* updateFacing *)
Faced(s, m) ==
  [s EXCEPT !.facing =
     IF m = Still THEN @
     ELSE IF Magnitude(m[1]) >= Magnitude(m[2]) THEN <<m[1], 0>>
     ELSE <<0, m[2]>>]

Shifted(s, dx, dy) ==
  [s EXCEPT !.x = Clamp(@ + dx, MinX, MaxX), !.y = Clamp(@ + dy, MinY, MaxY)]

(* applyMovement *)
Moved(s, m) ==
  IF s.hp = 0 \/ s.state \in {"dash", "hit", "ko"} THEN s
  ELSE Shifted(IF Free(s) THEN Locomotion(Faced(s, m), m) ELSE s,
               m[1] * MovementPerTick, m[2] * MovementPerTick)

CanStart(s, type, dashTick, attackTick, now) ==
  /\ s.hp > 0 /\ Free(s)
  /\ \/ type = "dash" /\ now >= dashTick
     \/ type = "light_attack" /\ now >= attackTick

(* tryDash *)
Dashed(s, now) ==
  [Shifted(s, s.facing[1] * DashDistance, s.facing[2] * DashDistance)
     EXCEPT !.state = "dash", !.started = now, !.remaining = 1]

(* tryLightAttack *)
Attacking(s, now) ==
  [s EXCEPT !.state = IF Windup = 0 THEN "active" ELSE "windup",
            !.started = now,
            !.remaining = IF Windup = 0 THEN Active ELSE Windup]

(* The one command of the queue that has an effect in processActions: the  *)
(* first that can start. It leaves idle and move, so no later one can.     *)
FirstStart(queue, s, dashTick, attackTick, now) ==
  LET able == {k \in DOMAIN queue :
                 CanStart(s, queue[k], dashTick, attackTick, now)}
  IN IF able = {} THEN "none"
     ELSE queue[CHOOSE k \in able : \A j \in able : k <= j]

Acted(s, start, now) ==
  CASE start = "dash"         -> Dashed(s, now)
    [] start = "light_attack" -> Attacking(s, now)
    [] OTHER                  -> s

RangesOverlap(min1, max1, min2, max2) == min1 <= max2 /\ min2 <= max1

(* attackHitboxIntersects, along one axis: the depth lies in front of the  *)
(* attacker, the half width to both sides.                                 *)
Reaches(from, to, forward) ==
  CASE forward > 0 -> RangesOverlap(from, from + AttackDepth,
                                    to - PlayerHalfExtent, to + PlayerHalfExtent)
    [] forward < 0 -> RangesOverlap(from - AttackDepth, from,
                                    to - PlayerHalfExtent, to + PlayerHalfExtent)
    [] OTHER       -> RangesOverlap(from - AttackHalfWidth, from + AttackHalfWidth,
                                    to - PlayerHalfExtent, to + PlayerHalfExtent)

HitboxIntersects(s, t, facing) ==
  /\ Reaches(s.x, t.x, facing[1])
  /\ Reaches(s.y, t.y, IF facing[1] # 0 THEN 0
                       ELSE IF facing[2] > 0 THEN 1 ELSE -1)

(* applyActiveAttacks, for a struck player.                                *)
Struck(s, now) ==
  LET hp == IF s.hp > Damage THEN s.hp - Damage ELSE 0
  IN [s EXCEPT !.hp = hp, !.started = now,
               !.state = IF hp = 0 THEN "ko" ELSE "hit",
               !.remaining = IF hp = 0 THEN 0 ELSE 1]

(* The player a verdict names, from the lives they had left.               *)
Stronger(hp) ==
  CASE hp[A] > hp[B] -> A
    [] hp[B] > hp[A] -> B
    [] OTHER         -> NoPlayer

-----------------------------------------------------------------------------
(* Step.                                                                   *)

(* Mutant: the countdown's movement stays in force. *)
ActivateMoving ==
  /\ status' = "active"
  /\ nextDashTick' = [p \in Players |-> tick' + 1]
  /\ nextAttackTick' = [p \in Players |-> tick' + 1]
  /\ UNCHANGED inputs

Activate ==
  /\ status' = "active"
  /\ inputs' = [p \in Players |-> Still]
  /\ nextDashTick' = [p \in Players |-> tick' + 1]
  /\ nextAttackTick' = [p \in Players |-> tick' + 1]

StepCountdown ==
  /\ status = "countdown"
  /\ tick' = tick + 1
  /\ pendingActions' = [p \in Players |-> <<>>]
  /\ IF tick' >= CountdownTicks THEN Activate
     ELSE UNCHANGED <<status, inputs, nextDashTick, nextAttackTick>>
  /\ UNCHANGED <<players, attackFacing, activeTicks, winnerID, finishReason,
                 silent, even>>

(* Mutant: the time limit overrides a knockout of the same tick. *)
FinishLate(hp) ==
  CASE activeTicks' >= MatchDurationTicks ->
         /\ status' = "finished" /\ finishReason' = "time_limit"
         /\ winnerID' = Stronger(hp)
    [] activeTicks' < MatchDurationTicks /\ \E p \in Players : hp[p] = 0 ->
         /\ status' = "finished" /\ finishReason' = "ko"
         /\ winnerID' = Stronger(hp)
    [] OTHER -> UNCHANGED <<status, finishReason, winnerID>>

(* Mutant: the time limit is checked one tick late. *)
FinishOneLate(hp) ==
  CASE \E p \in Players : hp[p] = 0 ->
         /\ status' = "finished" /\ finishReason' = "ko"
         /\ winnerID' = Stronger(hp)
    [] (\A p \in Players : hp[p] # 0) /\ activeTicks' > MatchDurationTicks ->
         /\ status' = "finished" /\ finishReason' = "time_limit"
         /\ winnerID' = Stronger(hp)
    [] OTHER -> UNCHANGED <<status, finishReason, winnerID>>

(* finishFromKO, then finishFromTimeLimit.                                 *)
Finish(hp) ==
  CASE \E p \in Players : hp[p] = 0 ->
         /\ status' = "finished" /\ finishReason' = "ko"
         /\ winnerID' = Stronger(hp)
    [] (\A p \in Players : hp[p] # 0) /\ activeTicks' >= MatchDurationTicks ->
         /\ status' = "finished" /\ finishReason' = "time_limit"
         /\ winnerID' = Stronger(hp)
    [] OTHER -> UNCHANGED <<status, finishReason, winnerID>>

(* What the current Step makes of player p: where he is once he may act,   *)
(* the command that takes effect, and where that leaves him.               *)
Ready(p)   == Moved(Advanced(players[p], inputs[p]), inputs[p])
Start(p)   == FirstStart(pendingActions[p], Ready(p),
                         nextDashTick[p], nextAttackTick[p], tick + 1)
Reached(p) == Acted(Ready(p), Start(p), tick + 1)
Aim(p)     == IF Start(p) = "light_attack" THEN Ready(p).facing
                                           ELSE attackFacing[p]

(* Mutant: the attacks are applied in turn: who was hit does not hit back. *)
StrikesInTurn(p) ==
  LET hits(q) == /\ Reached(q).state = "active" /\ Damage > 0
                 /\ HitboxIntersects(Reached(q), Reached(Other(q)), Aim(q))
  IN hits(p) /\ (p = B => ~ hits(A))

(* Does p's attack hit, where both players are after acting?               *)
Strikes(p) ==
  /\ Reached(p).state = "active" /\ Damage > 0
  /\ HitboxIntersects(Reached(p), Reached(Other(p)), Aim(p))

Mirror(v) == <<-v[1], v[2]>>

StepActive ==
  /\ status = "active"
  /\ tick' = tick + 1
  /\ activeTicks' = activeTicks + 1
  /\ pendingActions' = [p \in Players |-> <<>>]
  /\ nextDashTick' = [p \in Players |->
       IF Start(p) = "dash" THEN tick + 1 + DashCooldown ELSE nextDashTick[p]]
  /\ nextAttackTick' = [p \in Players |->
       IF Start(p) = "light_attack" THEN tick + 1 + AttackCooldown
                                    ELSE nextAttackTick[p]]
  /\ attackFacing' = [p \in Players |-> Aim(p)]
  /\ players' = [p \in Players |->
       IF Strikes(Other(p)) THEN Struck(Reached(p), tick + 1) ELSE Reached(p)]
  /\ Finish([p \in Players |-> players'[p].hp])
  /\ even' = (/\ even /\ inputs[B] = Mirror(inputs[A])
              /\ pendingActions[A] = pendingActions[B])
  /\ UNCHANGED <<inputs, silent>>

Next == (\E p \in Players : SubmitInput(p)) \/ StepCountdown \/ StepActive

Spec == Init /\ [][Next]_vars

-----------------------------------------------------------------------------
(* Properties.                                                             *)

TypeOK ==
  /\ players \in [Players -> PlayerStates]
  /\ inputs \in [Players -> Axis \X Axis]
  /\ pendingActions \in [Players -> Seq(ActionTypes)]
  /\ attackFacing \in [Players -> Facings \cup {Still}]
  /\ nextDashTick \in [Players -> Nat]
  /\ nextAttackTick \in [Players -> Nat]
  /\ tick \in Nat /\ activeTicks \in Nat
  /\ status \in {"countdown", "active", "finished"}
  /\ winnerID \in Players \cup {NoPlayer}
  /\ finishReason \in {"none", "ko", "time_limit"}
  /\ silent \subseteq Players /\ even \in BOOLEAN

(* The snapshot alone tells where in its action a player is, so a client   *)
(* that lost every earlier one can show it (docs/network-protocol.md:38):  *)
(* start and remaining ticks fit the server tick and the ruleset's phase   *)
(* lengths, and the facing shown is the one the strike in progress uses.   *)
PhaseEnd(s, now) ==
  CASE s.state \in {"dash", "hit"} -> s.started + 1
    [] s.state = "windup"          -> s.started + Windup
    [] s.state = "active"          -> s.started + Windup + Active
    [] s.state = "recovery"        -> s.started + Windup + Active + Recovery
    [] OTHER                       -> now
InPhase(s, aim, now) ==
  /\ s.started <= now /\ s.remaining = PhaseEnd(s, now) - now
  /\ s.state \notin {"idle", "move", "ko"} => s.remaining > 0
  /\ Free(s) => s.started = 0
  /\ InAttack(s) => s.facing = aim
  /\ s.state = "active" => s.remaining <= Active
Timeline == \A p \in Players : InPhase(players[p], attackFacing[p], tick)

(* A duel ends exactly when somebody is down or time is up, somebody is    *)
(* down exactly if his life is zero, and the verdict follows from the      *)
(* lives left, whatever happened in the same tick.                         *)
VerdictFollowsLives ==
  /\ \A p \in Players : players[p].hp = 0 <=> players[p].state = "ko"
  /\ finishReason = "ko" <=> \E p \in Players : players[p].hp = 0
  /\ status = "finished" <=> finishReason # "none"
  /\ winnerID = IF status = "finished"
                THEN Stronger([p \in Players |-> players[p].hp]) ELSE NoPlayer

(* The Room's two clocks agree and the duel never outlives its limit.      *)
ClocksAgree ==
  /\ status = "countdown" => tick < CountdownTicks /\ activeTicks = 0
  /\ status # "countdown" => tick = CountdownTicks + activeTicks
  /\ status = "active" => activeTicks < MatchDurationTicks
  /\ activeTicks <= MatchDurationTicks

(* While an attack lasts, the cooldown still knows when it began.           *)
AttackClock ==
  \A p \in Players : InAttack(players[p]) =>
    nextAttackTick[p] = players[p].started + AttackCooldown

(* Nothing sent during the countdown leaks into the duel: a player who     *)
(* sends nothing afterwards stays where and as he was put (room.go:274).   *)
CountdownIsInert ==
  \A p \in silent :
    /\ players[p].state \in {"idle", "hit", "ko"}
    /\ \A f \in {"x", "y", "facing"} : players[p][f] = Spawn[p][f]

(* Until a silent player sends something, nothing is in force for him.     *)
Inert ==
  /\ status = "countdown" => players = Spawn /\ silent = Players
  /\ status = "active" =>
       \A p \in silent : inputs[p] = Still /\ pendingActions[p] = <<>>

IndInv == /\ TypeOK /\ Timeline /\ VerdictFollowsLives /\ ClocksAgree
          /\ AttackClock /\ CountdownIsInert /\ Inert

(* Life is lost only to an attack of the opponent in its active phase, so  *)
(* many ticks after it began, and once per tick: not before, not during    *)
(* recovery, and not to an attack that was interrupted.                    *)
DamageIsEarned ==
  [][\A p \in Players : players'[p].hp # players[p].hp =>
       LET begun == nextAttackTick'[Other(p)] - AttackCooldown
       IN /\ tick' - begun \in Windup..(Windup + Active - 1)
          /\ players[Other(p)].state # "hit" \/ begun = tick'
          /\ players'[p].hp = Clamp(players[p].hp - Damage, 0, InitialHP)]_vars

(* Neither place has an advantage: as long as both players play mirror     *)
(* images in a symmetric arena, they are each other's mirror image, and    *)
(* such a duel is a draw.                                                  *)
SymmetricArena ==
  MinX = -MaxX /\ SpawnBX = -SpawnAX /\ SpawnAY = SpawnBY
Evenhanded ==
  even /\ SymmetricArena =>
    /\ players[B] = [players[A] EXCEPT !.x = -@, !.facing = Mirror(@)]
    /\ winnerID = NoPlayer

(* What Evenhanded rests on: the clocks and the attacks under way are      *)
(* mirror images as well.                                                  *)
Images(s, t) ==
  /\ t.x = -s.x /\ t.facing = Mirror(s.facing)
  /\ \A f \in {"y", "hp", "state", "started", "remaining"} : t[f] = s[f]
Balanced ==
  even /\ SymmetricArena =>
    /\ Images(players[A], players[B]) /\ winnerID = NoPlayer
    /\ attackFacing[B] = Mirror(attackFacing[A])
    /\ nextDashTick[B] = nextDashTick[A] /\ nextAttackTick[B] = nextAttackTick[A]

(* The Room implements the duel that the match server runs.                *)
Shown == [tick |-> tick, status |-> status, winner |-> winnerID,
          reason |-> finishReason]
Abstract == INSTANCE Duel WITH room <- Shown
DuelKept == Abstract!DuelSpec
=============================================================================
