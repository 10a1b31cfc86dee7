----------------------------- MODULE RoomProofs -----------------------------
(***************************************************************************)
(* The Room for every ruleset that NewWithRuleset accepts: its types, the  *)
(* timeline its snapshots show, its verdict, and that it is a Duel.        *)
(***************************************************************************)
EXTENDS Room, TLAPS, NaturalsInduction, WellFoundedInduction

-----------------------------------------------------------------------------
(* The operators a Step is made of, on one player.                         *)

(* What is clamped lies between the bounds.                                *)
LEMMA ClampBounds ==
  ASSUME NEW v \in Int, NEW low \in Int, NEW high \in Int, low <= high
  PROVE  Clamp(v, low, high) \in low..high
BY DEF Clamp

(* What a client sends as its movement is cut to the three values of an    *)
(* axis.                                                                   *)
LEMMA ClampAxesType == ASSUME NEW m \in Int \X Int PROVE ClampAxes(m) \in Axis \X Axis
<1>1. m[1] \in Int /\ m[2] \in Int OBVIOUS
<1>2. Clamp(m[1], -1, 1) \in -1..1 /\ Clamp(m[2], -1, 1) \in -1..1
  BY <1>1 DEF Clamp
<1> QED BY <1>2 DEF ClampAxes, Axis

(* Idle and move are states without a clock.                               *)
LEMMA LocomotionType ==
  ASSUME NEW s \in PlayerStates, NEW m
  PROVE  /\ Locomotion(s, m) \in PlayerStates
         /\ Free(Locomotion(s, m))
         /\ Locomotion(s, m).hp = s.hp
         /\ Locomotion(s, m).started = 0 /\ Locomotion(s, m).remaining = 0
BY DEF Locomotion, PlayerStates, ActionStates, Free

(* A shift stays in the arena and changes the position alone.              *)
LEMMA ShiftedType ==
  ASSUME NEW s \in PlayerStates, NEW dx \in Int, NEW dy \in Int
  PROVE  /\ Shifted(s, dx, dy) \in PlayerStates
         /\ Shifted(s, dx, dy).hp = s.hp /\ Shifted(s, dx, dy).facing = s.facing
         /\ Shifted(s, dx, dy).state = s.state
         /\ Shifted(s, dx, dy).started = s.started
         /\ Shifted(s, dx, dy).remaining = s.remaining
<1>1. s.x \in Int /\ s.y \in Int BY RulesAssumption DEF PlayerStates
<1>2. /\ Clamp(s.x + dx, MinX, MaxX) \in MinX..MaxX
      /\ Clamp(s.y + dy, MinY, MaxY) \in MinY..MaxY
  <2>1. s.x + dx \in Int /\ s.y + dy \in Int BY <1>1
  <2>2. /\ MinX \in Int /\ MaxX \in Int /\ MinX <= MaxX
        /\ MinY \in Int /\ MaxY \in Int /\ MinY <= MaxY
    BY RulesAssumption
  <2> QED BY <2>1, <2>2, ClampBounds
<1> QED BY <1>2 DEF Shifted, PlayerStates

(* To face changes the facing alone.                                       *)
LEMMA FacedType ==
  ASSUME NEW s \in PlayerStates, NEW m \in Axis \X Axis
  PROVE  /\ Faced(s, m) \in PlayerStates
         /\ \A f \in {"x", "y", "hp", "state", "started", "remaining"} :
              Faced(s, m)[f] = s[f]
<1>1. m[1] \in -1..1 /\ m[2] \in -1..1 /\ m = <<m[1], m[2]>> BY DEF Axis
<1>2. CASE m = Still BY <1>2 DEF Faced, PlayerStates
<1>3. CASE m # Still /\ Magnitude(m[1]) >= Magnitude(m[2])
  <2>1. m[1] # 0 BY <1>1, <1>3 DEF Magnitude, Still
  <2>2. <<m[1], 0>> \in Facings BY <1>1, <2>1 DEF Facings
  <2> QED BY <1>3, <2>2 DEF Faced, PlayerStates
<1>4. CASE m # Still /\ ~ (Magnitude(m[1]) >= Magnitude(m[2]))
  <2>1. m[2] # 0 BY <1>1, <1>4 DEF Magnitude
  <2>2. <<0, m[2]>> \in Facings BY <1>1, <2>1 DEF Facings
  <2> QED BY <1>4, <2>2 DEF Faced, PlayerStates
<1> QED BY <1>2, <1>3, <1>4

(* advanceActionStates carries a player from one tick to the next.         *)
LEMMA AdvancedPhase ==
  ASSUME NEW s \in PlayerStates, NEW m, NEW aim, NEW now \in Nat,
         InPhase(s, aim, now)
  PROVE  /\ Advanced(s, m) \in PlayerStates
         /\ InPhase(Advanced(s, m), aim, now + 1)
         /\ Advanced(s, m).hp = s.hp
         /\ Advanced(s, m).state = "ko" <=> s.state = "ko"
         /\ InAttack(Advanced(s, m)) =>
              InAttack(s) /\ Advanced(s, m).started = s.started
<1> USE RulesAssumption DEF InAttack
<1>1. s.started \in Nat /\ s.remaining \in Nat /\ s.state \in ActionStates
  BY DEF PlayerStates
<1>2. CASE Free(s) \/ s.state = "ko"
  <2>1. Advanced(s, m) = s BY <1>2 DEF Advanced, Free
  <2> QED BY <1>1, <1>2, <2>1 DEF InPhase, PhaseEnd, Free
<1>3. CASE ~ Free(s) /\ s.state # "ko" /\ s.remaining > 1
  <2>1. Advanced(s, m) = [s EXCEPT !.remaining = s.remaining - 1]
    BY <1>1, <1>3 DEF Advanced, Free
  <2>2. Advanced(s, m) \in PlayerStates BY <1>1, <1>3, <2>1 DEF PlayerStates
  <2>3. /\ Advanced(s, m).remaining = s.remaining - 1
        /\ \A f \in {"hp", "facing", "state", "started"} : Advanced(s, m)[f] = s[f]
    BY <2>1 DEF PlayerStates
  <2>4. s.state \in {"windup", "active", "recovery"}
    BY <1>1, <1>3 DEF InPhase, PhaseEnd, Free, ActionStates
  <2> QED BY <1>1, <1>3, <2>2, <2>3, <2>4 DEF InPhase, PhaseEnd, Free
<1>4. CASE ~ Free(s) /\ s.state # "ko" /\ s.remaining <= 1 /\ s.state = "windup"
  <2>1. Advanced(s, m) = [s EXCEPT !.state = "active", !.remaining = Active]
    BY <1>1, <1>4 DEF Advanced, Free
  <2>2. Advanced(s, m) \in PlayerStates
    BY <2>1 DEF PlayerStates, ActionStates
  <2>3. /\ Advanced(s, m).remaining = Active /\ Advanced(s, m).state = "active"
        /\ \A f \in {"hp", "facing", "started"} : Advanced(s, m)[f] = s[f]
    BY <2>1 DEF PlayerStates
  <2>4. s.remaining = 1 /\ s.started + Windup = now + 1 /\ s.facing = aim
    BY <1>1, <1>4 DEF InPhase, PhaseEnd, Free
  <2> QED BY <1>1, <1>4, <2>2, <2>3, <2>4 DEF InPhase, PhaseEnd, Free
<1>5. CASE /\ ~ Free(s) /\ s.state # "ko" /\ s.remaining <= 1
           /\ s.state = "active" /\ Recovery > 0
  <2>1. Advanced(s, m) = [s EXCEPT !.state = "recovery", !.remaining = Recovery]
    BY <1>1, <1>5 DEF Advanced, Free
  <2>2. Advanced(s, m) \in PlayerStates
    BY <2>1 DEF PlayerStates, ActionStates
  <2>3. /\ Advanced(s, m).remaining = Recovery /\ Advanced(s, m).state = "recovery"
        /\ \A f \in {"hp", "facing", "started"} : Advanced(s, m)[f] = s[f]
    BY <2>1 DEF PlayerStates
  <2>4. /\ s.remaining = 1 /\ s.started + Windup + Active = now + 1
        /\ s.facing = aim
    BY <1>1, <1>5 DEF InPhase, PhaseEnd, Free
  <2> QED BY <1>1, <1>5, <2>2, <2>3, <2>4 DEF InPhase, PhaseEnd, Free
<1>6. CASE /\ ~ Free(s) /\ s.state # "ko" /\ s.remaining <= 1
           /\ s.state # "windup" /\ ~ (s.state = "active" /\ Recovery > 0)
  <2>1. Advanced(s, m) = Locomotion(s, m) BY <1>1, <1>6 DEF Advanced, Free
  <2> QED BY <1>6, <2>1, LocomotionType DEF InPhase, PhaseEnd, Free
<1> QED BY <1>1, <1>2, <1>3, <1>4, <1>5, <1>6

(* applyMovement moves a player within the arena and within his phase.     *)
LEMMA MovedPhase ==
  ASSUME NEW s \in PlayerStates, NEW m \in Axis \X Axis, NEW aim,
         NEW now \in Nat, InPhase(s, aim, now)
  PROVE  /\ Moved(s, m) \in PlayerStates
         /\ InPhase(Moved(s, m), aim, now)
         /\ Moved(s, m).hp = s.hp
         /\ Moved(s, m).state = "ko" <=> s.state = "ko"
         /\ InAttack(Moved(s, m)) => InAttack(s) /\ Moved(s, m).started = s.started
<1> USE RulesAssumption DEF InAttack
<1>1. s.started \in Nat /\ s.remaining \in Nat /\ s.state \in ActionStates
  BY DEF PlayerStates
<1> DEFINE dx == m[1] * MovementPerTick
           dy == m[2] * MovementPerTick
           base == IF Free(s) THEN Locomotion(Faced(s, m), m) ELSE s
<1>2. dx \in Int /\ dy \in Int
  <2>1. m[1] \in {-1, 0, 1} /\ m[2] \in {-1, 0, 1} BY DEF Axis
  <2> QED BY <2>1
<1>3. /\ base \in PlayerStates /\ base.hp = s.hp
      /\ InPhase(base, aim, now)
      /\ base.state = "ko" <=> s.state = "ko"
      /\ InAttack(base) => InAttack(s) /\ base.started = s.started
  <2>1. CASE Free(s)
    <3>1. Faced(s, m) \in PlayerStates /\ Faced(s, m).hp = s.hp
      BY FacedType
    <3>2. base = Locomotion(Faced(s, m), m) BY <2>1
    <3> HIDE DEF base
    <3> QED BY <1>1, <2>1, <3>1, <3>2, LocomotionType DEF InPhase, PhaseEnd, Free
  <2>2. CASE ~ Free(s) BY <2>2
  <2> QED BY <2>1, <2>2
<1> HIDE DEF base, dx, dy
<1>4. CASE s.hp = 0 \/ s.state \in {"dash", "hit", "ko"}
  <2>1. Moved(s, m) = s BY <1>4 DEF Moved
  <2> QED BY <2>1
<1>5. CASE ~ (s.hp = 0 \/ s.state \in {"dash", "hit", "ko"})
  <2>1. Moved(s, m) = Shifted(base, dx, dy) BY <1>5 DEF Moved, base, dx, dy
  <2>2. /\ Moved(s, m) \in PlayerStates
        /\ Moved(s, m).hp = base.hp /\ Moved(s, m).facing = base.facing
        /\ Moved(s, m).state = base.state /\ Moved(s, m).started = base.started
        /\ Moved(s, m).remaining = base.remaining
    BY <1>2, <1>3, <2>1, ShiftedType
  <2> QED BY <1>3, <2>2 DEF InPhase, PhaseEnd, Free
<1> QED BY <1>4, <1>5

(* What takes effect in processActions can start, or nothing does.         *)
LEMMA FirstStartCan ==
  ASSUME NEW queue \in Seq(ActionTypes), NEW s, NEW d, NEW a, NEW now
  PROVE  \/ FirstStart(queue, s, d, a, now) = "none"
         \/ CanStart(s, FirstStart(queue, s, d, a, now), d, a, now)
<1> DEFINE able == {k \in DOMAIN queue : CanStart(s, queue[k], d, a, now)}
           R == OpToRel(<, Nat)
<1>1. CASE able = {} BY <1>1 DEF FirstStart
<1>2. CASE able # {}
  <2>1. able \subseteq Nat OBVIOUS
  <2>2. \E k \in able : \A j \in able : ~ (<<j, k>> \in R)
    BY <1>2, <2>1, NatLessThanWellFounded, WFMin
  <2>3. PICK k \in able : \A j \in able : ~ (<<j, k>> \in R) BY <2>2
  <2>4. \A j \in able : k <= j
    <3> TAKE j \in able
    <3>1. ~ (j < k) BY <2>1, <2>3 DEF OpToRel
    <3> QED BY <2>1, <3>1
  <2> DEFINE first == CHOOSE i \in able : \A j \in able : i <= j
  <2>5. first \in able BY <2>4
  <2>6. FirstStart(queue, s, d, a, now) = queue[first] BY <1>2 DEF FirstStart
  <2> QED BY <2>5, <2>6
<1> QED BY <1>1, <1>2

(* A dash begins now, for one tick, and costs no hit points.               *)
LEMMA DashedType ==
  ASSUME NEW s \in PlayerStates, NEW now \in Nat
  PROVE  /\ Dashed(s, now) \in PlayerStates
         /\ Dashed(s, now).state = "dash" /\ Dashed(s, now).started = now
         /\ Dashed(s, now).remaining = 1 /\ Dashed(s, now).hp = s.hp
<1> DEFINE dx == s.facing[1] * DashDistance
           dy == s.facing[2] * DashDistance
<1>1. dx \in Int /\ dy \in Int
  <2>1. s.facing[1] \in {-1, 0, 1} /\ s.facing[2] \in {-1, 0, 1}
    BY DEF PlayerStates, Facings
  <2>2. DashDistance \in Int BY RulesAssumption
  <2> QED BY <2>1, <2>2
<1> HIDE DEF dx, dy
<1>2. PICK there \in PlayerStates :
        there = Shifted(s, dx, dy) /\ there.hp = s.hp
  BY <1>1, ShiftedType
<1>3. Dashed(s, now) = [there EXCEPT !.state = "dash", !.started = now,
                                     !.remaining = 1]
  BY <1>2 DEF Dashed, dx, dy
<1>4. "dash" \in ActionStates BY DEF ActionStates
<1>5. Dashed(s, now) \in PlayerStates
  <2>1. \A t \in PlayerStates :
          [t EXCEPT !.state = "dash", !.started = now, !.remaining = 1]
            \in PlayerStates
    BY RulesAssumption DEF PlayerStates, ActionStates
  <2> QED BY <1>2, <1>3, <2>1
<1>6. Dashed(s, now).state = "dash" BY <1>3 DEF PlayerStates
<1>7. Dashed(s, now).started = now BY <1>3 DEF PlayerStates
<1>8. Dashed(s, now).remaining = 1 BY <1>3 DEF PlayerStates
<1>9. Dashed(s, now).hp = s.hp BY <1>2, <1>3 DEF PlayerStates
<1> QED BY <1>5, <1>6, <1>7, <1>8, <1>9

(* Starting a dash or an attack begins its timeline at this tick.          *)
LEMMA ActedPhase ==
  ASSUME NEW s \in PlayerStates, NEW start, NEW aim, NEW now \in Nat,
         NEW d, NEW a, InPhase(s, aim, now),
         start = "none" \/ CanStart(s, start, d, a, now)
  PROVE  LET to == Acted(s, start, now)
             goal == IF start = "light_attack" THEN s.facing ELSE aim
         IN /\ to \in PlayerStates /\ InPhase(to, goal, now)
            /\ to.hp = s.hp /\ (to.state = "ko" <=> s.state = "ko")
            /\ InAttack(to) =>
                 to.started = IF start = "light_attack" THEN now ELSE s.started
            /\ InAttack(to) => start = "light_attack" \/ InAttack(s)
<1> USE RulesAssumption DEF InAttack
<1>1. s.started \in Nat /\ s.remaining \in Nat /\ s.state \in ActionStates
  BY DEF PlayerStates
<1>2. CASE start = "dash"
  <2>1. Acted(s, start, now) = Dashed(s, now) BY <1>2 DEF Acted
  <2>2. s.state # "ko" BY <1>2 DEF CanStart, Free
  <2>3. /\ Dashed(s, now) \in PlayerStates
        /\ Dashed(s, now).state = "dash" /\ Dashed(s, now).started = now
        /\ Dashed(s, now).remaining = 1 /\ Dashed(s, now).hp = s.hp
    BY DashedType
  <2>4. InPhase(Dashed(s, now), aim, now)
    BY <2>3 DEF InPhase, PhaseEnd, Free
  <2> QED BY <1>2, <2>1, <2>2, <2>3, <2>4
<1>3. CASE start = "light_attack"
  <2>1. Acted(s, start, now) = Attacking(s, now) BY <1>3 DEF Acted
  <2>2. /\ Attacking(s, now) \in PlayerStates
        /\ Attacking(s, now).state = IF Windup = 0 THEN "active" ELSE "windup"
        /\ Attacking(s, now).started = now
        /\ Attacking(s, now).remaining = IF Windup = 0 THEN Active ELSE Windup
        /\ Attacking(s, now).hp = s.hp /\ Attacking(s, now).facing = s.facing
    BY DEF Attacking, PlayerStates, ActionStates
  <2>3. s.state # "ko" BY <1>3 DEF CanStart, Free
  <2> QED BY <1>3, <2>1, <2>2, <2>3 DEF InPhase, PhaseEnd, Free
<1>4. CASE start \notin {"dash", "light_attack"}
  <2>1. Acted(s, start, now) = s BY <1>4 DEF Acted
  <2> QED BY <1>4, <2>1
<1> QED BY <1>2, <1>3, <1>4

(* A struck player is hit or down, as his life says.                       *)
LEMMA StruckPhase ==
  ASSUME NEW s \in PlayerStates, NEW aim, NEW now \in Nat
  PROVE  /\ Struck(s, now) \in PlayerStates
         /\ InPhase(Struck(s, now), aim, now)
         /\ Struck(s, now).hp = 0 <=> Struck(s, now).state = "ko"
         /\ Struck(s, now).hp = Clamp(s.hp - Damage, 0, InitialHP)
         /\ ~ InAttack(Struck(s, now))
<1> USE RulesAssumption DEF InAttack
<1> DEFINE hp == IF s.hp > Damage THEN s.hp - Damage ELSE 0
<1>1. hp \in 0..InitialHP BY DEF PlayerStates
<1>2. /\ Struck(s, now) \in PlayerStates
      /\ Struck(s, now).hp = hp /\ Struck(s, now).started = now
      /\ Struck(s, now).state = (IF hp = 0 THEN "ko" ELSE "hit")
      /\ Struck(s, now).remaining = (IF hp = 0 THEN 0 ELSE 1)
  BY <1>1 DEF Struck, PlayerStates, ActionStates
<1>3. hp = Clamp(s.hp - Damage, 0, InitialHP) BY DEF PlayerStates, Clamp
<1> HIDE DEF hp
<1> QED BY <1>1, <1>2, <1>3 DEF InPhase, PhaseEnd, Free

-----------------------------------------------------------------------------
(* Where an active Step leaves one player before the attacks are applied.  *)

NextClock(p) == IF Start(p) = "light_attack" THEN tick + 1 + AttackCooldown
                                             ELSE nextAttackTick[p]

(* After its action has advanced a player is in the phase its clock says,  *)
(* and an attack is the one it was in.                                     *)
LEMMA ReadyPhase ==
  ASSUME TypeOK, Timeline, NEW p \in Players
  PROVE  /\ Ready(p) \in PlayerStates
         /\ InPhase(Ready(p), attackFacing[p], tick + 1)
         /\ Ready(p).hp = players[p].hp
         /\ Ready(p).state = "ko" <=> players[p].state = "ko"
         /\ InAttack(Ready(p)) =>
              InAttack(players[p]) /\ Ready(p).started = players[p].started
<1> DEFINE s == players[p]
           m == inputs[p]
           r == Advanced(s, m)
<1>1. /\ s \in PlayerStates /\ m \in Axis \X Axis /\ tick \in Nat
      /\ tick + 1 \in Nat /\ InPhase(s, attackFacing[p], tick)
  BY DEF TypeOK, Timeline
<1>2. Ready(p) = Moved(r, m) BY DEF Ready
<1> HIDE DEF s, m
<1>3. /\ r \in PlayerStates /\ InPhase(r, attackFacing[p], tick + 1)
      /\ r.hp = s.hp /\ (r.state = "ko" <=> s.state = "ko")
      /\ InAttack(r) => InAttack(s) /\ r.started = s.started
  BY <1>1, AdvancedPhase
<1> HIDE DEF r
<1>4. /\ Moved(r, m) \in PlayerStates
      /\ InPhase(Moved(r, m), attackFacing[p], tick + 1)
      /\ Moved(r, m).hp = r.hp /\ (Moved(r, m).state = "ko" <=> r.state = "ko")
      /\ InAttack(Moved(r, m)) => InAttack(r) /\ Moved(r, m).started = r.started
  BY <1>1, <1>3, MovedPhase
<1> QED BY <1>2, <1>3, <1>4 DEF s

(* What processActions starts could be started.                            *)
LEMMA StartCan ==
  ASSUME TypeOK, NEW p \in Players
  PROVE  Start(p) = "none" \/ CanStart(Ready(p), Start(p), nextDashTick[p],
                                       nextAttackTick[p], tick + 1)
<1>1. pendingActions[p] \in Seq(ActionTypes) BY DEF TypeOK
<1> QED BY <1>1, FirstStartCan DEF Start

(* After its own action a player is in phase for its new aim, and an       *)
(* attack dates from its cooldown.                                         *)
LEMMA ReachedPhase ==
  ASSUME TypeOK, Timeline, AttackClock, NEW p \in Players
  PROVE  /\ Reached(p) \in PlayerStates
         /\ InPhase(Reached(p), Aim(p), tick + 1)
         /\ Reached(p).hp = players[p].hp
         /\ Reached(p).state = "ko" <=> players[p].state = "ko"
         /\ InAttack(Reached(p)) =>
              NextClock(p) = Reached(p).started + AttackCooldown
<1> DEFINE r == Ready(p)
           q == Start(p)
           to == Acted(r, q, tick + 1)
<1>1. tick + 1 \in Nat BY DEF TypeOK
<1>2. /\ r \in PlayerStates /\ InPhase(r, attackFacing[p], tick + 1)
      /\ r.hp = players[p].hp /\ (r.state = "ko" <=> players[p].state = "ko")
      /\ InAttack(r) => InAttack(players[p]) /\ r.started = players[p].started
  BY ReadyPhase
<1>3. q = "none" \/ CanStart(r, q, nextDashTick[p], nextAttackTick[p], tick + 1)
  BY StartCan
<1>4. Reached(p) = to BY DEF Reached
<1>5. Aim(p) = IF q = "light_attack" THEN r.facing ELSE attackFacing[p] BY DEF Aim
<1>6. NextClock(p) = IF q = "light_attack" THEN tick + 1 + AttackCooldown
                                           ELSE nextAttackTick[p]
  BY DEF NextClock
<1> HIDE DEF r, q
<1>7. /\ to \in PlayerStates
      /\ InPhase(to, IF q = "light_attack" THEN r.facing ELSE attackFacing[p],
                 tick + 1)
      /\ to.hp = r.hp /\ (to.state = "ko" <=> r.state = "ko")
      /\ InAttack(to) =>
           to.started = IF q = "light_attack" THEN tick + 1 ELSE r.started
      /\ InAttack(to) => q = "light_attack" \/ InAttack(r)
  BY <1>1, <1>2, <1>3, ActedPhase
<1> HIDE DEF to
<1>8. InAttack(to) => NextClock(p) = to.started + AttackCooldown
  BY <1>2, <1>6, <1>7 DEF AttackClock
<1> QED BY <1>2, <1>4, <1>5, <1>7, <1>8

(* What an active Step makes of one player: struck or not.                 *)
LEMMA StepPlayer ==
  ASSUME TypeOK, Timeline, AttackClock, StepActive, NEW p \in Players
  PROVE  /\ players'[p] \in PlayerStates
         /\ InPhase(players'[p], attackFacing'[p], tick')
         /\ InAttack(players'[p]) =>
              nextAttackTick'[p] = players'[p].started + AttackCooldown
         /\ (players[p].hp = 0 <=> players[p].state = "ko") =>
              (players'[p].hp = 0 <=> players'[p].state = "ko")
         /\ players'[p].hp # players[p].hp =>
              /\ Strikes(Other(p))
              /\ players'[p].hp = Clamp(players[p].hp - Damage, 0, InitialHP)
<1>1. tick' = tick + 1 /\ tick + 1 \in Nat BY DEF StepActive, TypeOK
<1>2. /\ attackFacing'[p] = Aim(p) /\ nextAttackTick'[p] = NextClock(p)
      /\ players'[p] = IF Strikes(Other(p)) THEN Struck(Reached(p), tick + 1)
                                            ELSE Reached(p)
  BY DEF StepActive, NextClock
<1> DEFINE r == Reached(p)
<1>3. /\ r \in PlayerStates /\ InPhase(r, Aim(p), tick + 1)
      /\ r.hp = players[p].hp /\ (r.state = "ko" <=> players[p].state = "ko")
      /\ InAttack(r) => NextClock(p) = r.started + AttackCooldown
  BY ReachedPhase
<1> HIDE DEF r
<1>4. CASE Strikes(Other(p))
  <2>1. players'[p] = Struck(r, tick + 1) BY <1>2, <1>4 DEF r
  <2>2. /\ Struck(r, tick + 1) \in PlayerStates
        /\ InPhase(Struck(r, tick + 1), Aim(p), tick + 1)
        /\ Struck(r, tick + 1).hp = 0 <=> Struck(r, tick + 1).state = "ko"
        /\ Struck(r, tick + 1).hp = Clamp(r.hp - Damage, 0, InitialHP)
        /\ ~ InAttack(Struck(r, tick + 1))
    BY <1>1, <1>3, StruckPhase
  <2> QED BY <1>1, <1>2, <1>3, <1>4, <2>1, <2>2
<1>5. CASE ~ Strikes(Other(p))
  <2>1. players'[p] = r BY <1>2, <1>5 DEF r
  <2> QED BY <1>1, <1>2, <1>3, <2>1
<1> QED BY <1>4, <1>5

-----------------------------------------------------------------------------
(* A player for whom nothing is in force stays as he is.                   *)

(* A player who is idle or struck and does nothing stays where it is,      *)
(* whatever runs out.                                                      *)
LEMMA StillReady ==
  ASSUME NEW s \in PlayerStates, NEW aim, NEW now \in Nat, InPhase(s, aim, now),
         s.state \in {"idle", "hit"}, s.hp # 0
  PROVE  LET to == Moved(Advanced(s, Still), Still)
         IN to.state = "idle" /\ to.x = s.x /\ to.y = s.y /\ to.facing = s.facing
<1> DEFINE r == Advanced(s, Still)
<1>1. /\ r \in PlayerStates /\ r.state = "idle" /\ r.hp = s.hp
      /\ r.x = s.x /\ r.y = s.y /\ r.facing = s.facing
  <2>1. CASE s.state = "idle"
    <3>1. r = s BY <2>1 DEF Advanced, Free
    <3> QED BY <2>1, <3>1
  <2>2. CASE s.state = "hit"
    <3>1. s.started \in Nat /\ s.remaining \in Nat BY DEF PlayerStates
    <3>2. s.remaining <= 1 BY <2>2, <3>1 DEF InPhase, PhaseEnd
    <3>3. r = Locomotion(s, Still) BY <2>2, <3>1, <3>2 DEF Advanced, Free
    <3>4. r \in PlayerStates /\ r.hp = s.hp BY <3>3, LocomotionType
    <3>5. r.state = "idle" /\ r.x = s.x /\ r.y = s.y /\ r.facing = s.facing
      BY <3>3 DEF Locomotion, PlayerStates
    <3> QED BY <3>4, <3>5
  <2> QED BY <2>1, <2>2
<1> HIDE DEF r
<1> DEFINE f == Faced(r, Still)
           b == Locomotion(f, Still)
<1>2. Still \in Axis \X Axis BY DEF Still, Axis
<1>3. f \in PlayerStates /\ f.x = r.x /\ f.y = r.y BY <1>1, <1>2, FacedType
<1>4. f.facing = r.facing BY <1>1 DEF Faced, PlayerStates
<1> HIDE DEF f
<1>5. /\ b.state = "idle" /\ b.x = f.x /\ b.y = f.y /\ b.facing = f.facing
  BY <1>3 DEF Locomotion, PlayerStates
<1>6. b \in PlayerStates BY <1>3, LocomotionType
<1>7. Moved(r, Still) = Shifted(b, 0, 0)
  <2>1. Still[1] * MovementPerTick = 0 /\ Still[2] * MovementPerTick = 0
    BY RulesAssumption DEF Still
  <2> QED BY <1>1, <2>1 DEF Moved, Free, f
<1> HIDE DEF b
<1>8. Clamp(b.x + 0, MinX, MaxX) = b.x /\ Clamp(b.y + 0, MinY, MaxY) = b.y
  <2>1. MinX \in Int /\ MaxX \in Int /\ MinY \in Int /\ MaxY \in Int
    BY RulesAssumption
  <2>2. b.x \in MinX..MaxX /\ b.y \in MinY..MaxY BY <1>6 DEF PlayerStates
  <2> QED BY <2>1, <2>2 DEF Clamp
<1>9. /\ Shifted(b, 0, 0).x = b.x /\ Shifted(b, 0, 0).y = b.y
      /\ Shifted(b, 0, 0).state = b.state /\ Shifted(b, 0, 0).facing = b.facing
  BY <1>6, <1>8 DEF Shifted, PlayerStates
<1>10. Moved(r, Still).state = "idle" /\ Moved(r, Still).x = s.x
       /\ Moved(r, Still).y = s.y /\ Moved(r, Still).facing = s.facing
  BY <1>1, <1>3, <1>4, <1>5, <1>7, <1>9
<1> QED BY <1>10 DEF r

(* A player who has never sent anything stands on its spawn point after a  *)
(* tick too.                                                               *)
LEMMA StepSilent ==
  ASSUME IndInv, StepActive, NEW p \in silent
  PROVE  /\ players'[p].state \in {"idle", "hit", "ko"}
         /\ players'[p].x = Spawn[p].x /\ players'[p].y = Spawn[p].y
         /\ players'[p].facing = Spawn[p].facing
<1> DEFINE s == players[p]
           r == Reached(p)
<1>1. /\ p \in Players /\ s \in PlayerStates /\ tick \in Nat
      /\ InPhase(s, attackFacing[p], tick) /\ status = "active"
      /\ inputs[p] = Still /\ pendingActions[p] = <<>>
  BY DEF IndInv, TypeOK, Timeline, Inert, StepActive
<1>2. s.hp # 0 /\ s.state # "ko"
  BY <1>1 DEF IndInv, VerdictFollowsLives
<1>3. /\ s.state \in {"idle", "hit", "ko"}
      /\ s.x = Spawn[p].x /\ s.y = Spawn[p].y /\ s.facing = Spawn[p].facing
  BY DEF IndInv, CountdownIsInert
<1>4. Ready(p) = Moved(Advanced(s, Still), Still) BY <1>1 DEF Ready
<1> HIDE DEF s
<1>5. /\ Ready(p).state = "idle" /\ Ready(p).x = s.x /\ Ready(p).y = s.y
      /\ Ready(p).facing = s.facing
  BY <1>1, <1>2, <1>3, <1>4, StillReady
<1>6. Start(p) = "none" BY <1>1 DEF Start, FirstStart
<1>7. r = Ready(p) BY <1>6 DEF Reached, Acted
<1>8. r \in PlayerStates BY <1>1, ReachedPhase DEF IndInv
<1>9. players'[p] = r \/ players'[p] = Struck(r, tick + 1)
  BY <1>1 DEF StepActive
<1> HIDE DEF r
<1>10. CASE players'[p] = r BY <1>3, <1>5, <1>7, <1>10
<1>11. CASE players'[p] = Struck(r, tick + 1)
  <2>1. /\ players'[p].state \in {"hit", "ko"} /\ players'[p].x = r.x
        /\ players'[p].y = r.y /\ players'[p].facing = r.facing
    BY <1>8, <1>11 DEF Struck, PlayerStates
  <2> QED BY <1>3, <1>5, <1>7, <2>1
<1> QED BY <1>9, <1>10, <1>11

-----------------------------------------------------------------------------
(* The inductive invariant.                                                *)

(* The players the Room begins with are idle, at full strength.            *)
LEMMA SpawnType ==
  /\ Spawn \in [Players -> PlayerStates]
  /\ \A p \in Players : /\ Spawn[p].state = "idle" /\ Spawn[p].hp = InitialHP
                        /\ Spawn[p].started = 0 /\ Spawn[p].remaining = 0
<1>1. InitialHP \in 0..InitialHP BY RulesAssumption
<1>2. /\ SpawnAX \in MinX..MaxX /\ SpawnAY \in MinY..MaxY
      /\ SpawnBX \in MinX..MaxX /\ SpawnBY \in MinY..MaxY
  BY RulesAssumption
<1>3. /\ Spawned(SpawnAX, SpawnAY, 1) \in PlayerStates
      /\ Spawned(SpawnBX, SpawnBY, -1) \in PlayerStates
  BY <1>1, <1>2 DEF Spawned, PlayerStates, ActionStates, Facings
<1> QED BY <1>3 DEF Spawn, Spawned

(* A new Room satisfies the inductive invariant.                           *)
LEMMA RoomInit == Init => IndInv
<1> SUFFICES ASSUME Init PROVE IndInv
  OBVIOUS
<1> USE DEF Init
<1>1. TypeOK
  <2>1. \A p \in Players : <<>> \in Seq(ActionTypes) /\ Still \in Axis \X Axis
    BY DEF Still, Axis
  <2> QED BY <2>1, SpawnType DEF TypeOK
<1>2. Timeline
  BY SpawnType DEF Timeline, InPhase, PhaseEnd, Free, InAttack
<1>3. VerdictFollowsLives
  BY SpawnType, RulesAssumption DEF VerdictFollowsLives
<1>4. ClocksAgree BY RulesAssumption DEF ClocksAgree
<1>5. AttackClock BY SpawnType DEF AttackClock, InAttack
<1>6. CountdownIsInert BY SpawnType DEF CountdownIsInert
<1>7. Inert BY DEF Inert
<1> QED BY <1>1, <1>2, <1>3, <1>4, <1>5, <1>6, <1>7 DEF IndInv

(* An input that is accepted or refused keeps it.                          *)
LEMMA SubmitInputInv ==
  ASSUME IndInv, NEW p \in Players, SubmitInput(p) PROVE IndInv'
<1> USE DEF IndInv, SubmitInput, simulation
<1>1. inputs' \in [Players -> Axis \X Axis]
  <2>1. CASE UNCHANGED inputs BY <2>1 DEF TypeOK
  <2>2. ASSUME NEW m \in Moves, inputs' = [inputs EXCEPT ![p] = ClampAxes(m)]
        PROVE  inputs' \in [Players -> Axis \X Axis]
    <3>1. m \in Int \X Int BY RulesAssumption
    <3>2. ClampAxes(m) \in Axis \X Axis BY <3>1, ClampAxesType
    <3> QED BY <2>2, <3>2 DEF TypeOK
  <2> QED BY <2>1, <2>2
<1>2. pendingActions' \in [Players -> Seq(ActionTypes)]
  <2>1. CASE UNCHANGED pendingActions BY <2>1 DEF TypeOK
  <2>2. ASSUME NEW type \in ActionTypes,
               NEW queue \in Queued(pendingActions[p], type)
        PROVE  queue \in Seq(ActionTypes)
    <3> DEFINE q == pendingActions[p]
    <3>1. q \in Seq(ActionTypes) BY DEF TypeOK
    <3> HIDE DEF q
    <3>2. CASE queue = q BY <3>1, <3>2
    <3>3. ASSUME NEW k \in 0..Len(q),
                 queue = SubSeq(q, 1, k) \o <<type>> \o SubSeq(q, k + 1, Len(q))
          PROVE  queue \in Seq(ActionTypes)
      <4>1. SubSeq(q, 1, k) \in Seq(ActionTypes) BY <3>1
      <4>2. SubSeq(q, k + 1, Len(q)) \in Seq(ActionTypes) BY <3>1
      <4>3. <<type>> \in Seq(ActionTypes) OBVIOUS
      <4> QED BY <3>3, <4>1, <4>2, <4>3
    <3> QED BY <2>2, <3>2, <3>3 DEF Queued, q
  <2> QED BY <2>1, <2>2 DEF TypeOK
<1>3. TypeOK' BY <1>1, <1>2 DEF TypeOK
<1>4. Timeline' /\ VerdictFollowsLives' /\ ClocksAgree' /\ AttackClock'
  BY DEF Timeline, InPhase, PhaseEnd, VerdictFollowsLives, ClocksAgree, AttackClock
<1>5. silent' \subseteq silent OBVIOUS
<1>6. CountdownIsInert' BY <1>5 DEF CountdownIsInert
<1>7. Inert'
  <2>1. CASE status = "countdown" BY <2>1 DEF Inert
  <2>2. ASSUME status = "active", NEW q \in silent'
        PROVE  inputs'[q] = Still /\ pendingActions'[q] = <<>>
    <3>1. q \in silent /\ q # p BY <2>2
    <3> QED BY <2>2, <3>1 DEF Inert, TypeOK
  <2> QED BY <2>1, <2>2 DEF Inert
<1> QED BY <1>3, <1>4, <1>6, <1>7

(* So does a tick of the countdown.                                        *)
LEMMA StepCountdownInv == ASSUME IndInv, StepCountdown PROVE IndInv'
<1> USE DEF IndInv, StepCountdown
<1>1. players = Spawn /\ silent = Players /\ players' = players
  BY DEF Inert
<1>2. tick \in Nat /\ tick' = tick + 1 /\ tick' \in Nat BY DEF TypeOK
<1>3. TypeOK'
  <2>1. /\ inputs' \in [Players -> Axis \X Axis]
        /\ nextDashTick' \in [Players -> Nat] /\ nextAttackTick' \in [Players -> Nat]
        /\ status' \in {"countdown", "active"}
    <3>1. Still \in Axis \X Axis BY DEF Still, Axis
    <3>2. CASE Activate BY <1>2, <3>1, <3>2 DEF Activate
    <3>3. CASE UNCHANGED <<status, inputs, nextDashTick, nextAttackTick>>
      BY <3>3 DEF TypeOK
    <3> QED BY <3>2, <3>3
  <2>2. pendingActions' \in [Players -> Seq(ActionTypes)] OBVIOUS
  <2> QED BY <1>2, <2>1, <2>2 DEF TypeOK
<1>4. Timeline'
  BY <1>1, <1>2, SpawnType DEF Timeline, InPhase, PhaseEnd, Free, InAttack
<1>5. VerdictFollowsLives' BY <1>1 DEF VerdictFollowsLives, Activate
<1>6. ClocksAgree'
  BY <1>2, RulesAssumption DEF ClocksAgree, Activate, TypeOK
<1>7. AttackClock' BY <1>1, SpawnType DEF AttackClock, InAttack
<1>8. CountdownIsInert' BY <1>1, SpawnType DEF CountdownIsInert
<1>9. Inert' BY <1>1 DEF Inert, Activate
<1> QED BY <1>3, <1>4, <1>5, <1>6, <1>7, <1>8, <1>9

(* So does a tick of the fight.                                            *)
LEMMA StepActiveInv == ASSUME IndInv, StepActive PROVE IndInv'
<1> USE DEF IndInv
<1>1. /\ tick \in Nat /\ activeTicks \in Nat /\ status = "active"
      /\ tick' = tick + 1 /\ activeTicks' = activeTicks + 1
      /\ UNCHANGED <<inputs, silent>>
  BY DEF TypeOK, StepActive
<1>2. ASSUME NEW p \in Players
      PROVE  /\ players'[p] \in PlayerStates
             /\ InPhase(players'[p], attackFacing'[p], tick')
             /\ InAttack(players'[p]) =>
                  nextAttackTick'[p] = players'[p].started + AttackCooldown
             /\ players[p].hp # 0
             /\ players'[p].hp = 0 <=> players'[p].state = "ko"
  <2>1. players[p].hp # 0 /\ players[p].state # "ko"
    BY <1>1 DEF VerdictFollowsLives
  <2> QED BY <2>1, StepPlayer
<1> DEFINE hp == [p \in Players |-> players'[p].hp]
<1>3. Finish(hp) BY DEF StepActive
<1>4. /\ status' \in {"active", "finished"}
      /\ finishReason' \in {"none", "ko", "time_limit"}
      /\ finishReason' = "ko" <=> \E p \in Players : hp[p] = 0
      /\ finishReason' = "time_limit" <=>
           (\A p \in Players : hp[p] # 0) /\ activeTicks' >= MatchDurationTicks
      /\ status' = "finished" <=> finishReason' # "none"
      /\ winnerID' = IF status' = "finished" THEN Stronger(hp) ELSE NoPlayer
  <2>1. finishReason = "none" /\ winnerID = NoPlayer
    BY <1>1 DEF VerdictFollowsLives
  <2> HIDE DEF hp
  <2>2. CASE \E p \in Players : hp[p] = 0 BY <1>3, <2>2 DEF Finish
  <2>3. CASE (\A p \in Players : hp[p] # 0) /\ activeTicks' >= MatchDurationTicks
    BY <1>3, <2>3 DEF Finish
  <2>4. CASE (\A p \in Players : hp[p] # 0) /\ ~ (activeTicks' >= MatchDurationTicks)
    <3>1. UNCHANGED <<status, finishReason, winnerID>> BY <1>3, <2>4 DEF Finish
    <3> QED BY <1>1, <2>1, <2>4, <3>1
  <2> QED BY <2>2, <2>3, <2>4
<1>5. Stronger(hp) \in Players \cup {NoPlayer} BY DEF Stronger, Players
<1>6. TypeOK'
  <2>1. players' \in [Players -> PlayerStates] BY <1>2 DEF StepActive
  <2>2. /\ nextDashTick' \in [Players -> Nat] /\ nextAttackTick' \in [Players -> Nat]
    <3>1. /\ tick + 1 + DashCooldown \in Nat /\ tick + 1 + AttackCooldown \in Nat
      BY <1>1, RulesAssumption
    <3> QED BY <3>1 DEF StepActive, TypeOK
  <2>3. attackFacing' \in [Players -> Facings \cup {Still}]
    <3>1. ASSUME NEW p \in Players PROVE Aim(p) \in Facings \cup {Still}
      <4>1. Ready(p).facing \in Facings BY ReadyPhase DEF PlayerStates
      <4> QED BY <4>1 DEF Aim, TypeOK
    <3> QED BY <3>1 DEF StepActive
  <2>4. pendingActions' \in [Players -> Seq(ActionTypes)] BY DEF StepActive
  <2>5. even' \in BOOLEAN BY DEF StepActive
  <2> HIDE DEF hp
  <2>6. /\ tick' \in Nat /\ activeTicks' \in Nat
        /\ status' \in {"countdown", "active", "finished"}
        /\ finishReason' \in {"none", "ko", "time_limit"}
        /\ winnerID' \in Players \cup {NoPlayer}
    BY <1>1, <1>4, <1>5
  <2>7. inputs' \in [Players -> Axis \X Axis] /\ silent' \subseteq Players
    BY <1>1 DEF TypeOK
  <2> QED BY <2>1, <2>2, <2>3, <2>4, <2>5, <2>6, <2>7 DEF TypeOK
<1>7. Timeline' BY <1>2 DEF Timeline
<1>8. VerdictFollowsLives' BY <1>2, <1>4 DEF VerdictFollowsLives
<1>9. ClocksAgree'
  <2>1. /\ tick = CountdownTicks + activeTicks /\ activeTicks < MatchDurationTicks
    BY <1>1 DEF ClocksAgree
  <2>2. CountdownTicks \in Nat /\ MatchDurationTicks \in Nat BY RulesAssumption
  <2>3. status' = "active" => activeTicks' < MatchDurationTicks
    BY <1>1, <1>4, <2>2
  <2> HIDE DEF hp
  <2> QED BY <1>1, <1>4, <2>1, <2>2, <2>3 DEF ClocksAgree
<1>10. AttackClock' BY <1>2 DEF AttackClock
<1>11. CountdownIsInert' BY <1>1, StepSilent DEF CountdownIsInert
<1>12. Inert'
  <2>1. pendingActions' = [p \in Players |-> <<>>] BY DEF StepActive
  <2>2. silent \subseteq Players BY DEF TypeOK
  <2> QED BY <1>1, <1>4, <2>1, <2>2 DEF Inert
<1> QED BY <1>6, <1>7, <1>8, <1>9, <1>10, <1>11, <1>12

(* Every step keeps the inductive invariant.                               *)
LEMMA RoomNext == ASSUME IndInv, [Next]_vars PROVE IndInv'
<1>1. CASE UNCHANGED vars
  BY <1>1 DEF vars, simulation, IndInv, TypeOK, Timeline, InPhase, PhaseEnd,
              VerdictFollowsLives, ClocksAgree, AttackClock, CountdownIsInert, Inert
<1> QED BY <1>1, SubmitInputInv, StepCountdownInv, StepActiveInv DEF Next

(* The inductive invariant of the Room, for every ruleset it accepts.      *)
THEOREM RoomInvariant == Spec => []IndInv
BY RoomInit, RoomNext, PTL DEF Spec

(* Positions stay in the arena, lives within their bounds, facings         *)
(* cardinal.                                                               *)
THEOREM RoomTypeOK == Spec => []TypeOK
<1>1. IndInv => TypeOK BY DEF IndInv
<1> QED BY <1>1, RoomInvariant, PTL

(* Every snapshot tells where in its action each player is.                *)
THEOREM RoomTimeline == Spec => []Timeline
<1>1. IndInv => Timeline BY DEF IndInv
<1> QED BY <1>1, RoomInvariant, PTL

(* A duel ends exactly with a knockout or the time limit, and the lives    *)
(* left decide it.                                                         *)
THEOREM RoomVerdict == Spec => []VerdictFollowsLives
<1>1. IndInv => VerdictFollowsLives BY DEF IndInv
<1> QED BY <1>1, RoomInvariant, PTL

(* Nothing sent during the countdown has an effect on the duel.            *)
THEOREM RoomCountdownIsInert == Spec => []CountdownIsInert
<1>1. IndInv => CountdownIsInert BY DEF IndInv
<1> QED BY <1>1, RoomInvariant, PTL

-----------------------------------------------------------------------------
(* Life is lost only to the opponent's attack, in its active phase, once   *)
(* per tick.                                                               *)
DamageEarned ==
  \A p \in Players : players'[p].hp # players[p].hp =>
    LET begun == nextAttackTick'[Other(p)] - AttackCooldown
    IN /\ tick' - begun \in Windup..(Windup + Active - 1)
       /\ players[Other(p)].state # "hit" \/ begun = tick'
       /\ players'[p].hp = Clamp(players[p].hp - Damage, 0, InitialHP)

(* A tick takes a hit point only by an attack that is in force.            *)
LEMMA StepDamage == ASSUME IndInv, StepActive PROVE DamageEarned
<1> USE DEF IndInv
<1> SUFFICES ASSUME NEW p \in Players, players'[p].hp # players[p].hp
             PROVE  LET begun == nextAttackTick'[Other(p)] - AttackCooldown
                    IN /\ tick' - begun \in Windup..(Windup + Active - 1)
                       /\ players[Other(p)].state # "hit" \/ begun = tick'
                       /\ players'[p].hp = Clamp(players[p].hp - Damage, 0, InitialHP)
  BY DEF DamageEarned
<1> DEFINE q == Other(p)
           r == Reached(q)
<1>1. q \in Players BY DEF Other, Players
<1>2. /\ Strikes(q) /\ players'[p].hp = Clamp(players[p].hp - Damage, 0, InitialHP)
  BY StepPlayer
<1>3. r.state = "active" BY <1>2 DEF Strikes
<1> HIDE DEF q
<1>4. /\ r \in PlayerStates /\ InPhase(r, Aim(q), tick + 1)
      /\ InAttack(r) => NextClock(q) = r.started + AttackCooldown
  BY <1>1, ReachedPhase
<1>5. nextAttackTick'[q] = NextClock(q) BY <1>1 DEF StepActive, NextClock
<1>6. tick \in Nat /\ tick' = tick + 1 BY DEF TypeOK, StepActive
<1> HIDE DEF r
<1>7. r.started \in Nat /\ r.remaining \in Nat BY <1>4 DEF PlayerStates
<1>8. /\ r.remaining = r.started + Windup + Active - (tick + 1)
      /\ r.remaining > 0 /\ r.remaining <= Active
  <2>1. r.remaining = PhaseEnd(r, tick + 1) - (tick + 1)
    BY <1>4 DEF InPhase
  <2>2. PhaseEnd(r, tick + 1) = r.started + Windup + Active
    BY <1>3 DEF PhaseEnd
  <2>3. r.remaining > 0 /\ r.remaining <= Active BY <1>3, <1>4 DEF InPhase
  <2> QED BY <1>6, <1>7, <2>1, <2>2, <2>3, RulesAssumption
<1>9. nextAttackTick'[q] - AttackCooldown = r.started
  <2>1. nextAttackTick'[q] = r.started + AttackCooldown
    BY <1>3, <1>4, <1>5 DEF InAttack
  <2>2. AttackCooldown \in Nat BY RulesAssumption
  <2> QED BY <1>7, <2>1, <2>2
<1>10. tick' - r.started \in Windup..(Windup + Active - 1)
  BY <1>6, <1>7, <1>8, RulesAssumption
<1>11. players[q].state = "hit" => r.started = tick'
  <2> SUFFICES ASSUME players[q].state = "hit" PROVE r.started = tick'
    OBVIOUS
  <2>1. ~ InAttack(Ready(q)) BY <1>1, ReadyPhase DEF InAttack
  <2>2. Ready(q) \in PlayerStates BY <1>1, ReadyPhase
  <2>3. Start(q) = "light_attack"
    <3>1. CASE Start(q) = "dash"
      BY <1>3, <2>2, <1>6, DashedType, <3>1 DEF Reached, Acted, r
    <3>2. CASE Start(q) \notin {"dash", "light_attack"}
      BY <1>3, <2>1, <3>2 DEF Reached, Acted, InAttack, r
    <3> QED BY <3>1, <3>2
  <2>4. r = Attacking(Ready(q), tick + 1) BY <2>3 DEF Reached, Acted, r
  <2>5. r.started = tick + 1 BY <2>2, <2>4 DEF Attacking, PlayerStates
  <2> QED BY <1>6, <2>5
<1> QED BY <1>2, <1>9, <1>10, <1>11 DEF q

(* No life is lost but to an attack in its active phase, once per tick.    *)
THEOREM RoomDamageIsEarned == Spec => DamageIsEarned
<1>1. ASSUME IndInv, [Next]_vars PROVE [DamageEarned]_vars
  <2>1. CASE StepActive BY <1>1, <2>1, StepDamage
  <2>2. CASE UNCHANGED players
    BY <2>2 DEF DamageEarned
  <2> QED BY <1>1, <2>1, <2>2 DEF Next, SubmitInput, StepCountdown, simulation, vars
<1>2. IndInv /\ [Next]_vars => [DamageEarned]_vars BY <1>1
<1> QED BY <1>2, RoomInvariant, PTL DEF Spec, DamageIsEarned, DamageEarned

-----------------------------------------------------------------------------
(* Neither place has an advantage: every part of a Step keeps mirror       *)
(* images mirror images.                                                   *)

(* The mirror turns the horizontal axis round, and stillness is its own    *)
(* image.                                                                  *)
LEMMA MirrorAxes ==
  ASSUME NEW m \in Axis \X Axis
  PROVE  /\ Mirror(m) \in Axis \X Axis
         /\ Mirror(m)[1] = -m[1] /\ Mirror(m)[2] = m[2]
         /\ Mirror(m) = Still <=> m = Still
         /\ m[1] \in -1..1 /\ m[2] \in -1..1
<1>1. m[1] \in -1..1 /\ m[2] \in -1..1 /\ m = <<m[1], m[2]>> BY DEF Axis
<1>2. -m[1] \in -1..1 /\ (-m[1] = 0 <=> m[1] = 0) BY <1>1
<1>3. Mirror(m) = <<-m[1], m[2]>> BY DEF Mirror
<1>4. Mirror(m) \in Axis \X Axis BY <1>1, <1>2, <1>3 DEF Axis
<1>5. Mirror(m)[1] = -m[1] /\ Mirror(m)[2] = m[2] BY <1>3
<1>6. Mirror(m) = Still <=> m = Still BY <1>1, <1>2, <1>3 DEF Still
<1> QED BY <1>1, <1>4, <1>5, <1>6

(* Mirrored inputs make images walk as images,                             *)
LEMMA LocomotionImages ==
  ASSUME NEW s \in PlayerStates, NEW t \in PlayerStates, Images(s, t),
         NEW m \in Axis \X Axis
  PROVE  Images(Locomotion(s, m), Locomotion(t, Mirror(m)))
BY MirrorAxes DEF Locomotion, Images, PlayerStates

(* advance their actions as images,                                        *)
LEMMA AdvancedImages ==
  ASSUME NEW s \in PlayerStates, NEW t \in PlayerStates, Images(s, t),
         NEW m \in Axis \X Axis
  PROVE  Images(Advanced(s, m), Advanced(t, Mirror(m)))
<1>1. t.state = s.state /\ t.remaining = s.remaining
      /\ s.remaining \in Nat /\ s.state \in ActionStates
  BY DEF Images, PlayerStates
<1>2. CASE Free(s) \/ s.state = "ko"
  BY <1>1, <1>2 DEF Advanced, Free
<1>3. CASE ~ Free(s) /\ s.state # "ko" /\ s.remaining > 1
  <2>1. /\ Advanced(s, m) = [s EXCEPT !.remaining = s.remaining - 1]
        /\ Advanced(t, Mirror(m)) = [t EXCEPT !.remaining = t.remaining - 1]
    BY <1>1, <1>3 DEF Advanced, Free
  <2> QED BY <1>1, <2>1 DEF Images, PlayerStates
<1>4. CASE ~ Free(s) /\ s.state # "ko" /\ s.remaining <= 1 /\ s.state = "windup"
  <2>1. /\ Advanced(s, m) = [s EXCEPT !.state = "active", !.remaining = Active]
        /\ Advanced(t, Mirror(m)) = [t EXCEPT !.state = "active", !.remaining = Active]
    BY <1>1, <1>4 DEF Advanced, Free
  <2> QED BY <1>1, <2>1 DEF Images, PlayerStates
<1>5. CASE /\ ~ Free(s) /\ s.state # "ko" /\ s.remaining <= 1
           /\ s.state = "active" /\ Recovery > 0
  <2>1. /\ Advanced(s, m) = [s EXCEPT !.state = "recovery", !.remaining = Recovery]
        /\ Advanced(t, Mirror(m)) =
             [t EXCEPT !.state = "recovery", !.remaining = Recovery]
    BY <1>1, <1>5 DEF Advanced, Free
  <2> QED BY <1>1, <2>1 DEF Images, PlayerStates
<1>6. CASE /\ ~ Free(s) /\ s.state # "ko" /\ s.remaining <= 1
           /\ s.state # "windup" /\ ~ (s.state = "active" /\ Recovery > 0)
  <2>1. /\ Advanced(s, m) = Locomotion(s, m)
        /\ Advanced(t, Mirror(m)) = Locomotion(t, Mirror(m))
    BY <1>1, <1>6 DEF Advanced, Free
  <2> QED BY <2>1, LocomotionImages
<1> QED BY <1>1, <1>2, <1>3, <1>4, <1>5, <1>6

(* face as images,                                                         *)
LEMMA FacedImages ==
  ASSUME NEW s \in PlayerStates, NEW t \in PlayerStates, Images(s, t),
         NEW m \in Axis \X Axis
  PROVE  Images(Faced(s, m), Faced(t, Mirror(m)))
<1> DEFINE n == Mirror(m)
<1>1. /\ n \in Axis \X Axis /\ n[1] = -m[1] /\ n[2] = m[2]
      /\ (n = Still <=> m = Still) /\ m[1] \in -1..1 /\ m[2] \in -1..1
  BY MirrorAxes
<1> HIDE DEF n
<1>2. Magnitude(n[1]) = Magnitude(m[1]) /\ Magnitude(n[2]) = Magnitude(m[2])
  BY <1>1 DEF Magnitude
<1>3. \A f \in {"x", "y", "hp", "state", "started", "remaining"} :
        Faced(s, m)[f] = s[f] /\ Faced(t, n)[f] = t[f]
  BY <1>1, FacedType
<1>4. Faced(t, n).facing = Mirror(Faced(s, m).facing)
  <2>1. CASE m = Still
    <3>1. Faced(s, m).facing = s.facing /\ Faced(t, n).facing = t.facing
      BY <1>1, <2>1 DEF Faced, PlayerStates
    <3> QED BY <3>1 DEF Images
  <2>2. CASE m # Still /\ Magnitude(m[1]) >= Magnitude(m[2])
    <3>1. Faced(s, m).facing = <<m[1], 0>> /\ Faced(t, n).facing = <<n[1], 0>>
      BY <1>1, <1>2, <2>2 DEF Faced, PlayerStates
    <3>2. Mirror(<<m[1], 0>>) = <<-m[1], 0>> BY DEF Mirror
    <3> QED BY <1>1, <3>1, <3>2
  <2>3. CASE m # Still /\ ~ (Magnitude(m[1]) >= Magnitude(m[2]))
    <3>1. Faced(s, m).facing = <<0, m[2]>> /\ Faced(t, n).facing = <<0, n[2]>>
      BY <1>1, <1>2, <2>3 DEF Faced, PlayerStates
    <3> DEFINE v == <<0, m[2]>>
    <3>2. v[1] = 0 /\ v[2] = m[2] OBVIOUS
    <3> HIDE DEF v
    <3>3. Mirror(v) = <<-v[1], v[2]>> BY DEF Mirror
    <3>4. -v[1] = 0
      <4>1. \A k \in -1..1 : -k = 0 <=> k = 0 OBVIOUS
      <4> QED BY <3>2, <4>1
    <3>5. Mirror(v) = <<0, n[2]>> BY <1>1, <3>2, <3>3, <3>4
    <3> QED BY <3>1, <3>5 DEF v
  <2> QED BY <2>1, <2>2, <2>3
<1> QED BY <1>3, <1>4 DEF Images, n

(* Symmetric walls stop two mirror images at mirror positions.             *)
LEMMA ShiftedImages ==
  ASSUME SymmetricArena,
         NEW s \in PlayerStates, NEW t \in PlayerStates, Images(s, t),
         NEW dx \in Int, NEW ex \in Int, NEW dy \in Int, ex = -dx
  PROVE  Images(Shifted(s, dx, dy), Shifted(t, ex, dy))
<1>1. /\ s.x \in Int /\ t.x = -s.x /\ t.x + ex = -(s.x + dx)
      /\ MinX \in Int /\ MaxX \in Int /\ MinX < MaxX /\ MinX = -MaxX
  BY RulesAssumption DEF Images, PlayerStates, SymmetricArena
<1>2. Clamp(t.x + ex, MinX, MaxX) = - Clamp(s.x + dx, MinX, MaxX)
  BY <1>1 DEF Clamp
<1>3. Shifted(t, ex, dy).x = - Shifted(s, dx, dy).x
  BY <1>2 DEF Shifted, PlayerStates
<1>4. Shifted(t, ex, dy).y = Shifted(s, dx, dy).y
  BY DEF Shifted, PlayerStates, Images
<1>5. \A f \in {"hp", "facing", "state", "started", "remaining"} :
        Shifted(s, dx, dy)[f] = s[f] /\ Shifted(t, ex, dy)[f] = t[f]
  BY ShiftedType
<1> QED BY <1>3, <1>4, <1>5 DEF Images

(* move in a symmetric arena as images,                                    *)
LEMMA MovedImages ==
  ASSUME SymmetricArena,
         NEW s \in PlayerStates, NEW t \in PlayerStates, Images(s, t),
         NEW m \in Axis \X Axis
  PROVE  Images(Moved(s, m), Moved(t, Mirror(m)))
<1> DEFINE n == Mirror(m)
           sbase == IF Free(s) THEN Locomotion(Faced(s, m), m) ELSE s
           tbase == IF Free(t) THEN Locomotion(Faced(t, n), n) ELSE t
<1>1. n \in Axis \X Axis /\ n[1] = -m[1] /\ n[2] = m[2]
      /\ m[1] \in -1..1 /\ m[2] \in -1..1
  BY MirrorAxes
<1>2. s.hp = t.hp /\ s.state = t.state BY DEF Images
<1>3. CASE s.hp = 0 \/ s.state \in {"dash", "hit", "ko"}
  BY <1>2, <1>3 DEF Moved
<1>4. CASE ~ (s.hp = 0 \/ s.state \in {"dash", "hit", "ko"})
  <2>1. /\ Moved(s, m) = Shifted(sbase, m[1] * MovementPerTick, m[2] * MovementPerTick)
        /\ Moved(t, n) = Shifted(tbase, n[1] * MovementPerTick, n[2] * MovementPerTick)
    BY <1>2, <1>4 DEF Moved
  <2>2. Images(sbase, tbase) /\ sbase \in PlayerStates /\ tbase \in PlayerStates
    <3>1. CASE Free(s)
      <4>1. Free(t) BY <1>2, <3>1 DEF Free
      <4>2. /\ Faced(s, m) \in PlayerStates /\ Faced(t, n) \in PlayerStates
            /\ Images(Faced(s, m), Faced(t, n))
        BY <1>1, FacedType, FacedImages
      <4>3. /\ Locomotion(Faced(s, m), m) \in PlayerStates
            /\ Locomotion(Faced(t, n), n) \in PlayerStates
            /\ Images(Locomotion(Faced(s, m), m), Locomotion(Faced(t, n), n))
        BY <4>2, LocomotionType, LocomotionImages
      <4> QED BY <3>1, <4>1, <4>3
    <3>2. CASE ~ Free(s)
      <4>1. ~ Free(t) BY <1>2, <3>2 DEF Free
      <4> QED BY <3>2, <4>1
    <3> QED BY <3>1, <3>2
  <2>3. /\ m[1] * MovementPerTick \in Int /\ m[2] * MovementPerTick \in Int
        /\ n[1] * MovementPerTick = -(m[1] * MovementPerTick)
        /\ n[2] * MovementPerTick = m[2] * MovementPerTick
    <3>1. m[1] \in {-1, 0, 1} /\ m[2] \in {-1, 0, 1} BY <1>1
    <3> QED BY <1>1, <3>1, RulesAssumption
  <2> HIDE DEF sbase, tbase
  <2>4. Images(Shifted(sbase, m[1] * MovementPerTick, m[2] * MovementPerTick),
               Shifted(tbase, n[1] * MovementPerTick, m[2] * MovementPerTick))
    BY <2>2, <2>3, ShiftedImages
  <2> QED BY <2>1, <2>3, <2>4
<1> QED BY <1>3, <1>4

(* start the same action as images,                                        *)
LEMMA ActedImages ==
  ASSUME SymmetricArena, NEW s \in PlayerStates, NEW t \in PlayerStates, Images(s, t),
         NEW start, NEW now \in Nat
  PROVE  Images(Acted(s, start, now), Acted(t, start, now))
<1>1. CASE start = "dash"
  <2> DEFINE dx == s.facing[1] * DashDistance
             ex == t.facing[1] * DashDistance
             dy == s.facing[2] * DashDistance
  <2>1. /\ s.facing[1] \in {-1, 0, 1} /\ s.facing[2] \in {-1, 0, 1}
        /\ t.facing[1] = -s.facing[1] /\ t.facing[2] = s.facing[2]
    BY DEF Images, Mirror, PlayerStates, Facings
  <2>2. dx \in Int /\ dy \in Int /\ ex = -dx /\ t.facing[2] * DashDistance = dy
    BY <2>1, RulesAssumption
  <2>3. /\ Acted(s, start, now) = [Shifted(s, dx, dy)
             EXCEPT !.state = "dash", !.started = now, !.remaining = 1]
        /\ Acted(t, start, now) = [Shifted(t, ex, dy)
             EXCEPT !.state = "dash", !.started = now, !.remaining = 1]
    BY <1>1, <2>2 DEF Acted, Dashed
  <2> HIDE DEF dx, ex, dy
  <2>4. /\ Images(Shifted(s, dx, dy), Shifted(t, ex, dy))
        /\ Shifted(s, dx, dy) \in PlayerStates /\ Shifted(t, ex, dy) \in PlayerStates
    BY <2>2, ShiftedImages, ShiftedType
  <2> DEFINE dashed(u) == [u EXCEPT !.state = "dash", !.started = now, !.remaining = 1]
  <2>5. ASSUME NEW u \in PlayerStates, NEW v \in PlayerStates, Images(u, v)
        PROVE  Images(dashed(u), dashed(v))
    BY <2>5 DEF Images, PlayerStates
  <2>6. /\ Acted(s, start, now) = dashed(Shifted(s, dx, dy))
        /\ Acted(t, start, now) = dashed(Shifted(t, ex, dy))
    BY <2>3
  <2> HIDE DEF dashed
  <2> QED BY <2>4, <2>5, <2>6
<1>2. CASE start = "light_attack"
  <2>1. /\ Acted(s, start, now) = Attacking(s, now)
        /\ Acted(t, start, now) = Attacking(t, now)
    BY <1>2 DEF Acted
  <2> QED BY <2>1 DEF Attacking, Images, PlayerStates
<1>3. CASE start \notin {"dash", "light_attack"}
  BY <1>3 DEF Acted
<1> QED BY <1>1, <1>2, <1>3

(* and a blow at the same tick strikes both as images.                     *)
LEMMA StruckImages ==
  ASSUME NEW s \in PlayerStates, NEW t \in PlayerStates, Images(s, t), NEW now \in Nat
  PROVE  Images(Struck(s, now), Struck(t, now))
BY RulesAssumption DEF Struck, Images, PlayerStates

(* A blow and its mirror image reach equally far.                          *)
LEMMA HitboxImages ==
  ASSUME NEW s \in PlayerStates, NEW t \in PlayerStates,
         NEW u \in PlayerStates, NEW v \in PlayerStates, Images(s, u), Images(t, v),
         NEW f \in Facings \cup {Still}
  PROVE  HitboxIntersects(u, v, Mirror(f)) <=> HitboxIntersects(s, t, f)
<1>1. /\ s.x \in Int /\ t.x \in Int /\ u.x = -s.x /\ v.x = -t.x
      /\ u.y = s.y /\ v.y = t.y
  BY RulesAssumption DEF Images, PlayerStates
<1>2. /\ f[1] \in {-1, 0, 1} /\ Mirror(f)[1] = -f[1] /\ Mirror(f)[2] = f[2]
  BY DEF Mirror, Facings, Still
<1>3. /\ AttackDepth \in Int /\ AttackHalfWidth \in Int /\ PlayerHalfExtent \in Int
  BY RulesAssumption
<1>4. Reaches(u.x, v.x, Mirror(f)[1]) <=> Reaches(s.x, t.x, f[1])
  BY <1>1, <1>2, <1>3 DEF Reaches, RangesOverlap
<1>5. Mirror(f)[1] # 0 <=> f[1] # 0 BY <1>2
<1> QED BY <1>1, <1>2, <1>4, <1>5 DEF HitboxIntersects

-----------------------------------------------------------------------------

(* In an even Room the two players are images once their actions have      *)
(* advanced,                                                               *)
LEMMA EvenReady ==
  ASSUME TypeOK, Timeline, Balanced, even, SymmetricArena, inputs[B] = Mirror(inputs[A])
  PROVE  Images(Ready(A), Ready(B))
<1> DEFINE s == players[A]
           t == players[B]
           m == inputs[A]
<1>1. /\ s \in PlayerStates /\ t \in PlayerStates /\ m \in Axis \X Axis
      /\ Mirror(m) \in Axis \X Axis /\ tick \in Nat
      /\ InPhase(s, attackFacing[A], tick) /\ InPhase(t, attackFacing[B], tick)
      /\ Images(s, t)
  BY MirrorAxes DEF TypeOK, Timeline, Balanced, Players
<1>2. Ready(A) = Moved(Advanced(s, m), m)
      /\ Ready(B) = Moved(Advanced(t, Mirror(m)), Mirror(m))
  BY DEF Ready
<1> HIDE DEF s, t, m
<1>3. Images(Advanced(s, m), Advanced(t, Mirror(m)))
  BY <1>1, AdvancedImages
<1>4. Advanced(s, m) \in PlayerStates /\ Advanced(t, Mirror(m)) \in PlayerStates
  BY <1>1, AdvancedPhase
<1> QED BY <1>1, <1>2, <1>3, <1>4, MovedImages

(* and so the same commands make them start the same action.               *)
LEMMA EvenStart ==
  ASSUME Balanced, even, SymmetricArena, Images(Ready(A), Ready(B)),
         pendingActions[A] = pendingActions[B]
  PROVE  Start(B) = Start(A)
<1> DEFINE r == Ready(A)
           u == Ready(B)
           d == nextDashTick[A]
           a == nextAttackTick[A]
           queue == pendingActions[A]
           now == tick + 1
<1>1. nextDashTick[B] = d /\ nextAttackTick[B] = a BY DEF Balanced
<1>2. \A type : CanStart(u, type, d, a, now) <=> CanStart(r, type, d, a, now)
  BY DEF CanStart, Free, Images
<1>3. /\ Start(A) = FirstStart(queue, r, d, a, now)
      /\ Start(B) = FirstStart(queue, u, d, a, now)
  BY <1>1 DEF Start
<1> HIDE DEF r, u, d, a, queue, now
<1>4. {k \in DOMAIN queue : CanStart(u, queue[k], d, a, now)}
        = {k \in DOMAIN queue : CanStart(r, queue[k], d, a, now)}
  BY <1>2
<1> DEFINE first(able) == IF able = {} THEN "none"
                          ELSE queue[CHOOSE k \in able : \A j \in able : k <= j]
<1>5. /\ Start(A) = first({k \in DOMAIN queue : CanStart(r, queue[k], d, a, now)})
      /\ Start(B) = first({k \in DOMAIN queue : CanStart(u, queue[k], d, a, now)})
  BY <1>3 DEF FirstStart
<1> HIDE DEF first
<1> QED BY <1>4, <1>5

(* To be an image goes both ways.                                          *)
LEMMA MirrorTwice ==
  ASSUME NEW s \in PlayerStates, NEW t \in PlayerStates, Images(s, t)
  PROVE  Images(t, s)
<1>1. s.x \in Int BY RulesAssumption DEF PlayerStates
<1>2. s.facing = Mirror(t.facing) BY DEF Images, Mirror, PlayerStates, Facings
<1>3. \A f \in {"y", "hp", "state", "started", "remaining"} : s[f] = t[f]
  BY DEF Images
<1> QED BY <1>1, <1>2, <1>3 DEF Images

(* A tick of an even Room leaves the players, cooldowns and attacks mirror *)
(* images, whichever player is first.                                      *)
LEMMA EvenStep ==
  ASSUME TypeOK, Timeline, AttackClock, VerdictFollowsLives, Balanced, StepActive,
         even', SymmetricArena
  PROVE  Balanced'
<1>1. even /\ inputs[B] = Mirror(inputs[A]) /\ pendingActions[A] = pendingActions[B]
  BY DEF StepActive
<1>2. Images(Ready(A), Ready(B)) BY <1>1, EvenReady
<1>3. Start(B) = Start(A) BY <1>1, <1>2, EvenStart
<1>4. /\ A \in Players /\ B \in Players /\ A # B /\ Other(A) = B /\ Other(B) = A
      /\ tick + 1 \in Nat
  BY RulesAssumption DEF Players, Other, TypeOK
<1>5. Ready(A) \in PlayerStates /\ Ready(B) \in PlayerStates BY <1>4, ReadyPhase
<1>6. Reached(A) \in PlayerStates /\ Reached(B) \in PlayerStates
  BY <1>4, ReachedPhase
<1>7. Images(Reached(A), Reached(B))
  BY <1>2, <1>3, <1>4, <1>5, ActedImages DEF Reached
<1>8. Aim(B) = Mirror(Aim(A)) /\ Aim(A) \in Facings \cup {Still}
  <2>1. attackFacing[B] = Mirror(attackFacing[A]) BY <1>1 DEF Balanced
  <2>2. Ready(B).facing = Mirror(Ready(A).facing) BY <1>2 DEF Images
  <2>3. Ready(A).facing \in Facings BY <1>5 DEF PlayerStates
  <2> QED BY <1>3, <1>4, <2>1, <2>2, <2>3 DEF Aim, TypeOK
<1>9. Strikes(B) <=> Strikes(A)
  <2>1. HitboxIntersects(Reached(B), Reached(A), Aim(B))
          <=> HitboxIntersects(Reached(A), Reached(B), Aim(A))
    <3>1. Images(Reached(B), Reached(A)) BY <1>6, <1>7, MirrorTwice
    <3> QED BY <1>6, <1>7, <1>8, <3>1, HitboxImages
  <2>2. Reached(B).state = Reached(A).state BY <1>7 DEF Images
  <2> QED BY <1>4, <2>1, <2>2 DEF Strikes
<1>10. Images(players'[A], players'[B])
  <2>1. /\ players'[A] = IF Strikes(B) THEN Struck(Reached(A), tick + 1) ELSE Reached(A)
        /\ players'[B] = IF Strikes(A) THEN Struck(Reached(B), tick + 1) ELSE Reached(B)
    BY <1>4 DEF StepActive
  <2>2. Images(Struck(Reached(A), tick + 1), Struck(Reached(B), tick + 1))
    BY <1>4, <1>6, <1>7, StruckImages
  <2> QED BY <1>7, <1>9, <2>1, <2>2
<1>11. winnerID' = NoPlayer
  <2> DEFINE hp == [p \in Players |-> players'[p].hp]
  <2>1. hp[A] = hp[B] BY <1>4, <1>10 DEF Images
  <2>2. players'[A] \in PlayerStates BY <1>4, StepPlayer
  <2>3. hp[A] \in Int BY <1>4, <2>2, RulesAssumption DEF PlayerStates
  <2>4. Finish(hp) BY DEF StepActive
  <2>5. winnerID = NoPlayer BY <1>1 DEF Balanced
  <2> HIDE DEF hp
  <2>6. Stronger(hp) = NoPlayer BY <2>1, <2>3 DEF Stronger
  <2> QED BY <2>4, <2>5, <2>6 DEF Finish
<1>12. /\ attackFacing'[B] = Mirror(attackFacing'[A])
       /\ nextDashTick'[B] = nextDashTick'[A] /\ nextAttackTick'[B] = nextAttackTick'[A]
  BY <1>1, <1>3, <1>4, <1>8 DEF StepActive, Balanced
<1> QED BY <1>10, <1>11, <1>12 DEF Balanced

(* Every step keeps an even Room balanced.                                 *)
LEMMA RoomBalanced == ASSUME IndInv, Balanced, [Next]_vars PROVE Balanced'
<1> USE DEF IndInv
<1>1. CASE UNCHANGED vars \/ \E p \in Players : SubmitInput(p)
  BY <1>1 DEF vars, simulation, SubmitInput, Balanced
<1>2. CASE StepCountdown
  <2>1. A \in Players /\ B \in Players BY DEF Players
  <2> QED BY <1>2, <2>1 DEF StepCountdown, Activate, Balanced
<1>3. CASE StepActive
  <2>1. CASE even' /\ SymmetricArena BY <1>3, <2>1, EvenStep
  <2>2. CASE ~ (even' /\ SymmetricArena) BY <2>2 DEF Balanced
  <2> QED BY <2>1, <2>2
<1> QED BY <1>1, <1>2, <1>3 DEF Next

(* In a symmetric arena two players who play mirror images stay mirror     *)
(* images to the end, and neither wins: no step of the Room favours a      *)
(* place.                                                                  *)
THEOREM RoomEvenhanded == Spec => []Evenhanded
<1>1. Init => Balanced
  <2> SUFFICES ASSUME Init, SymmetricArena PROVE Balanced BY DEF Balanced
  <2>1. A \in Players /\ B \in Players /\ A # B BY RulesAssumption DEF Players
  <2>2. players[A] = Spawned(SpawnAX, SpawnAY, 1) /\ players[B] = Spawned(SpawnBX, SpawnBY, -1)
    BY <2>1 DEF Init, Spawn
  <2>3. Images(players[A], players[B])
    BY <2>2 DEF SymmetricArena, Spawned, Images, Mirror
  <2>4. attackFacing[B] = Mirror(attackFacing[A])
    BY <2>1 DEF Init, Still, Mirror
  <2> QED BY <2>1, <2>3, <2>4 DEF Init, Balanced
<1>2. ASSUME TypeOK, Balanced, even, SymmetricArena
      PROVE  players[B] = [players[A] EXCEPT !.x = -@, !.facing = Mirror(@)]
  <2>1. /\ players[A] \in PlayerStates /\ players[B] \in PlayerStates
        /\ Images(players[A], players[B])
    BY <1>2 DEF TypeOK, Players, Balanced
  <2>2. \A s, t \in PlayerStates :
          Images(s, t) => t = [s EXCEPT !.x = -@, !.facing = Mirror(@)]
    BY DEF Images, PlayerStates
  <2> QED BY <2>1, <2>2
<1>3. TypeOK /\ Balanced => Evenhanded BY <1>2 DEF Evenhanded, Balanced
<1> QED BY <1>1, <1>3, RoomBalanced, RoomInvariant, RoomTypeOK, PTL DEF Spec

-----------------------------------------------------------------------------
(* The Room is a Duel.                                                     *)
LEMMA StepIsDuel ==
  ASSUME IndInv, [Next]_vars
  PROVE  [Shown' \in Abstract!Steps(Shown)]_Shown
<1> USE DEF IndInv, Shown
<1>1. CASE UNCHANGED vars \/ \E p \in Players : SubmitInput(p)
  BY <1>1 DEF vars, simulation, SubmitInput
<1>2. CASE StepCountdown
  <2>1. /\ status = "countdown" /\ tick' = tick + 1
        /\ UNCHANGED <<winnerID, finishReason>>
        /\ status' = IF tick + 1 >= CountdownTicks THEN "active" ELSE status
    BY <1>2 DEF StepCountdown, Activate
  <2>2. Shown' = Abstract!Countdown(Shown)
    <3>1. CASE tick + 1 >= CountdownTicks
      <4>1. Abstract!Countdown(Shown) =
              [Shown EXCEPT !.tick = tick + 1, !.status = "active"]
        BY <3>1 DEF Abstract!Countdown
      <4> QED BY <2>1, <3>1, <4>1
    <3>2. CASE ~ (tick + 1 >= CountdownTicks)
      <4>1. Abstract!Countdown(Shown) =
              [Shown EXCEPT !.tick = tick + 1, !.status = status]
        BY <3>2 DEF Abstract!Countdown
      <4> QED BY <2>1, <3>2, <4>1
    <3> QED BY <3>1, <3>2
  <2> QED BY <2>1, <2>2 DEF Abstract!Steps
<1>3. CASE StepActive
  <2>1. /\ status = "active" /\ tick' = tick + 1 /\ activeTicks' = activeTicks + 1
        /\ Finish([p \in Players |-> players'[p].hp])
    BY <1>3 DEF StepActive
  <2> DEFINE hp == [p \in Players |-> players'[p].hp]
  <2>2. Stronger(hp) \in Players \cup {NoPlayer} BY DEF Stronger, Players
  <2>3. finishReason = "none" /\ winnerID = NoPlayer
    BY <2>1 DEF VerdictFollowsLives
  <2>4. /\ tick = CountdownTicks + activeTicks /\ tick \in Nat /\ activeTicks \in Nat
        /\ CountdownTicks \in Nat
    BY <2>1, RulesAssumption DEF ClocksAgree, TypeOK
  <2> HIDE DEF hp
  <2>5. CASE \E p \in Players : hp[p] = 0
    <3>1. Shown' = Abstract!Ended(Shown, Stronger(hp), "ko")
      BY <2>1, <2>5 DEF Finish, Abstract!Ended, hp
    <3> QED BY <2>1, <2>2, <3>1 DEF Abstract!Steps
  <2>6. CASE (\A p \in Players : hp[p] # 0) /\ activeTicks' >= MatchDurationTicks
    <3>1. Shown' = Abstract!Ended(Shown, Stronger(hp), "time_limit")
      BY <2>1, <2>6 DEF Finish, Abstract!Ended, hp
    <3>2. Abstract!TimeIsUp(Shown)
      BY <2>1, <2>4, <2>6 DEF Abstract!TimeIsUp
    <3> QED BY <2>1, <2>2, <3>1, <3>2 DEF Abstract!Steps
  <2>7. CASE (\A p \in Players : hp[p] # 0) /\ ~ (activeTicks' >= MatchDurationTicks)
    <3>1. UNCHANGED <<status, finishReason, winnerID>>
      BY <2>1, <2>7 DEF Finish, hp
    <3>2. ~ Abstract!TimeIsUp(Shown)
      BY <2>1, <2>4, <2>7, RulesAssumption DEF Abstract!TimeIsUp
    <3>3. Shown' = [Shown EXCEPT !.tick = Shown.tick + 1] BY <2>1, <3>1
    <3> QED BY <2>1, <3>2, <3>3 DEF Abstract!Steps
  <2> QED BY <2>5, <2>6, <2>7
<1> QED BY <1>1, <1>2, <1>3 DEF Next

(* What the match server runs as a Duel is what the Room does.             *)
THEOREM RoomIsADuel == Spec => DuelKept
<1>1. Init => Shown = Abstract!InitialRoom
  BY DEF Init, Shown, Abstract!InitialRoom
<1>2. IndInv /\ [Next]_vars => [Shown' \in Abstract!Steps(Shown)]_Shown
  BY StepIsDuel
<1> QED BY <1>1, <1>2, RoomInvariant, PTL DEF Spec, DuelKept, Abstract!DuelSpec
=============================================================================
