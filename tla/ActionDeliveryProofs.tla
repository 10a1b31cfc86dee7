------------------------ MODULE ActionDeliveryProofs ------------------------
(***************************************************************************)
(* Exactly-once delivery of a player's commands, for every size of the     *)
(* queues and windows and every behaviour of the network.                  *)
(***************************************************************************)
EXTENDS ActionDelivery, TLAPS, FiniteSetTheorems, WellFoundedInduction,
        NaturalsInduction

(* A non-empty set of commands has a greatest one, and Max returns it.     *)
LEMMA MaxOfCommands ==
  ASSUME NEW S \in SUBSET Commands, S # {}
  PROVE  Max(S) \in S /\ \A s \in S : s <= Max(S)
<1> USE ConstantsAssumption DEF Commands
<1> DEFINE Below == {MaxCommands - s : s \in S}
           R == OpToRel(<, Nat)
<1>1. Below \subseteq Nat /\ Below # {}
  <2>1. MaxCommands \in Nat /\ S \subseteq 1..MaxCommands OBVIOUS
  <2>2. \A s \in S : MaxCommands - s \in Nat BY <2>1
  <2>3. PICK s \in S : TRUE OBVIOUS
  <2> QED BY <2>2, <2>3
<1>2. \E x \in Below : \A y \in Below : ~ (<<y, x>> \in R)
  BY <1>1, NatLessThanWellFounded, WFMin
<1>3. PICK x \in Below : \A y \in Below : ~ (<<y, x>> \in R)
  BY <1>2
<1>4. \A y \in Below : x <= y
  <2> TAKE y \in Below
  <2>1. ~ (y < x) BY <1>1, <1>3 DEF OpToRel
  <2> QED BY <2>1, <1>1
<1>5. PICK m \in S : x = MaxCommands - m
  OBVIOUS
<1>6. \A s \in S : m >= s
  <2> TAKE s \in S
  <2>1. MaxCommands - s \in Below OBVIOUS
  <2>2. x <= MaxCommands - s BY <1>4, <2>1
  <2> QED BY <2>2, <1>5
<1> HIDE DEF Below, R
<1>7. \E z \in S : \A s \in S : z >= s
  BY <1>6
<1> QED BY <1>7 DEF Max

(* What Lowest returns: a part of the set, closed downwards within it.     *)
LEMMA LowestClosed ==
  ASSUME NEW S \in SUBSET Commands, NEW n \in Int
  PROVE  /\ Lowest(S, n) \subseteq S
         /\ \A s \in Lowest(S, n) : \A t \in S : t < s => t \in Lowest(S, n)
<1> USE ConstantsAssumption DEF Commands
<1>1. Lowest(S, n) \subseteq S BY DEF Lowest
<1>2. ASSUME NEW s \in Lowest(S, n), NEW t \in S, t < s
      PROVE  t \in Lowest(S, n)
  <2> DEFINE A == {u \in S : u < t}
             B == {u \in S : u < s}
  <2>1. IsFiniteSet(Commands) BY FS_Interval
  <2>2. IsFiniteSet(B) BY <2>1, FS_Subset
  <2>3. A \subseteq B
    <3>1. S \subseteq 1..MaxCommands /\ s \in S BY <1>1
    <3>2. s \in Int /\ t \in Int /\ S \subseteq Int BY <3>1
    <3>3. ASSUME NEW u \in S, u < t PROVE u < s
      BY <1>2, <3>2, <3>3
    <3> QED BY <3>3
  <2>4. Cardinality(A) <= Cardinality(B) BY <2>2, <2>3, FS_Subset
  <2>5. Cardinality(A) \in Nat /\ Cardinality(B) \in Nat
    BY <2>2, <2>3, FS_Subset, FS_CardinalityType
  <2>6. Cardinality(B) < n BY <1>2 DEF Lowest
  <2>7. Cardinality(A) < n BY <2>4, <2>5, <2>6
  <2> QED BY <1>2, <2>7 DEF Lowest
<1> QED BY <1>1, <1>2

(* The queue's new end after a Step: the newest queued command, if any.    *)
LEMMA AckAfterType ==
  ASSUME TypeOK
  PROVE  /\ AckAfter \in 0..MaxCommands
         /\ queued = {} => AckAfter = ack
         /\ queued # {} => AckAfter \in queued /\ \A s \in queued : s <= AckAfter
<1>1. CASE queued = {}
  BY <1>1 DEF TypeOK, AckAfter
<1>2. CASE queued # {}
  <2>1. queued \in SUBSET Commands BY DEF TypeOK
  <2>2. AckAfter \in queued /\ \A s \in queued : s <= AckAfter
    BY <1>2, <2>1, MaxOfCommands DEF AckAfter
  <2>3. Commands \subseteq 0..MaxCommands BY ConstantsAssumption DEF Commands
  <2> QED BY <1>2, <2>1, <2>2, <2>3
<1> QED BY <1>1, <1>2

(* What queueAction takes of a datagram is new, and with a command every   *)
(* new one before it.                                                      *)
LEMMA TakenClosed ==
  ASSUME TypeOK, NEW d \in up
  PROVE  /\ Taken(d) \subseteq Fresh(d)
         /\ \A s \in Taken(d) : \A t \in Fresh(d) : t < s => t \in Taken(d)
<1>1. Fresh(d) \in SUBSET Commands
  BY DEF TypeOK, Inputs, Fresh
<1>2. QueueSize - Cardinality(queued) \in Int
  <2>1. IsFiniteSet(queued)
    <3>1. IsFiniteSet(Commands) BY ConstantsAssumption, FS_Interval DEF Commands
    <3>2. queued \subseteq Commands BY DEF TypeOK
    <3> QED BY <3>1, <3>2, FS_Subset
  <2> QED BY <2>1, FS_CardinalityType, ConstantsAssumption
<1> QED BY <1>1, <1>2, LowestClosed DEF Taken

-----------------------------------------------------------------------------

(* Initially queue, datagrams and Room are well typed.                     *)
LEMMA InitTypeOK == Init => TypeOK
<1> SUFFICES ASSUME Init PROVE TypeOK
  OBVIOUS
<1>1. runs \in [Commands -> Nat] BY DEF Init
<1>2. world \in Snapshots BY ConstantsAssumption DEF Init, Snapshots
<1>3. issued \in 0..MaxCommands /\ ack \in 0..MaxCommands
  BY ConstantsAssumption DEF Init
<1> QED BY <1>1, <1>2, <1>3 DEF Init, TypeOK

(* Every step of client, channels and server keeps the types.              *)
LEMMA NextTypeOK == ASSUME TypeOK, [Next]_vars PROVE TypeOK'
<1> USE ConstantsAssumption DEF TypeOK
<1>1. CASE FixedTick
  <2>1. PICK n \in 0..PerTick :
          /\ issued + n <= MaxCommands
          /\ issued' = issued + n
          /\ pending' = pending \cup (issued + 1)..(issued + n)
    BY <1>1 DEF FixedTick
  <2>2. issued' \in 0..MaxCommands /\ pending' \in SUBSET Commands
    BY <2>1 DEF Commands
  <2>3. Outgoing(pending') \subseteq Commands
    BY <2>2, LowestClosed DEF Outgoing
  <2>4. up' \subseteq Inputs
    <3>1. inputTick' \in Nat BY <1>1 DEF FixedTick
    <3>2. [tick |-> inputTick', commands |-> Outgoing(pending')] \in Inputs
      BY <2>3, <3>1 DEF Inputs
    <3>3. up' \subseteq up \cup {[tick |-> inputTick', commands |-> Outgoing(pending')]}
      BY <1>1 DEF FixedTick, Send
    <3> QED BY <3>2, <3>3
  <2> QED BY <1>1, <2>2, <2>4 DEF FixedTick, roomVars
<1>2. CASE ReceiveSnapshot
  BY <1>2 DEF ReceiveSnapshot, ApplySnapshot, roomVars
<1>3. CASE Lose
  BY <1>3 DEF Lose, clientVars, roomVars
<1>4. CASE SubmitInput
  <2>1. PICK d \in up :
          /\ up' = up \ {d}
          /\ lastInputTick' \in {lastInputTick, d.tick}
          /\ queued' \in {queued, queued \cup Taken(d)}
          /\ refused' \in {refused, TRUE}
    BY <1>4 DEF SubmitInput
  <2>2. Taken(d) \subseteq Commands
    BY TakenClosed DEF Fresh, Inputs
  <2> QED BY <1>4, <2>1, <2>2 DEF SubmitInput, clientVars, Inputs
<1>5. CASE Step
  <2>1. ack' \in 0..MaxCommands /\ tick' \in Nat
    BY <1>5, AckAfterType DEF Step
  <2>2. down' \subseteq Snapshots
    BY <1>5, <2>1 DEF Step, Send, Snapshots
  <2>3. runs' \in [Commands -> Nat] BY <1>5 DEF Step
  <2> QED BY <1>5, <2>1, <2>2, <2>3 DEF Step, clientVars
<1>6. CASE UNCHANGED vars
  BY <1>6 DEF vars, clientVars, roomVars
<1> QED BY <1>1, <1>2, <1>3, <1>4, <1>5, <1>6 DEF Next

(* Queues, datagrams and acknowledgements keep their types.                *)
THEOREM DeliveryTypeOK == Spec => []TypeOK
BY InitTypeOK, NextTypeOK, PTL DEF Spec

-----------------------------------------------------------------------------
(* The newest snapshot applied is never ahead of the Room, and the client  *)
(* repeats exactly what lies between it and its newest command.            *)
LEMMA WorldBehind ==
  ASSUME IndInv
  PROVE  /\ world.ack <= ack /\ ack <= issued
         /\ pending = (world.ack + 1)..issued
         /\ world.ack \in Nat
<1> USE DEF IndInv, TypeOK, Snapshots
<1>1. world.ack <= ack
  <2> DEFINE now == [tick |-> tick, ack |-> ack]
  <2>1. world.tick <= now.tick BY DEF Contiguous
  <2>2. world.ack <= now.ack BY <2>1 DEF SnapshotOrder
  <2> QED BY <2>2
<1>2. pending = {s \in 1..issued : s > world.ack} BY DEF Contiguous
<1> QED BY <1>1, <1>2, ConstantsAssumption DEF Contiguous

(* The client's tick puts commands in its queue and sends a datagram; it   *)
(* keeps the invariant.                                                    *)
LEMMA FixedTickIndInv ==
  ASSUME IndInv, FixedTick PROVE SnapshotOrder' /\ Contiguous' /\ ExactlyOnce'
<1> USE ConstantsAssumption DEF TypeOK, IndInv
<1>1. PICK n \in 0..PerTick :
        /\ issued + n <= MaxCommands
        /\ HasRoom(n)
        /\ issued' = issued + n
        /\ pending' = pending \cup (issued + 1)..(issued + n)
  BY DEF FixedTick
<1>2. UNCHANGED <<world, down, ack, tick, runs, queued>>
  BY DEF FixedTick, roomVars
<1>3. world.ack \in Nat /\ ack \in Nat /\ issued \in Nat /\ world.ack <= ack
  BY WorldBehind
<1>4. pending' = {s \in 1..issued' : s > world.ack}
  BY <1>1, <1>3, WorldBehind
<1>5. issued' <= world.ack + QueueSize
  <2>1. Cardinality(pending) =
          IF world.ack + 1 > issued THEN 0 ELSE issued - (world.ack + 1) + 1
    <3>1. world.ack + 1 \in Int /\ issued \in Int BY <1>3
    <3>2. pending = (world.ack + 1)..issued BY WorldBehind
    <3> QED BY <3>1, <3>2, FS_Interval
  <2>2. Cardinality(pending) = issued - world.ack
    BY <2>1, <1>3, WorldBehind
  <2> QED BY <1>1, <1>3, <2>2 DEF HasRoom
<1>6. /\ Outgoing(pending') \subseteq pending'
      /\ \A s \in Outgoing(pending') : \A t \in pending' :
           t < s => t \in Outgoing(pending')
  <2>1. pending' \in SUBSET Commands BY <1>1 DEF Commands
  <2> QED BY <2>1, LowestClosed DEF Outgoing
<1>7. \A d \in up' : \A s \in d.commands :
        s <= issued' /\ \A t \in 1..s : t > ack => t \in d.commands
  <2> SUFFICES ASSUME NEW d \in up', NEW s \in d.commands
               PROVE  s <= issued' /\ \A t \in 1..s : t > ack => t \in d.commands
    OBVIOUS
  <2>1. CASE d \in up
    BY <1>1, <2>1 DEF Contiguous, Inputs, Commands
  <2>2. CASE d = [tick |-> inputTick', commands |-> Outgoing(pending')]
    <3>1. s \in Outgoing(pending') /\ s \in 1..issued' BY <1>4, <1>6, <2>2
    <3>2. ASSUME NEW t \in 1..s, t > ack PROVE t \in d.commands
      <4>1. t \in 1..issued' /\ t > world.ack
        BY <1>1, <1>3, <3>1, <3>2
      <4>2. t \in pending' /\ (t < s \/ t = s) BY <1>4, <4>1, <3>1
      <4> QED BY <4>2, <1>6, <2>2, <3>1
    <3> QED BY <3>1, <3>2
  <2>3. up' \subseteq up \cup {[tick |-> inputTick', commands |-> Outgoing(pending')]}
    BY DEF FixedTick, Send
  <2> QED BY <2>1, <2>2, <2>3
<1>8. SnapshotOrder' /\ ExactlyOnce'
  BY <1>2 DEF SnapshotOrder, ExactlyOnce
<1>9. Contiguous'
  BY <1>1, <1>2, <1>3, <1>4, <1>5, <1>7 DEF Contiguous, Commands
<1> QED BY <1>8, <1>9

(* A snapshot that is received, late or not, keeps the invariant.          *)
LEMMA ReceiveIndInv ==
  ASSUME IndInv, ReceiveSnapshot
  PROVE  SnapshotOrder' /\ Contiguous' /\ ExactlyOnce'
<1> USE ConstantsAssumption DEF TypeOK, IndInv
<1>1. PICK s \in down : down' = down \ {s} /\ ApplySnapshot(s)
  BY DEF ReceiveSnapshot
<1>2. UNCHANGED <<issued, up, ack, tick, runs, queued>>
  BY DEF ReceiveSnapshot, roomVars
<1>3. world' \in down \cup {world} /\ down' \subseteq down
  BY <1>1 DEF ApplySnapshot
<1>4. SnapshotOrder' /\ ExactlyOnce'
  BY <1>2, <1>3 DEF SnapshotOrder, ExactlyOnce
<1>5. world.ack <= world'.ack /\ world'.ack \in Nat /\ world.ack \in Nat
  BY <1>1 DEF ApplySnapshot, SnapshotOrder, Snapshots
<1>6. pending' = {c \in 1..issued : c > world'.ack}
  <2>1. pending = {c \in 1..issued : c > world.ack} BY DEF Contiguous
  <2> QED BY <1>1, <1>5, <2>1 DEF ApplySnapshot
<1>7. Contiguous'
  BY <1>2, <1>3, <1>5, <1>6 DEF Contiguous
<1> QED BY <1>4, <1>7

(* A datagram that the server accepts or refuses keeps the invariant.      *)
LEMMA SubmitIndInv ==
  ASSUME IndInv, SubmitInput PROVE SnapshotOrder' /\ Contiguous' /\ ExactlyOnce'
<1> USE ConstantsAssumption DEF TypeOK, IndInv
<1>1. PICK d \in up : /\ up' = up \ {d}
                      /\ queued' \in {queued, queued \cup Taken(d)}
  BY DEF SubmitInput
<1>2. UNCHANGED <<issued, pending, world, down, ack, tick, runs>>
  BY DEF SubmitInput, clientVars
<1>3. SnapshotOrder' /\ ExactlyOnce'
  BY <1>2 DEF SnapshotOrder, ExactlyOnce
<1>4. ASSUME NEW s \in Taken(d), NEW t \in 1..s, t > ack
      PROVE  t \in queued \cup Taken(d)
  <2>1. s \in d.commands /\ s - ack <= SequenceWindow /\ s \in Commands
    BY TakenClosed DEF Fresh, Inputs
  <2>2. t \in d.commands BY <1>4, <2>1 DEF Contiguous
  <2>3. t \in queued \/ t \in Fresh(d)
    BY <1>4, <2>1, <2>2 DEF Fresh, Commands
  <2> QED BY <1>4, <2>1, <2>3, TakenClosed DEF Commands
<1>5. \A s \in Taken(d) : s <= issued /\ s > ack
  BY TakenClosed DEF Fresh, Contiguous
<1>6. \A s \in queued' :
        s <= issued /\ s > ack /\ \A t \in 1..s : t > ack => t \in queued'
  <2>1. CASE queued' = queued BY <2>1 DEF Contiguous
  <2>2. CASE queued' = queued \cup Taken(d)
    BY <1>4, <1>5, <2>2 DEF Contiguous
  <2> QED BY <1>1, <2>1, <2>2
<1>7. Contiguous' BY <1>1, <1>2, <1>6 DEF Contiguous
<1> QED BY <1>3, <1>7

(* The Room's tick, which takes commands from its queue and acknowledges   *)
(* them, keeps the invariant.                                              *)
LEMMA StepIndInv ==
  ASSUME IndInv, Step PROVE SnapshotOrder' /\ Contiguous' /\ ExactlyOnce'
<1> USE ConstantsAssumption DEF TypeOK, IndInv
<1>1. /\ ack' = AckAfter /\ tick' = tick + 1 /\ queued' = {}
      /\ runs' = [s \in Commands |-> IF s \in queued THEN runs[s] + 1 ELSE runs[s]]
      /\ down' \subseteq down \cup {[tick |-> tick', ack |-> ack']}
      /\ UNCHANGED <<issued, pending, world, up>>
  BY DEF Step, Send, clientVars
<1>2. ack' \in Nat /\ ack' >= ack /\ ack' <= issued
  BY <1>1, AckAfterType DEF Contiguous
<1>3. \A s \in Commands : s \in queued <=> s > ack /\ s <= ack'
  <2> SUFFICES ASSUME NEW s \in Commands
               PROVE  s \in queued <=> s > ack /\ s <= ack'
    OBVIOUS
  <2>1. CASE queued = {} BY <1>1, <2>1, AckAfterType DEF Commands
  <2>2. CASE queued # {}
    <3>1. ack' \in queued /\ \A t \in queued : t <= ack'
      BY <1>1, <2>2, AckAfterType
    <3>2. s \in queued => s > ack /\ s <= ack' BY <3>1 DEF Contiguous
    <3>3. s > ack /\ s <= ack' => s \in queued
      BY <3>1 DEF Contiguous, Commands
    <3> QED BY <3>2, <3>3
  <2> QED BY <2>1, <2>2
<1>4. ExactlyOnce'
  <2> SUFFICES ASSUME NEW s \in Commands
               PROVE  runs'[s] = IF s <= ack' THEN 1 ELSE 0
    BY DEF ExactlyOnce
  <2>1. runs[s] = IF s <= ack THEN 1 ELSE 0 BY DEF ExactlyOnce
  <2>2. runs'[s] = IF s \in queued THEN runs[s] + 1 ELSE runs[s] BY <1>1
  <2> QED BY <1>2, <1>3, <2>1, <2>2 DEF Commands
<1>5. SnapshotOrder'
  <2> SUFFICES ASSUME NEW s \in (down \cup {world, [tick |-> tick, ack |-> ack]})',
                      NEW t \in (down \cup {world, [tick |-> tick, ack |-> ack]})',
                      s.tick <= t.tick
               PROVE  s.ack <= t.ack
    BY DEF SnapshotOrder
  <2> DEFINE new == [tick |-> tick', ack |-> ack']
             now == [tick |-> tick, ack |-> ack]
  <2>1. /\ s \in down \cup {world} \/ s = new
        /\ t \in down \cup {world} \/ t = new
    BY <1>1
  <2>2. \A x \in down \cup {world} :
          /\ x.tick \in Nat /\ x.ack \in Nat
          /\ x.tick <= tick /\ x.ack <= ack
    <3> TAKE x \in down \cup {world}
    <3>1. x \in Snapshots OBVIOUS
    <3>2. x.tick <= now.tick BY DEF Contiguous
    <3>3. x.ack <= now.ack BY <3>2 DEF SnapshotOrder
    <3> QED BY <3>1, <3>2, <3>3 DEF Snapshots
  <2>3. CASE s \in down \cup {world} /\ t \in down \cup {world}
    BY <2>3 DEF SnapshotOrder
  <2>4. CASE s \in down \cup {world} /\ t = new
    BY <1>2, <2>2, <2>4
  <2>5. CASE s = new /\ t \in down \cup {world}
    BY <1>1, <2>2, <2>5
  <2>6. CASE s = new /\ t = new BY <1>2, <2>6
  <2> QED BY <2>1, <2>3, <2>4, <2>5, <2>6
<1>6. Contiguous'
  <2>1. \A s \in (down \cup {world})' : s.tick <= tick'
    BY <1>1 DEF Contiguous, Snapshots
  <2>2. \A d \in up : d.commands \subseteq Commands BY DEF Inputs
  <2>3. \A d \in up' : \A s \in d.commands :
          s <= issued' /\ \A t \in 1..s : t > ack' => t \in d.commands
    BY <1>1, <1>2, <2>2 DEF Contiguous, Commands
  <2> QED BY <1>1, <1>2, <2>1, <2>3 DEF Contiguous
<1> QED BY <1>4, <1>5, <1>6

(* Every step keeps the inductive invariant.                               *)
LEMMA NextIndInv == ASSUME IndInv, [Next]_vars PROVE IndInv'
<1>1. TypeOK' BY NextTypeOK DEF IndInv
<1>2. CASE Lose
  BY <1>1, <1>2 DEF Lose, clientVars, roomVars, IndInv, SnapshotOrder,
                    Contiguous, ExactlyOnce
<1>3. CASE UNCHANGED vars
  BY <1>1, <1>3 DEF vars, clientVars, roomVars, IndInv, SnapshotOrder,
                    Contiguous, ExactlyOnce
<1> QED
  BY <1>1, <1>2, <1>3, FixedTickIndInv, ReceiveIndInv, SubmitIndInv, StepIndInv
     DEF Next, IndInv

(* Nothing has been sent at first, so the invariant holds.                 *)
LEMMA InitIndInv == Init => IndInv
BY InitTypeOK, ConstantsAssumption
   DEF IndInv, Init, SnapshotOrder, Contiguous, ExactlyOnce, Commands

(* The inductive invariant: what client, datagrams and Room hold fits      *)
(* together without a gap.                                                 *)
THEOREM DeliveryInvariant == Spec => []IndInv
BY InitIndInv, NextIndInv, PTL DEF Spec

(* Commands run in order, without a gap, and each once.                    *)
THEOREM DeliveryExactlyOnce == Spec => []ExactlyOnce
<1>1. IndInv => ExactlyOnce BY DEF IndInv
<1> QED BY <1>1, DeliveryInvariant, PTL

(* A command that has not run is still repeated by the client.             *)
THEOREM DeliveryNothingForgotten == Spec => []NothingForgotten
<1>1. ASSUME IndInv, NEW s \in 1..issued, runs[s] = 0 PROVE s \in pending
  <2>1. s > ack
    BY <1>1, ConstantsAssumption DEF IndInv, TypeOK, ExactlyOnce, Commands
  <2> QED BY <1>1, <2>1, WorldBehind DEF IndInv, TypeOK
<1>2. IndInv => NothingForgotten BY <1>1 DEF NothingForgotten
<1> QED BY <1>2, DeliveryInvariant, PTL

-----------------------------------------------------------------------------
(* A queue with room for the whole set takes the whole set.                *)
LEMMA LowestTakesAll ==
  ASSUME NEW S \in SUBSET Commands, NEW n \in Int, Cardinality(S) <= n
  PROVE  Lowest(S, n) = S
<1>1. ASSUME NEW s \in S PROVE Cardinality({t \in S : t < s}) < n
  <2> DEFINE A == {t \in S : t < s}
  <2>1. IsFiniteSet(S)
    <3>1. IsFiniteSet(Commands) BY ConstantsAssumption, FS_Interval DEF Commands
    <3> QED BY <3>1, FS_Subset
  <2>2. s \in Int BY DEF Commands
  <2>3. A \subseteq S /\ s \notin A BY <2>2
  <2>4. Cardinality(A) < Cardinality(S) /\ Cardinality(A) \in Nat
    <3>1. A # S BY <2>3
    <3>2. Cardinality(A) <= Cardinality(S) /\ Cardinality(A) # Cardinality(S)
      BY <2>1, <2>3, <3>1, FS_Subset
    <3>3. Cardinality(A) \in Nat /\ Cardinality(S) \in Nat
      BY <2>1, <2>3, FS_Subset, FS_CardinalityType
    <3> QED BY <3>2, <3>3
  <2>5. Cardinality(S) \in Nat BY <2>1, FS_CardinalityType
  <2> QED BY <2>4, <2>5
<1> QED BY <1>1 DEF Lowest

(* The client keeps no more than QueueSize commands open, so the Room has  *)
(* room for every one it has not carried out.                              *)
LEMMA FreshFits ==
  ASSUME IndInv, NEW d \in up
  PROVE  LET new == {s \in d.commands : s > ack} \ queued IN
           /\ Fresh(d) = new
           /\ Cardinality(new) <= QueueSize - Cardinality(queued)
           /\ QueueSize - Cardinality(queued) \in Int
<1> USE ConstantsAssumption DEF TypeOK, IndInv
<1> DEFINE new  == {s \in d.commands : s > ack} \ queued
           open == (ack + 1)..issued
<1>1. /\ ack \in Nat /\ issued \in Nat /\ ack <= issued
      /\ issued - ack <= QueueSize
  BY WorldBehind DEF Contiguous
<1>2. \A s \in d.commands : s \in Nat /\ s <= issued
  BY DEF Contiguous, Inputs, Commands
<1>3. Fresh(d) = new
  <2>1. \A s \in d.commands : s - ack <= SequenceWindow
    BY <1>1, <1>2, WindowAssumption
  <2> QED BY <2>1 DEF Fresh
<1>4. new \subseteq open /\ queued \subseteq open
  <2>1. new \subseteq open BY <1>1, <1>2
  <2>2. \A s \in queued : s \in Nat /\ s <= issued /\ s > ack
    BY DEF Contiguous, Commands
  <2> QED BY <1>1, <2>1, <2>2
<1>5. IsFiniteSet(open) /\ Cardinality(open) = issued - ack
  <2>1. ack + 1 \in Int /\ issued \in Int BY <1>1
  <2>2. /\ IsFiniteSet(open)
        /\ Cardinality(open) = IF ack + 1 > issued THEN 0 ELSE issued - (ack + 1) + 1
    BY <2>1, FS_Interval
  <2> QED BY <1>1, <2>2
<1>6. IsFiniteSet(new) /\ IsFiniteSet(queued)
  BY <1>4, <1>5, FS_Subset
<1>7. Cardinality(new) \in Nat /\ Cardinality(queued) \in Nat
  BY <1>6, FS_CardinalityType
<1>8. Cardinality(new \cup queued) = Cardinality(new) + Cardinality(queued)
  <2>1. new \cap queued = {} OBVIOUS
  <2>2. Cardinality(new \cup queued) =
          Cardinality(new) + Cardinality(queued) - Cardinality(new \cap queued)
    BY <1>6, FS_Union
  <2>3. Cardinality(new \cap queued) = 0 BY <2>1, FS_EmptySet
  <2> HIDE DEF new
  <2> QED BY <1>7, <2>2, <2>3
<1>9. Cardinality(new \cup queued) <= issued - ack
  <2>1. new \cup queued \subseteq open BY <1>4
  <2>2. Cardinality(new \cup queued) <= Cardinality(open)
    BY <1>5, <2>1, FS_Subset
  <2> QED BY <1>5, <2>2
<1> HIDE DEF new
<1>10. /\ Cardinality(new) <= QueueSize - Cardinality(queued)
       /\ QueueSize - Cardinality(queued) \in Int
  BY <1>1, <1>7, <1>8, <1>9
<1> USE DEF new
<1> QED BY <1>3, <1>10

(* Neither the Room's queue bound nor its sequence window ever rejects a   *)
(* command of this client that the Room has not seen.                      *)
THEOREM DeliveryNeverOverflows == Spec => []NeverOverflows
<1>1. ASSUME IndInv, NEW d \in up
      PROVE  Taken(d) = {s \in d.commands : s > ack} \ queued
  <2>1. Fresh(d) \in SUBSET Commands
    BY <1>1 DEF IndInv, TypeOK, Inputs, Fresh
  <2> QED BY <1>1, <2>1, FreshFits, LowestTakesAll DEF Taken
<1>2. IndInv => NeverOverflows BY <1>1 DEF NeverOverflows
<1> QED BY <1>2, DeliveryInvariant, PTL

-----------------------------------------------------------------------------
(* ActionDelivery implements CommandStream.                                *)
LEMMA NextStream ==
  ASSUME IndInv, IndInv', [Next]_vars PROVE [Stream!Next]_(Stream!vars)
<1> USE DEF Stream!vars, IndInv, TypeOK
<1>1. CASE FixedTick
  <2>1. issued' \in Nat /\ issued' >= issued /\ UNCHANGED <<ack, world>>
    BY <1>1, ConstantsAssumption DEF FixedTick, roomVars
  <2>2. issued' - world.ack <= QueueSize
    BY <2>1, ConstantsAssumption DEF Contiguous, Snapshots
  <2> QED BY <2>1, <2>2 DEF Stream!Next, Stream!Issue
<1>2. CASE ReceiveSnapshot
  <2>1. UNCHANGED <<issued, ack>>
    BY <1>2 DEF ReceiveSnapshot, roomVars
  <2>2. world' = world \/ world'.ack >= world.ack
    BY <1>2 DEF ReceiveSnapshot, ApplySnapshot, SnapshotOrder, Snapshots
  <2>3. world'.ack \in Nat /\ world.ack \in Nat /\ world'.ack <= ack'
    <3> DEFINE now == [tick |-> tick', ack |-> ack']
    <3>1. world'.tick <= now.tick BY DEF Contiguous
    <3>2. world'.ack <= now.ack BY <3>1 DEF SnapshotOrder
    <3> QED BY <3>2 DEF Snapshots
  <2> QED BY <2>1, <2>2, <2>3 DEF Stream!Next, Stream!Learn
<1>3. CASE Lose \/ SubmitInput
  BY <1>3 DEF Lose, SubmitInput, clientVars, roomVars
<1>4. CASE Step
  <2>1. UNCHANGED <<issued, world>> BY <1>4 DEF Step, clientVars
  <2>2. ack' \in Nat /\ ack' >= ack /\ ack' <= issued
    BY <1>4, AckAfterType DEF Step, Contiguous
  <2> QED BY <2>1, <2>2 DEF Stream!Next, Stream!CarryOut
<1>5. CASE UNCHANGED vars BY <1>5 DEF vars, clientVars, roomVars
<1> QED BY <1>1, <1>2, <1>3, <1>4, <1>5 DEF Next

(* The promise to the player: commands are carried out in order, each      *)
(* once, and the client never has more than QueueSize open ones.           *)
THEOREM DeliveryKeepsStream == Spec => StreamKept
<1>1. Init => Stream!Init BY DEF Init, Stream!Init
<1>2. IndInv /\ IndInv' /\ [Next]_vars => [Stream!Next]_(Stream!vars)
  BY NextStream
<1> QED BY <1>1, <1>2, DeliveryInvariant, PTL DEF Spec, StreamKept, Stream!Spec
=============================================================================
