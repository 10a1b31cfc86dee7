--------------------------- MODULE PlaybackProofs ---------------------------
(***************************************************************************)
(* Proofs about what a frame shows, for any arena, number of hit points    *)
(* and length of the match: the prediction is the newest snapshot and the  *)
(* inputs it does not acknowledge, and damage and attacks are shown once.  *)
(*                                                                         *)
(* That Walk is what its name says, for paths of every length, is proved   *)
(* by the least counterexample: the theorems of induction take an operator *)
(* and no backend here can give them one.                                  *)
(***************************************************************************)
EXTENDS Playback, SequenceTheorems, NaturalsInduction, WellFoundedInduction, TLAPS

-----------------------------------------------------------------------------
(* Walks.                                                                  *)

(* A set of numbers that has 0 and every successor has them all.           *)
LEMMA Reaches ==
  ASSUME NEW S, 0 \in S, \A n \in Nat : n \in S => n + 1 \in S
  PROVE  Nat \subseteq S
<1> SUFFICES ASSUME Nat \ S # {} PROVE FALSE
  OBVIOUS
<1>1. PICK n \in Nat \ S : \A m \in Nat \ S : ~ (m < n)
  <2> DEFINE R == OpToRel(<, Nat)
  <2>1. \E n \in Nat \ S : \A m \in Nat \ S : ~ (<<m, n>> \in R)
    BY NatLessThanWellFounded, WFMin
  <2>2. \A m, n \in Nat : <<m, n>> \in R <=> m < n
    BY DEF OpToRel
  <2> HIDE DEF R
  <2> QED
    BY <2>1, <2>2
<1>2. n # 0 /\ n - 1 \in Nat /\ n - 1 < n
  BY <1>1
<1>3. n - 1 \in S
  BY <1>1, <1>2
<1> QED
  BY <1>1, <1>2, <1>3

(* at is the walk's positions, one by one.                                 *)
Steps(at, position, path, n) ==
  at = [k \in 0..n |-> IF k = 0 THEN position ELSE ApplyMovement(at[k - 1], path[k])]

(* There are such positions for every path,                                *)
LEMMA StepsExist ==
  ASSUME NEW position, NEW path, NEW n \in Nat
  PROVE  \E at : Steps(at, position, path, n)
<1> DEFINE S == {m \in Nat : \E at : Steps(at, position, path, m)}
<1>1. 0 \in S
  <2>1. Steps([k \in 0..0 |-> position], position, path, 0)
    BY DEF Steps
  <2> QED
    BY <2>1
<1>2. ASSUME NEW m \in Nat, m \in S PROVE m + 1 \in S
  <2>1. PICK at : Steps(at, position, path, m)
    BY <1>2
  <2> DEFINE next == [k \in 0..(m + 1) |->
                       IF k = m + 1 THEN ApplyMovement(at[m], path[k]) ELSE at[k]]
  <2>2. \A k \in 0..m : next[k] = at[k]
    OBVIOUS
  <2>3. \A k \in 0..m : at[k] = IF k = 0 THEN position
                                ELSE ApplyMovement(at[k - 1], path[k])
    BY <2>1 DEF Steps
  <2>4. ASSUME NEW k \in 0..(m + 1)
        PROVE  next[k] = IF k = 0 THEN position ELSE ApplyMovement(next[k - 1], path[k])
    <3>1. CASE k = m + 1
      <4>1. next[k] = ApplyMovement(at[m], path[k]) /\ k - 1 = m /\ k # 0
        BY <3>1
      <4> QED
        BY <4>1, <2>2
    <3>2. CASE k # m + 1 /\ k # 0
      <4>1. k \in 0..m /\ k - 1 \in 0..m
        BY <3>2
      <4> QED
        BY <4>1, <3>2, <2>2, <2>3
    <3>3. CASE k = 0
      BY <3>3, <2>2, <2>3
    <3> QED
      BY <3>1, <3>2, <3>3
  <2>5. Steps(next, position, path, m + 1)
    <3> HIDE DEF next
    <3>1. next = [k \in 0..(m + 1) |-> next[k]]
      BY DEF next
    <3> QED
      BY <2>4, <3>1 DEF Steps
  <2> QED
    BY <2>5
<1>3. Nat \subseteq S
  <2> HIDE DEF S
  <2> QED
    BY <1>1, <1>2, Reaches
<1> QED
  BY <1>3

(* and Walk ends at the last.                                              *)
LEMMA WalkSteps ==
  ASSUME NEW position, NEW path, Len(path) \in Nat
  PROVE  \E at : /\ Steps(at, position, path, Len(path))
                /\ Walk(position, path) = at[Len(path)]
<1> DEFINE at == CHOOSE f : Steps(f, position, path, Len(path))
<1>1. Steps(at, position, path, Len(path))
  <2>1. \E f : Steps(f, position, path, Len(path))
    BY StepsExist
  <2> QED
    BY <2>1
<1>2. Walk(position, path) = at[Len(path)]
  BY DEF Walk, Steps
<1> HIDE DEF at
<1> QED
  BY <1>1, <1>2

(* Equal paths are walked alike.                                           *)
LEMMA StepsAgree ==
  ASSUME NEW p, NEW q, NEW position, NEW path, NEW other, NEW n \in Nat,
         Steps(p, position, path, n), Steps(q, position, other, n),
         \A k \in 1..n : path[k] = other[k]
  PROVE  \A k \in 0..n : p[k] = q[k]
<1> DEFINE S == {k \in Nat : k <= n => p[k] = q[k]}
<1>1. \A k \in 0..n :
        /\ p[k] = IF k = 0 THEN position ELSE ApplyMovement(p[k - 1], path[k])
        /\ q[k] = IF k = 0 THEN position ELSE ApplyMovement(q[k - 1], other[k])
  BY DEF Steps
<1>2. 0 \in S
  BY <1>1
<1>3. ASSUME NEW k \in Nat, k \in S PROVE k + 1 \in S
  <2>1. SUFFICES ASSUME k + 1 <= n PROVE p[k + 1] = q[k + 1]
    OBVIOUS
  <2>2. p[k] = q[k] /\ k + 1 \in 1..n /\ k + 1 \in 0..n
    BY <1>3, <2>1
  <2>3. /\ p[k + 1] = ApplyMovement(p[k], path[k + 1])
        /\ q[k + 1] = ApplyMovement(q[k], other[k + 1])
    <3>1. (k + 1) - 1 = k /\ k + 1 # 0
      OBVIOUS
    <3> QED
      BY <1>1, <2>2, <3>1
  <2> QED
    BY <2>2, <2>3
<1>4. Nat \subseteq S
  <2> HIDE DEF S
  <2> QED
    BY <1>2, <1>3, Reaches
<1> QED
  BY <1>4

(* To walk two paths joined is to walk the one and then the other.         *)
LEMMA WalkJoins ==
  ASSUME NEW position, NEW S, NEW s \in Seq(S), NEW t \in Seq(S)
  PROVE  Walk(position, s \o t) = Walk(Walk(position, s), t)
<1> DEFINE m == Len(s)
           n == Len(t)
           path == s \o t
<1>1. /\ m \in Nat /\ n \in Nat /\ Len(path) = m + n
      /\ \A k \in 1..m : path[k] = s[k]
      /\ \A k \in 1..n : path[m + k] = t[k]
  OBVIOUS
<1> HIDE DEF m, n, path
<1>2. PICK p : Steps(p, position, path, m + n) /\ Walk(position, path) = p[m + n]
  <2>1. \E p : /\ Steps(p, position, path, Len(path))
               /\ Walk(position, path) = p[Len(path)]
    <3>1. Len(path) \in Nat
      BY <1>1
    <3> QED
      BY <3>1, WalkSteps
  <2> QED
    BY <1>1, <2>1
<1>3. PICK a : Steps(a, position, s, m) /\ Walk(position, s) = a[m]
  BY <1>1, WalkSteps DEF m
<1>4. PICK b : Steps(b, a[m], t, n) /\ Walk(a[m], t) = b[n]
  BY <1>1, WalkSteps DEF n
<1>5. \A k \in 0..(m + n) :
        p[k] = IF k = 0 THEN position ELSE ApplyMovement(p[k - 1], path[k])
  BY <1>2 DEF Steps
<1> DEFINE head == [k \in 0..m |-> p[k]]
           tail == [k \in 0..n |-> p[m + k]]
<1>6. Steps(head, position, path, m)
  <2>1. \A k \in 0..m :
          head[k] = IF k = 0 THEN position ELSE ApplyMovement(head[k - 1], path[k])
    <3> TAKE k \in 0..m
    <3>1. k \in 0..(m + n) /\ (k # 0 => k - 1 \in 0..m)
      BY <1>1
    <3> QED
      BY <1>5, <3>1
  <2>2. head = [k \in 0..m |-> head[k]]
    OBVIOUS
  <2> HIDE DEF head
  <2> QED
    BY <2>1, <2>2 DEF Steps
<1>7. p[m] = a[m]
  <2>1. \A k \in 0..m : head[k] = a[k]
    <3> HIDE DEF head
    <3> QED
      BY <1>1, <1>3, <1>6, StepsAgree
  <2> QED
    BY <1>1, <2>1
<1>8. Steps(tail, a[m], t, n)
  <2>1. \A k \in 0..n :
          tail[k] = IF k = 0 THEN a[m] ELSE ApplyMovement(tail[k - 1], t[k])
    <3> TAKE k \in 0..n
    <3>1. CASE k = 0
      BY <1>1, <1>7, <3>1
    <3>2. CASE k # 0
      <4>1. /\ k \in 1..n /\ k - 1 \in 0..n /\ m + k \in 0..(m + n)
            /\ (m + k) - 1 = m + (k - 1) /\ m + k # 0
        BY <1>1, <3>2
      <4>2. p[m + k] = ApplyMovement(p[m + (k - 1)], path[m + k])
        BY <1>5, <4>1
      <4>3. tail[k] = p[m + k] /\ tail[k - 1] = p[m + (k - 1)]
        BY <4>1
      <4> QED
        BY <1>1, <3>2, <4>1, <4>2, <4>3
    <3> QED
      BY <3>1, <3>2
  <2>2. tail = [k \in 0..n |-> tail[k]]
    OBVIOUS
  <2> HIDE DEF tail
  <2> QED
    BY <2>1, <2>2 DEF Steps
<1>9. p[m + n] = b[n]
  <2>1. \A k \in 0..n : tail[k] = b[k]
    <3> HIDE DEF tail
    <3> QED
      BY <1>1, <1>4, <1>8, StepsAgree
  <2> QED
    BY <1>1, <2>1
<1> QED
  BY <1>2, <1>3, <1>4, <1>9 DEF path

(* n copies of a move.                                                     *)
Copies(n, m) == [i \in 1..n |-> m]

(* Copies(n, m) is the sequence of n times m.                              *)
LEMMA CopiesOf ==
  ASSUME NEW S, NEW n \in Nat, NEW m \in S
  PROVE  Copies(n, m) \in Seq(S) /\ Len(Copies(n, m)) = n
<1> QED
  BY DEF Copies

(* What remains of a sequence from a place on,                             *)
Rest(s, a) == SubSeq(s, a + 1, Len(s))

(* and when another is appended.                                           *)
LEMMA RestOfJoined ==
  ASSUME NEW s \in Seq(Moves), NEW t \in Seq(Moves), NEW a \in 0..Len(s),
         NEW from
  PROVE  /\ Rest(s, a) \in Seq(Moves)
         /\ Rest(s, a) = [i \in 1..(Len(s) - a) |-> (s \o t)[a + i]]
         /\ t = [i \in 1..Len(t) |-> (s \o t)[Len(s) + i]]
         /\ Walk(from, Rest(s \o t, a)) = Walk(Walk(from, Rest(s, a)), t)
<1>1. PICK m \in Nat, n \in Nat : m = Len(s) /\ n = Len(t)
  BY LenProperties
<1>2. PICK u : u = s \o t
  OBVIOUS
<1>3. PICK old : old = SubSeq(s, a + 1, m)
  OBVIOUS
<1>4. PICK all : all = SubSeq(u, a + 1, m + n)
  OBVIOUS
<1>5. /\ u \in Seq(Moves) /\ Len(u) = m + n
      /\ \A i \in 1..(m + n) : u[i] = IF i <= m THEN s[i] ELSE t[i - m]
  BY <1>1, <1>2, ConcatProperties
<1>6. a \in Nat /\ a <= m /\ m - a \in Nat
  BY <1>1
<1>7. /\ old \in Seq(Moves) /\ Len(old) = m - a
      /\ \A i \in 1..(m - a) : old[i] = s[a + i]
  <2>1. \A i \in (a + 1)..m : s[i] \in Moves
    BY <1>1, <1>6
  <2> QED
    BY <1>1, <1>3, <1>6, <2>1, SubSeqProperties
<1>8. /\ all \in Seq(Moves) /\ Len(all) = m + n - a
      /\ \A i \in 1..(m + n - a) : all[i] = u[a + i]
  <2>1. \A i \in (a + 1)..(m + n) : u[i] \in Moves
    BY <1>5, <1>6
  <2> QED
    BY <1>4, <1>5, <1>6, <2>1, SubSeqProperties
<1>9. \A i \in 1..(m - a) : old[i] = u[a + i]
  BY <1>5, <1>6, <1>7
<1>10. \A i \in 1..n : t[i] = u[m + i]
  BY <1>5, <1>6
<1>11. old = [i \in 1..(m - a) |-> u[a + i]]
  BY <1>6, <1>7, <1>9
<1>12. t = [i \in 1..n |-> u[m + i]]
  BY <1>1, <1>10
<1>13. all = old \o t
  <2>1. PICK both : both = old \o t
    OBVIOUS
  <2>2. /\ both \in Seq(Moves) /\ Len(both) = (m - a) + n
        /\ \A i \in 1..((m - a) + n) :
             both[i] = IF i <= m - a THEN old[i] ELSE t[i - (m - a)]
    <3>1. /\ both \in Seq(Moves) /\ Len(both) = Len(old) + Len(t)
          /\ \A i \in 1..(Len(old) + Len(t)) :
               both[i] = IF i <= Len(old) THEN old[i] ELSE t[i - Len(old)]
      BY <1>7, <2>1, ConcatProperties
    <3> QED
      BY <1>1, <1>7, <3>1
  <2>3. \A i \in 1..((m - a) + n) : both[i] = u[a + i]
    <3> TAKE i \in 1..((m - a) + n)
    <3>1. CASE i <= m - a
      <4>1. i \in 1..(m - a)
        BY <1>6, <3>1
      <4> QED
        BY <1>9, <2>2, <3>1, <4>1
    <3>2. CASE ~(i <= m - a)
      <4>1. i - (m - a) \in 1..n /\ m + (i - (m - a)) = a + i
        BY <1>6, <3>2
      <4>2. t[i - (m - a)] = u[m + (i - (m - a))]
        BY <1>10, <4>1
      <4> QED
        BY <2>2, <3>2, <4>1, <4>2
    <3> QED
      BY <3>1, <3>2
  <2>4. Len(all) = Len(both) /\ \A i \in 1..Len(all) : all[i] = both[i]
    BY <1>6, <1>8, <2>2, <2>3
  <2> QED
    BY <1>8, <2>1, <2>2, <2>4, SeqEqual
<1>14. Walk(from, old \o t) = Walk(Walk(from, old), t)
  BY <1>7, WalkJoins
<1>15. old = Rest(s, a) /\ all = Rest(s \o t, a)
  BY <1>1, <1>2, <1>3, <1>4, <1>5 DEF Rest
<1> QED
  BY <1>1, <1>2, <1>7, <1>11, <1>12, <1>13, <1>14, <1>15

-----------------------------------------------------------------------------
(* Pending inputs.                                                         *)

(* A run of numbers has a greatest.                                        *)
LEMMA MaxOfRun == ASSUME NEW k \in Nat PROVE Max(0..k) = k
<1>1. k \in 0..k /\ \A y \in 0..k : k >= y
  OBVIOUS
<1>2. \A x \in 0..k : (\A y \in 0..k : x >= y) => x = k
  OBVIOUS
<1> QED
  BY <1>1, <1>2 DEF Max

(* a + 1 up to a + n *)
Run(a, n) == [i \in 1..n |-> a + i]

(* Run(a, n) is the sequence of the n numbers after a.                     *)
LEMMA RunOf ==
  ASSUME NEW a \in Nat, NEW n \in Nat
  PROVE  /\ Run(a, n) \in Seq(Nat) /\ Len(Run(a, n)) = n
         /\ \A i \in 1..n : Run(a, n)[i] = a + i
<1> QED
  BY DEF Run

(* Of the inputs that are pending the acknowledged ones are taken off.     *)
LEMMA UnackedRun ==
  ASSUME NEW a \in Nat, NEW n \in Nat, pending = Run(a, n),
         NEW acked \in a..(a + n)
  PROVE  Unacked(acked) = Run(acked, a + n - acked)
<1>1. /\ pending \in Seq(Nat) /\ Len(pending) = n
      /\ \A i \in 1..n : pending[i] = a + i
  BY DEF Run
<1>2. {k \in 0..n : \A i \in 1..k : pending[i] <= acked} = 0..(acked - a)
  <2>1. ASSUME NEW k \in 0..n
        PROVE  (\A i \in 1..k : pending[i] <= acked) <=> k <= acked - a
    <3>1. \A i \in 1..k : pending[i] = a + i
      BY <1>1
    <3>2. k = 0 \/ k \in 1..k
      OBVIOUS
    <3> QED
      BY <3>1, <3>2
  <2>2. acked - a \in 0..n
    OBVIOUS
  <2> QED
    BY <2>1, <2>2
<1>3. Unacked(acked) = SubSeq(pending, (acked - a) + 1, n)
  <2>1. acked - a \in Nat
    OBVIOUS
  <2> QED
    BY <1>1, <1>2, <2>1, MaxOfRun DEF Unacked
<1>4. SubSeq(pending, (acked - a) + 1, n) =
        [i \in 1..(n - (acked - a)) |-> pending[i + (acked - a)]]
  <2> DEFINE b == acked - a
  <2>1. b \in Nat /\ b <= n
    OBVIOUS
  <2>2. \A i \in (b + 1)..n : pending[i] \in Nat
    BY <1>1, <2>1
  <2>3. SubSeq(pending, b + 1, n) \in Seq(Nat) /\ Len(SubSeq(pending, b + 1, n)) = n - b
    BY <1>1, <2>1
  <2>4. \A i \in 1..(n - b) : SubSeq(pending, b + 1, n)[i] = pending[i + b]
    BY <1>1, <2>1
  <2> HIDE DEF b
  <2>5. SubSeq(pending, b + 1, n) = [i \in 1..(n - b) |-> pending[i + b]]
    BY <2>1, <2>3, <2>4
  <2> QED
    BY <2>5 DEF b
<1>5. \A i \in 1..(n - (acked - a)) : pending[i + (acked - a)] = acked + i
  BY <1>1
<1>6. n - (acked - a) = a + n - acked
  OBVIOUS
<1> QED
  BY <1>3, <1>4, <1>5, <1>6 DEF Run

-----------------------------------------------------------------------------
(* The steps.                                                              *)

(* The greater of two numbers, as the code takes it.                       *)
LEMMA MaxOfTwo ==
  ASSUME NEW k \in Int
  PROVE  Max({0, k}) = IF k > 0 THEN k ELSE 0
<1> DEFINE m == IF k > 0 THEN k ELSE 0
<1>1. m \in {0, k} /\ \A y \in {0, k} : m >= y
  OBVIOUS
<1>2. \A x \in {0, k} : (\A y \in {0, k} : x >= y) => x = m
  OBVIOUS
<1> HIDE DEF m
<1>3. Max({0, k}) = m
  BY <1>1, <1>2 DEF Max
<1> QED
  BY <1>3 DEF m

(* A step after which nothing new is told keeps what was told.             *)
LEMMA NothingNew ==
  ASSUME TellsOnce, Told' \subseteq Told, tick' = tick,
         moves' \in Seq(Moves), input' \in input..inputTick',
         arrived' = << >> \/ \E s \in Told' : arrived' = <<s>>
  PROVE  TellsOnce'
<1>1. \A s \in Told' : /\ s.tick \in 0..tick' /\ s.acked \in 0..input'
                      /\ s.hp \in 0..MaxHP /\ s.attack \in 0..s.tick
  <2>1. input \in Nat /\ input' \in Int /\ input <= input'
    BY LenProperties DEF TellsOnce, inputTick
  <2> QED
    BY <2>1 DEF TellsOnce
<1>2. input' \in 0..inputTick'
  BY LenProperties DEF TellsOnce, inputTick
<1>3. Chain'
  BY DEF TellsOnce, Chain
<1> QED
  BY <1>1, <1>2, <1>3 DEF TellsOnce

(* The initial state.                                                      *)
LEMMA InitPlayback == Init => IndInv
<1> SUFFICES ASSUME Init PROVE IndInv
  OBVIOUS
<1>1. Told = {world} /\ world = [tick |-> 0, position |-> 0, acked |-> 0,
                                 hp |-> MaxHP, attack |-> 0]
  BY DEF Init, Told, ToSet, Snapshot, InitialState
<1>2. MaxHP \in Nat
  BY PlaybackAssumption
<1>3. TellsOnce
  BY <1>1, <1>2, EmptySeq DEF Init, TellsOnce, Chain, inputTick
<1>4. announced = << >> /\ damage = 0 /\ newest = world
  BY DEF Init
<1>5. ShownSoFar
  BY <1>1, <1>2, <1>4, EmptySeq DEF ShownSoFar, ShownOnce, IsInjective, ToSet
<1>6. Predicts
  <2>1. newest.acked = 0 /\ newest.position = 0 /\ inputTick = 0 /\ pending = << >>
    BY <1>1, <1>4 DEF Init, inputTick
  <2>2. pending = [i \in 1..(inputTick - newest.acked) |-> newest.acked + i]
    BY <2>1
  <2>3. SubSeq(moves, newest.acked + 1, inputTick) = << >>
    BY <2>1, SubSeqEmpty
  <2>4. PICK at : Steps(at, 0, << >>, 0) /\ Walk(0, << >>) = at[0]
    <3>1. Len(<< >>) = 0
      OBVIOUS
    <3>2. \E at : Steps(at, 0, << >>, Len(<< >>)) /\ Walk(0, << >>) = at[Len(<< >>)]
      BY <3>1, WalkSteps
    <3> QED
      BY <3>1, <3>2
  <2>5. at[0] = 0
    BY <2>4 DEF Steps
  <2> QED
    BY <2>1, <2>2, <2>3, <2>4, <2>5 DEF Predicts, PredictedFromNewest, Init
<1> QED
  BY <1>3, <1>5, <1>6 DEF IndInv

(* The Room's step: its snapshot is the newest there is.                   *)
LEMMA StepTells == ASSUME TellsOnce, Step PROVE TellsOnce'
<1> DEFINE cur == Snapshot(state, tick)
<1> DEFINE new == Snapshot(state', tick')
<1>1. cur \in Told
  BY DEF Told
<1>2. Told' \subseteq Told \cup {new}
  BY DEF Step, Told, clientVars
<1>3. tick \in Nat /\ tick' = tick + 1
  BY DEF Step, TellsOnce
<1>4. /\ cur.tick = tick /\ cur.hp = state.hp /\ cur.attack = state.attack
      /\ cur.acked = state.acked
  BY DEF Snapshot
<1>5. /\ new.tick = tick + 1
      /\ new.hp \in {state.hp, state.hp - 1} \cap Nat
      /\ new.attack \in {0, state.attack, tick + 1}
      /\ new.acked = input
  BY <1>3 DEF Step, Snapshot, Attacks
<1>6. /\ cur.hp \in 0..MaxHP /\ cur.attack \in 0..tick /\ MaxHP \in Nat
      /\ input \in Nat
  BY <1>1, <1>4, PlaybackAssumption, LenProperties DEF TellsOnce, inputTick
<1>7. new.hp \in 0..MaxHP /\ new.attack \in 0..(tick + 1)
  BY <1>3, <1>4, <1>5, <1>6
<1>8. \A s \in Told : /\ s.tick \in 0..tick /\ s.acked \in 0..input
                     /\ s.hp \in 0..MaxHP /\ s.attack \in 0..s.tick
  BY DEF TellsOnce
<1>9. \A s \in Told : /\ cur.hp <= s.hp
                      /\ cur.attack \in {0, s.attack} \/ cur.attack > s.tick
  BY <1>1, <1>4, <1>8 DEF TellsOnce, Chain
<1> HIDE DEF new, cur
<1>10. \A s \in Told : /\ new.hp <= s.hp /\ s.acked <= new.acked
                       /\ new.attack \in {0, s.attack} \/ new.attack > s.tick
  BY <1>3, <1>4, <1>5, <1>6, <1>7, <1>8, <1>9
<1>11. /\ UNCHANGED <<input, moves>>
       /\ \A s \in Told' : /\ s.tick \in 0..tick' /\ s.acked \in 0..input
                          /\ s.hp \in 0..MaxHP /\ s.attack \in 0..s.tick
  BY <1>2, <1>3, <1>5, <1>6, <1>7, <1>8 DEF Step, clientVars
<1>12. Chain'
  <2>1. SUFFICES ASSUME NEW s \in Told', NEW t \in Told'
                 PROVE  /\ s.tick <= t.tick =>
                             /\ t.hp <= s.hp /\ s.acked <= t.acked
                             /\ t.attack \in {0, s.attack} \/ t.attack > s.tick
                        /\ s.tick = t.tick => s = t
    BY DEF Chain
  <2>2. CASE s \in Told /\ t \in Told
    BY <2>2 DEF TellsOnce, Chain
  <2>3. CASE s \in Told /\ t = new
    BY <2>3, <1>3, <1>5, <1>8, <1>10
  <2>4. CASE s = new /\ t \in Told
    BY <2>4, <1>3, <1>5, <1>8
  <2>5. CASE s = new /\ t = new
    BY <2>5, <1>5, <1>6, <1>7
  <2> QED
    BY <1>2, <2>1, <2>2, <2>3, <2>4, <2>5
<1>13. arrived' = << >> \/ \E s \in Told' : arrived' = <<s>>
  <2>1. arrived' = arrived
    BY DEF Step
  <2>2. \A s : arrived = <<s>> => s \in Told'
    BY <2>1 DEF Told, ToSet
  <2> QED
    BY <2>1, <2>2 DEF TellsOnce
<1> QED
  BY <1>3, <1>11, <1>12, <1>13 DEF TellsOnce, inputTick

(* What a snapshot that is applied adds to what was shown.                 *)
LEMMA Applied ==
  ASSUME TellsOnce, ShownSoFar, NEW s \in Told, Poll(s) PROVE ShownSoFar'
<1>1. CASE ~Takes(s)
  BY <1>1 DEF Poll, ShownSoFar, ShownOnce
<1>2. CASE Takes(s)
  <2>1. /\ world' = s /\ announced' = Announced(s) /\ damage' = Damage(s)
        /\ newest' = IF s.tick > newest.tick THEN s ELSE newest
    BY <1>2 DEF Poll
  <2>2. world \in Told /\ MaxHP \in Nat
    BY PlaybackAssumption DEF Told
  <2>3. /\ s.tick \in Nat /\ s.hp \in Nat /\ s.attack \in Nat /\ s.attack <= s.tick
        /\ world.tick \in Nat /\ world.hp \in Nat /\ world.attack \in Nat
        /\ world.attack <= world.tick
    BY <2>2 DEF TellsOnce
  <2>4. /\ world.tick <= s.tick /\ s.hp <= world.hp
        /\ s.attack \in {0, world.attack} \/ s.attack > world.tick
        /\ s.tick = world.tick => s = world
    BY <1>2, <2>2, <2>3 DEF Takes, TellsOnce, Chain
  <2>5. newest' = s
    BY <2>1, <2>3, <2>4 DEF ShownSoFar
  <2>6. damage' = MaxHP - s.hp
    <3>1. Max({0, world.hp - s.hp}) = world.hp - s.hp
      BY <2>3, <2>4, MaxOfTwo
    <3> QED
      BY <2>1, <2>2, <2>3, <3>1 DEF Damage, ShownSoFar, ShownOnce
  <2>7. CASE s.attack \in {0, world.attack}
    <3>1. announced' = announced
      BY <2>1, <2>7 DEF Announced
    <3>2. s.attack # 0 => s.attack \in ToSet(announced)
      BY <2>7 DEF ShownSoFar, ShownOnce
    <3>3. ToSet(announced) \subseteq Nat
      BY DEF ShownSoFar, ToSet
    <3> QED
      BY <2>1, <2>3, <2>4, <2>5, <2>6, <3>1, <3>2, <3>3 DEF ShownSoFar, ShownOnce
  <2>8. CASE s.attack \notin {0, world.attack}
    <3>1. announced' = Append(announced, s.attack) /\ announced \in Seq(Nat)
      BY <2>1, <2>8 DEF Announced, ShownSoFar
    <3>2. /\ announced' \in Seq(Nat) /\ Len(announced') = Len(announced) + 1
          /\ \A i \in 1..Len(announced) : announced'[i] = announced[i]
          /\ announced'[Len(announced) + 1] = s.attack
          /\ Len(announced) \in Nat
      BY <2>3, <3>1, AppendProperties
    <3>3. \A i \in 1..Len(announced) :
            announced[i] \in Nat /\ announced[i] <= world.tick
      BY <3>1 DEF ShownSoFar, ToSet
    <3>4. \A i \in 1..Len(announced) : announced[i] # s.attack
      BY <2>3, <2>4, <2>8, <3>3
    <3>9. /\ DOMAIN announced' = 1..Len(announced')
          /\ DOMAIN announced = 1..Len(announced)
          /\ \A i \in 1..Len(announced') :
               i \in 1..Len(announced) \/ i = Len(announced) + 1
      BY <3>1, <3>2
    <3>10. \A i, j \in 1..Len(announced) : announced[i] = announced[j] => i = j
      BY <3>9 DEF IsInjective, ShownSoFar, ShownOnce
    <3>5. IsInjective(announced')
      BY <3>2, <3>4, <3>9, <3>10 DEF IsInjective
    <3>6. \A i \in 1..Len(announced') : announced'[i] <= s.tick
      <4>1. \A i \in 1..Len(announced) : announced'[i] <= s.tick
        <5>1. SUFFICES ASSUME NEW i \in 1..Len(announced) PROVE announced'[i] <= s.tick
          OBVIOUS
        <5>2. /\ announced'[i] = announced[i]
              /\ announced[i] \in Nat /\ announced[i] <= world.tick
          BY <3>2, <3>3
        <5> QED
          BY <2>3, <2>4, <5>2
      <4> QED
        BY <2>3, <3>2, <3>9, <4>1
    <3>7. s.attack \in ToSet(announced')
      BY <3>2 DEF ToSet
    <3>8. \A a \in ToSet(announced') : a <= s.tick
      BY <3>2, <3>6 DEF ToSet
    <3> QED
      BY <2>1, <2>5, <2>6, <3>2, <3>5, <3>7, <3>8 DEF ShownSoFar, ShownOnce
  <2> QED
    BY <2>7, <2>8
<1> QED
  BY <1>1, <1>2

(* A frame's new inputs, walked on from where the others end.              *)
LEMMA FrameWalks ==
  ASSUME moves \in Seq(Moves), NEW a \in 0..inputTick, NEW n \in Nat, NEW m \in Moves,
         Observe(n, m), NEW from, NEW p,
         p = Walk(from, Rest(moves, a)),
         FixedTicks(n, p, Run(a, inputTick - a))
  PROVE  /\ moves' \in Seq(Moves) /\ inputTick' = inputTick + n
         /\ pending' = [i \in 1..(inputTick' - a) |-> a + i]
         /\ predicted' = Walk(from, Rest(moves', a))
<1>1. PICK L \in Nat : L = inputTick
  BY LenProperties DEF inputTick
<1>2. PICK t \in Seq(Moves) : t = Copies(n, m) /\ Len(t) = n
  BY CopiesOf
<1>3. moves' = moves \o t
  BY <1>2 DEF Observe, Copies
<1>4. moves' \in Seq(Moves) /\ Len(moves') = L + n
  BY <1>1, <1>2, <1>3, ConcatProperties DEF inputTick
<1>5. Len(moves) = L /\ a \in 0..Len(moves)
  BY <1>1 DEF inputTick
<1>6. /\ t = [i \in 1..Len(t) |-> (moves \o t)[Len(moves) + i]]
       /\ Walk(from, Rest(moves \o t, a)) = Walk(p, t)
  <2>1. /\ t = [i \in 1..Len(t) |-> (moves \o t)[Len(moves) + i]]
        /\ Walk(from, Rest(moves \o t, a)) = Walk(Walk(from, Rest(moves, a)), t)
    BY <1>5, RestOfJoined
  <2> QED
    BY <2>1
<1>7. t = [i \in 1..n |-> moves'[L + i]]
  BY <1>2, <1>3, <1>5, <1>6
<1>8. PICK new \in Seq(Nat) : /\ new = Run(L, n) /\ Len(new) = n
                              /\ \A i \in 1..n : new[i] = L + i
  BY <1>1, RunOf
<1>9. pending' = Run(a, L - a) \o new /\ predicted' = Replay(p, new)
  BY <1>1, <1>8 DEF FixedTicks, Run
<1>10. predicted' = Walk(p, t)
  <2>1. [i \in 1..Len(new) |-> moves'[new[i]]] = t
    BY <1>7, <1>8
  <2> QED
    BY <1>9, <2>1 DEF Replay
<1>11. predicted' = Walk(from, Rest(moves', a))
  BY <1>3, <1>10, <1>6
<1>12. pending' = [i \in 1..(L + n - a) |-> a + i]
  <2>1. a \in Nat /\ L - a \in Nat
    BY <1>1
  <2>2. PICK run \in Seq(Nat) : /\ run = Run(a, L - a) /\ Len(run) = L - a
                               /\ \A i \in 1..(L - a) : run[i] = a + i
    BY <2>1, RunOf
  <2>3. /\ pending' \in Seq(Nat) /\ Len(pending') = Len(run) + Len(new)
        /\ \A i \in 1..(Len(run) + Len(new)) :
             pending'[i] = IF i <= Len(run) THEN run[i] ELSE new[i - Len(run)]
    <3>1. pending' = run \o new
      BY <1>9, <2>2
    <3> QED
      BY <3>1, ConcatProperties
  <2>4. Len(run) + Len(new) = L + n - a /\ Len(run) = L - a
    <3>1. Len(run) = L - a /\ Len(new) = n
      BY <1>8, <2>2
    <3> QED
      BY <1>1, <3>1
  <2>5. \A i \in 1..(L + n - a) : pending'[i] = a + i
    <3> TAKE i \in 1..(L + n - a)
    <3>1. CASE i <= L - a
      <4>1. i \in 1..(L - a)
        BY <2>1, <3>1
      <4> QED
        BY <2>2, <2>3, <2>4, <3>1, <4>1
    <3>2. CASE ~(i <= L - a)
      <4>1. i - (L - a) \in 1..n /\ L + (i - (L - a)) = a + i
        BY <1>1, <2>1, <3>2
      <4>2. new[i - (L - a)] = L + (i - (L - a))
        BY <1>8, <4>1
      <4> QED
        BY <2>3, <2>4, <3>2, <4>1, <4>2
    <3> QED
      BY <3>1, <3>2
  <2> QED
    BY <2>1, <2>3, <2>4, <2>5
<1> QED
  BY <1>1, <1>4, <1>11, <1>12 DEF inputTick

(* A frame predicts from the newest snapshot it has polled.                *)
LEMMA FramePredicts ==
  ASSUME TellsOnce, ShownSoFar, Predicts, Frame, newest' = world'
  PROVE  Predicts' /\ moves' \in Seq(Moves) /\ inputTick' >= inputTick
<1>1. PICK n \in 0..MaxElapsed, m \in Moves :
        /\ Observe(n, m)
        /\ IF arrived = << >>
           THEN /\ UNCHANGED <<world, points, announced, damage, newest>>
                /\ FixedTicks(n, predicted, pending)
           ELSE LET s == Last(arrived)
                IN  /\ Poll(s)
                    /\ FixedTicks(n, PolledPosition(s), PolledPending(s))
  BY DEF Frame
<1>2. n \in Nat
  BY PlaybackAssumption
<1>3. /\ newest \in Told /\ moves \in Seq(Moves)
      /\ inputTick \in Nat /\ input \in 0..inputTick
      /\ \A s \in Told : s.acked \in 0..inputTick
  <2>1. newest \in Told /\ moves \in Seq(Moves) /\ input \in 0..inputTick
    BY DEF TellsOnce, ShownSoFar, Told
  <2>2. inputTick \in Nat
    BY <2>1, LenProperties DEF inputTick
  <2> QED
    BY <2>1, <2>2 DEF TellsOnce
<1>4. /\ newest.acked \in 0..inputTick
      /\ pending = Run(newest.acked, inputTick - newest.acked)
      /\ predicted = Walk(newest.position, Rest(moves, newest.acked))
  BY <1>3 DEF Predicts, PredictedFromNewest, Run, Rest, inputTick
<1>5. CASE newest' = newest /\ FixedTicks(n, predicted, pending)
  <2>1. /\ moves' \in Seq(Moves) /\ inputTick' = inputTick + n
        /\ pending' = [i \in 1..(inputTick' - newest.acked) |-> newest.acked + i]
        /\ predicted' = Walk(newest.position, Rest(moves', newest.acked))
    BY <1>1, <1>2, <1>3, <1>4, <1>5, FrameWalks
  <2> QED
    BY <1>2, <1>3, <1>5, <2>1 DEF Predicts, PredictedFromNewest, Rest, inputTick
<1>6. CASE arrived = << >>
  BY <1>1, <1>5, <1>6
<1>7. ASSUME NEW s \in Told, arrived = <<s>>
      PROVE  Predicts' /\ moves' \in Seq(Moves) /\ inputTick' >= inputTick
  <2>1. Last(arrived) = s /\ arrived # << >>
    BY <1>7 DEF Last
  <2>2. Poll(s) /\ FixedTicks(n, PolledPosition(s), PolledPending(s))
    BY <1>1, <2>1
  <2>3. CASE ~Takes(s)
    BY <1>5, <2>2, <2>3 DEF Poll, PolledPosition, PolledPending
  <2>4. CASE Takes(s)
    <3>1. newest' = s
      BY <2>2, <2>4 DEF Poll
    <3>2. newest.acked <= s.acked /\ s.acked \in 0..inputTick
      <4>1. newest.tick <= s.tick
        BY <2>4 DEF Takes, ShownSoFar
      <4> QED
        BY <1>3, <1>7, <4>1 DEF TellsOnce, Chain
    <3>3. Unacked(s.acked) = Run(s.acked, inputTick - s.acked)
      <4>1. /\ newest.acked \in Nat /\ inputTick - newest.acked \in Nat
            /\ newest.acked + (inputTick - newest.acked) = inputTick
            /\ s.acked \in newest.acked..inputTick
        BY <1>3, <1>4, <3>2
      <4> QED
        BY <1>4, <4>1, UnackedRun
    <3>4. Replay(s.position, Run(s.acked, inputTick - s.acked)) =
            Walk(s.position, Rest(moves, s.acked))
      <4>1. PICK a \in 0..inputTick : a = s.acked
        BY <3>2
      <4>2. PICK t \in Seq(Moves) : t = Copies(n, m)
        BY <1>2, CopiesOf
      <4>3. moves' = moves \o t
        BY <1>1, <4>2 DEF Observe, Copies
      <4>4. Rest(moves, a) =
              [i \in 1..(inputTick - a) |-> moves'[a + i]]
        <5>1. a \in 0..Len(moves) /\ moves \in Seq(Moves)
          BY <1>3 DEF inputTick
        <5>2. Rest(moves, a) =
                [i \in 1..(Len(moves) - a) |-> (moves \o t)[a + i]]
          BY <5>1, RestOfJoined
        <5> QED
          BY <4>3, <5>2 DEF inputTick
      <4>5. PICK run \in Seq(Nat) : /\ run = Run(a, inputTick - a)
                                   /\ Len(run) = inputTick - a
                                   /\ \A i \in 1..(inputTick - a) : run[i] = a + i
        <5>1. a \in Nat /\ inputTick - a \in Nat
          BY <1>3
        <5> QED
          BY <5>1, RunOf
      <4>6. [i \in 1..Len(run) |-> moves'[run[i]]]
              = [i \in 1..(inputTick - a) |-> moves'[a + i]]
        BY <4>5
      <4> QED
        BY <4>1, <4>4, <4>5, <4>6 DEF Replay
    <3>5. FixedTicks(n, Walk(s.position, Rest(moves, s.acked)),
                     Run(s.acked, inputTick - s.acked))
      BY <2>2, <2>4, <3>3, <3>4 DEF PolledPosition, PolledPending
    <3>6. /\ moves' \in Seq(Moves) /\ inputTick' = inputTick + n
          /\ pending' = [i \in 1..(inputTick' - s.acked) |-> s.acked + i]
          /\ predicted' = Walk(s.position, Rest(moves', s.acked))
      BY <1>1, <1>2, <1>3, <3>2, <3>5, FrameWalks
    <3> QED
      BY <1>2, <1>3, <3>1, <3>6 DEF Predicts, PredictedFromNewest, Rest, inputTick
  <2> QED
    BY <2>3, <2>4
<1> QED
  BY <1>6, <1>7 DEF TellsOnce

(* Every step keeps the invariant.                                         *)
LEMMA NextPlayback == IndInv /\ [Next]_vars => IndInv'
<1> SUFFICES ASSUME IndInv, [Next]_vars PROVE IndInv'
  OBVIOUS
<1> USE DEF IndInv
<1>1. CASE SubmitInput \/ UNCHANGED vars
  <2>1. UNCHANGED <<tick, state, down, arrived, clientVars>>
    BY <1>1 DEF SubmitInput, vars, serverVars
  <2>2. input' \in input..inputTick'
    <3>1. /\ input \in Nat /\ inputTick' = inputTick
          /\ inputTick \in Nat /\ input <= inputTick
      BY <2>1, LenProperties DEF TellsOnce, inputTick, clientVars
    <3> QED
      BY <1>1, <3>1 DEF SubmitInput, vars, serverVars
  <2>3. Told' = Told
    BY <2>1 DEF Told, clientVars
  <2>4. TellsOnce'
    BY <2>1, <2>2, <2>3, NothingNew DEF TellsOnce, clientVars
  <2> QED
    BY <2>1, <2>4 DEF clientVars, ShownSoFar, ShownOnce, Predicts, PredictedFromNewest,
       inputTick
<1>2. CASE Step
  <2>1. UNCHANGED clientVars
    BY <1>2 DEF Step
  <2> QED
    BY <1>2, <2>1, StepTells
       DEF clientVars, ShownSoFar, ShownOnce, Predicts, PredictedFromNewest,
           inputTick
<1>3. CASE Arrive
  <2>1. PICK s \in down : down' = down \ {s} /\ arrived' = <<s>>
    BY <1>3 DEF Arrive
  <2>2. UNCHANGED <<tick, state, clientVars>>
    BY <1>3 DEF Arrive, serverVars
  <2>3. ToSet(arrived') = {s}
    BY <2>1 DEF ToSet
  <2>4. Told' \subseteq Told /\ s \in Told'
    BY <2>1, <2>2, <2>3 DEF Told, clientVars
  <2>5. TellsOnce'
    <3>1. input' = input /\ input' \in input..inputTick' /\ moves' \in Seq(Moves)
      BY <1>3, LenProperties DEF Arrive, serverVars, clientVars, TellsOnce, inputTick
    <3> QED
      BY <2>1, <2>2, <2>4, <3>1, NothingNew
  <2> QED
    BY <2>2, <2>5 DEF clientVars, ShownSoFar, ShownOnce, Predicts, PredictedFromNewest,
       inputTick
<1>4. CASE Frame
  <2>1. arrived' = << >> /\ UNCHANGED <<tick, state, down>>
    BY <1>4 DEF Frame, serverVars
  <2>2. ToSet(arrived') = {}
    BY <2>1 DEF ToSet
  <2>3. Told' \subseteq Told /\ ShownSoFar'
    <3>1. CASE arrived = << >>
      <4>1. UNCHANGED <<world, points, announced, damage, newest>>
        BY <1>4, <3>1 DEF Frame
      <4> QED
        BY <2>1, <2>2, <4>1 DEF Told, ShownSoFar, ShownOnce
    <3>2. ASSUME NEW s \in Told, arrived = <<s>>
          PROVE  Told' \subseteq Told /\ ShownSoFar'
      <4>1. Last(arrived) = s /\ arrived # << >>
        BY <3>2 DEF Last
      <4>2. Poll(s)
        BY <1>4, <4>1 DEF Frame
      <4>3. world' \in Told
        BY <4>2 DEF Poll, Told
      <4> QED
        BY <2>1, <2>2, <4>2, <4>3, Applied DEF Told
    <3> QED
      BY <3>1, <3>2 DEF TellsOnce
  <2>4. Predicts' /\ moves' \in Seq(Moves) /\ inputTick' >= inputTick
    BY <1>4, <2>3, FramePredicts DEF ShownSoFar
  <2>5. input' \in input..inputTick'
    <3>1. /\ input' = input /\ input \in 0..inputTick
          /\ inputTick \in Nat /\ inputTick' \in Nat
      BY <1>4, <2>4, LenProperties DEF Frame, serverVars, TellsOnce, inputTick
    <3> QED
      BY <2>4, <3>1
  <2> QED
    BY <2>1, <2>3, <2>4, <2>5, NothingNew
<1> QED
  BY <1>1, <1>2, <1>3, <1>4 DEF Next

(* The inductive invariant of what is shown.                               *)
THEOREM PlaybackInvariant == Spec => []IndInv
<1> QED
  BY InitPlayback, NextPlayback, PTL DEF Spec

(* Damage and attacks are shown once, for any arena, number of hit points  *)
(* and length of the match, whatever snapshots are lost or overtaken.      *)
THEOREM PlaybackShownOnce == Spec => []ShownOnce
<1>1. IndInv => ShownOnce
  BY DEF IndInv, ShownSoFar
<1> QED
  BY <1>1, PlaybackInvariant, PTL

(* The prediction is always the newest snapshot and every input it does    *)
(* not acknowledge, for inputs and snapshots lost and reordered at will.   *)
THEOREM PlaybackPredictedFromNewest == Spec => []PredictedFromNewest
<1>1. IndInv => PredictedFromNewest
  BY DEF IndInv, Predicts
<1> QED
  BY <1>1, PlaybackInvariant, PTL
=============================================================================
