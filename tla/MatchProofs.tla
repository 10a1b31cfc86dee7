---------------------------- MODULE MatchProofs ----------------------------
(***************************************************************************)
(* Proofs about Match for any two players and any ruleset durations.       *)
(***************************************************************************)
EXTENDS Match, TLAPS

(* The opponent is the other one of the two players.                       *)
LEMMA OpponentType ==
  \A p \in Players : Opponent(p) \in Players /\ Opponent(p) # p
<1> TAKE p \in Players
<1>1. \E q \in Players \ {p} : TRUE
  BY PlayersAssumption
<1> QED BY <1>1 DEF Opponent

(* Room.Step leaves a well-formed snapshot.                                *)
LEMMA StepsType == ASSUME NEW r \in Snapshots PROVE Steps(r) \subseteq Snapshots
<1>1. Countdown(r) \in Snapshots
  <2>1. r.tick + 1 \in Nat BY DEF Snapshots
  <2>2. "active" \in Statuses BY DEF Statuses
  <2> QED BY <2>1, <2>2 DEF Countdown, Snapshots
<1>2. \A w \in Players \cup {NoPlayer}, why \in {"ko", "time_limit"} :
        Ended(r, w, why) \in Snapshots
  BY DEF Ended, Snapshots, Statuses
<1>3. [r EXCEPT !.tick = @ + 1] \in Snapshots
  BY DEF Snapshots
<1> QED BY <1>1, <1>2, <1>3 DEF Steps

(* A Room that has just been made has a snapshot.                          *)
LEMMA InitialRoomType == InitialRoom \in Snapshots
BY DEF InitialRoom, Snapshots, Statuses

(* A finished Room's result is an outcome.                                 *)
LEMMA RoomOutcomeType ==
  ASSUME NEW s \in Snapshots, s.reason # "none"
  PROVE  RoomOutcome(s) \in Outcomes
BY DEF RoomOutcome, Snapshots, Outcomes

(* The outcome of a lost connection is an outcome of the match.            *)
LEMMA DisconnectOutcomeType ==
  ASSUME TypeOK, NEW p \in Players
  PROVE  DisconnectOutcome(p) \in Outcomes
BY OpponentType DEF TypeOK, DisconnectOutcome, Snapshots, Outcomes

-----------------------------------------------------------------------------
(* Type correctness. It needs Verdict: only a finished snapshot carries a  *)
(* reason that a MatchEnd may show.                                        *)
LEMMA InitTypeOK == Init => TypeOK
<1> SUFFICES ASSUME Init PROVE TypeOK OBVIOUS
<1>1. \A p \in Players : /\ snapshots[p] = {} /\ matchEnds[p] = {}
                         /\ draft[p] = {} /\ written[p] = {}
  BY DEF Init
<1>2. /\ snapshots \in [Players -> SUBSET Snapshots]
      /\ matchEnds \in [Players -> SUBSET Outcomes]
      /\ draft \in [Players -> SUBSET Outcomes]
      /\ written \in [Players -> SUBSET Outcomes]
  BY DEF Init
<1>3. hpc \in [Players -> {"handoff"}] /\ connection \in [Players -> {"up"}]
  BY DEF Init
<1>4. hpc \in [Players -> {"handoff", "absent", "start", "ack", "serve", "grace",
                          "close", "finalize", "sending", "abort", "returned"}]
  BY <1>3
<1>5. connection \in [Players -> {"up", "lost"}]
  BY <1>3
<1>6. room \in Snapshots /\ bcSnapshot \in Snapshots /\ lastSnapshot \in Snapshots
  BY InitialRoomType DEF Init
<1>7. closed \in [Players -> BOOLEAN]
  BY DEF Init
<1> QED BY <1>1, <1>2, <1>4, <1>5, <1>6, <1>7 DEF Init, TypeOK, AtMostOne

(* Every step keeps the types.                                             *)
LEMMA NextTypeOK ==
  ASSUME TypeOK, Verdict, [Next]_vars PROVE TypeOK'
<1> USE DEF TypeOK, AtMostOne
<1>1. CASE HandOff BY <1>1 DEF HandOff, roomVars, bcVars, onceVars, handlerVars
<1>2. CASE HandOffCanceled
  BY <1>2 DEF HandOffCanceled, roomVars, bcVars, onceVars, handlerVars
<1>3. CASE Loop
  <2> USE DEF LoopLeaves, AfterPublish, bcVars, onceVars, handlerVars
  <2>1. CASE LoopStart BY <2>1 DEF LoopStart
  <2>2. CASE LoopTick BY <2>2, StepsType DEF LoopTick
  <2>3. CASE PublishTry BY <2>3 DEF PublishTry
  <2>4. CASE PublishDisplace BY <2>4 DEF PublishDisplace
  <2>5. CASE Republish BY <2>5 DEF Republish
  <2>6. CASE LoopCanceled BY <2>6 DEF LoopCanceled
  <2>7. CASE LoopClose BY <2>7 DEF LoopClose
  <2> QED BY <1>3, <2>1, <2>2, <2>3, <2>4, <2>5, <2>6, <2>7 DEF Loop
<1>4. CASE Broadcaster
  <2> USE DEF BcLeaves, roomVars, onceVars, handlerVars
  <2>1. CASE BcReceive BY <2>1 DEF BcReceive
  <2>2. CASE BcDrained BY <2>2 DEF BcDrained
  <2>3. CASE BcUpdateLast BY <2>3 DEF BcUpdateLast
  <2>4. CASE BcFinalize
    <3>1. RoomOutcome(bcSnapshot) \in Outcomes
      BY <2>4, RoomOutcomeType DEF BcFinalize, Verdict
    <3> QED BY <2>4, <3>1 DEF BcFinalize, EnterOnce
  <2>5. CASE BcSkipOnce BY <2>5 DEF BcSkipOnce
  <2>6. ASSUME NEW p \in Players, BcPublish(p) PROVE TypeOK'
    BY <2>6 DEF BcPublish, PublishLatest
  <2>7. ASSUME NEW p \in Players, BcCloseSession(p) PROVE TypeOK'
    BY <2>7 DEF BcCloseSession
  <2> QED BY <1>4, <2>1, <2>2, <2>3, <2>4, <2>5, <2>6, <2>7 DEF Broadcaster
<1>5. CASE Finalizer
  <2> USE DEF roomVars, bcVars, handlerVars
  <2>1. CASE FinishOnce BY <2>1 DEF FinishOnce
  <2>2. ASSUME NEW p \in Players, SendEnd(p) PROVE TypeOK'
    BY <2>2 DEF SendEnd
  <2> QED BY <1>5, <2>1, <2>2 DEF Finalizer
<1>6. ASSUME NEW p \in Players, Handler(p) PROVE TypeOK'
  <2> USE DEF HandlerLeaves, roomVars, bcVars, onceVars, handlerVars
  <2>1. CASE WriteStart(p) BY <2>1 DEF WriteStart
  <2>2. CASE Acknowledge(p) BY <2>2 DEF Acknowledge
  <2>3. CASE StreamSnapshot(p) BY <2>3 DEF StreamSnapshot
  <2>4. CASE ConnectionDone(p) BY <2>4 DEF ConnectionDone
  <2>5. CASE DeliverEnd(p) BY <2>5 DEF DeliverEnd
  <2>6. CASE GraceOver(p) BY <2>6 DEF GraceOver
  <2>7. CASE CloneLast(p) BY <2>7, DisconnectOutcomeType DEF CloneLast
  <2>8. CASE HandlerFinalize(p) BY <2>8 DEF HandlerFinalize, EnterOnce
  <2>9. CASE HandlerSkipOnce(p) BY <2>9 DEF HandlerSkipOnce
  <2>10. CASE Abort(p) BY <2>10 DEF Abort
  <2> QED BY <1>6, <2>1, <2>2, <2>3, <2>4, <2>5, <2>6, <2>7, <2>8, <2>9, <2>10
          DEF Handler
<1>7. ASSUME NEW p \in Players, LoseConnection(p) PROVE TypeOK'
  BY <1>7 DEF LoseConnection, roomVars, bcVars, onceVars
<1>8. CASE UNCHANGED vars
  BY <1>8 DEF vars, roomVars, bcVars, onceVars, handlerVars
<1> QED
  BY <1>1, <1>2, <1>3, <1>4, <1>5, <1>6, <1>7, <1>8 DEF Next, Terminated

-----------------------------------------------------------------------------
(* Which actions touch the terminal outcome, the session's matchEnds and   *)
(* what was written: all others leave them alone.                          *)
EndVars == <<terminalOnce, outcome, reported, unsent, matchEnds, written>>

(* Only finalize, by whoever calls it, and a handler that takes its end    *)
(* touch what is said of the end.                                          *)
LEMMA EndFrame ==
  ASSUME [Next]_vars
  PROVE  \/ UNCHANGED EndVars
         \/ BcFinalize \/ FinishOnce
         \/ \E p \in Players : HandlerFinalize(p) \/ SendEnd(p) \/ DeliverEnd(p)
<1> USE DEF EndVars, onceVars, handlerVars
<1>1. CASE HandOff \/ HandOffCanceled
  BY <1>1 DEF HandOff, HandOffCanceled
<1>2. CASE Loop
  BY <1>2 DEF Loop, LoopStart, LoopTick, PublishTry, PublishDisplace, Republish,
              LoopCanceled, LoopClose
<1>3. CASE Broadcaster
  BY <1>3 DEF Broadcaster, BcReceive, BcDrained, BcUpdateLast, BcSkipOnce,
              BcPublish, BcCloseSession
<1>4. ASSUME NEW p \in Players, Handler(p), ~ HandlerFinalize(p), ~ DeliverEnd(p)
      PROVE  UNCHANGED EndVars
  BY <1>4 DEF Handler, WriteStart, Acknowledge, StreamSnapshot, ConnectionDone,
              GraceOver, CloneLast, HandlerSkipOnce, Abort
<1>5. ASSUME NEW p \in Players, LoseConnection(p) PROVE UNCHANGED EndVars
  BY <1>5 DEF LoseConnection
<1>6. CASE UNCHANGED vars
  BY <1>6 DEF vars
<1> QED
  BY <1>1, <1>2, <1>3, <1>4, <1>5, <1>6 DEF Next, Finalizer, Terminated

(* Every step keeps: all that is said comes from the one outcome that was  *)
(* admitted.                                                               *)
LEMMA NextOutcomeOnce ==
  ASSUME TypeOK, OutcomeOnce, Filling, [Next]_vars PROVE OutcomeOnce'
<1> USE DEF TypeOK, OutcomeOnce
<1>1. CASE UNCHANGED EndVars BY <1>1 DEF EndVars
<1>2. CASE BcFinalize
  BY <1>2 DEF BcFinalize, EnterOnce, handlerVars
<1>3. CASE FinishOnce BY <1>3 DEF FinishOnce
<1>4. ASSUME NEW p \in Players, HandlerFinalize(p) PROVE OutcomeOnce'
  BY <1>4 DEF HandlerFinalize, EnterOnce
<1>5. ASSUME NEW p \in Players, SendEnd(p) PROVE OutcomeOnce'
  BY <1>5 DEF SendEnd, handlerVars
<1>6. ASSUME NEW p \in Players, DeliverEnd(p) PROVE OutcomeOnce'
  BY <1>6 DEF DeliverEnd, onceVars
<1> QED BY EndFrame, <1>1, <1>2, <1>3, <1>4, <1>5, <1>6

(* If all that is said comes from one outcome, nobody hears another.       *)
LEMMA SoleOutcomeFollows ==
  ASSUME TypeOK, OutcomeOnce PROVE SoleOutcome
BY DEF TypeOK, OutcomeOnce, SoleOutcome, Announced, AtMostOne

-----------------------------------------------------------------------------
(* A handler never comes back to the stages in which it still has to take  *)
(* its MatchEnd.                                                           *)
Early == {"handoff", "start", "ack", "serve"}

(* A handler that has left its first phases never returns to them.         *)
LEMMA EarlyFrame ==
  ASSUME TypeOK, [Next]_vars
  PROVE  \A q \in Players : hpc'[q] \in Early => hpc[q] \in Early
<1> USE DEF Early, TypeOK
<1>1. CASE HandOff \/ HandOffCanceled
  BY <1>1 DEF HandOff, HandOffCanceled
<1>2. CASE Loop
  BY <1>2 DEF Loop, LoopStart, LoopTick, PublishTry, PublishDisplace, Republish,
              LoopCanceled, LoopClose, handlerVars
<1>3. CASE Broadcaster
  BY <1>3 DEF Broadcaster, BcReceive, BcDrained, BcUpdateLast, BcFinalize,
              BcSkipOnce, BcPublish, BcCloseSession, handlerVars
<1>4. CASE Finalizer
  BY <1>4 DEF Finalizer, FinishOnce, SendEnd, handlerVars
<1>5. ASSUME NEW p \in Players, Handler(p)
      PROVE  \A q \in Players : hpc'[q] \in Early => hpc[q] \in Early
  <2> USE DEF HandlerLeaves
  <2>1. CASE WriteStart(p) BY <2>1 DEF WriteStart
  <2>2. CASE Acknowledge(p) BY <2>2 DEF Acknowledge
  <2>3. CASE StreamSnapshot(p) \/ ConnectionDone(p) \/ GraceOver(p)
    BY <2>3 DEF StreamSnapshot, ConnectionDone, GraceOver, handlerVars
  <2>4. CASE DeliverEnd(p) BY <2>4 DEF DeliverEnd
  <2>5. CASE CloneLast(p) \/ HandlerFinalize(p)
    BY <2>5 DEF CloneLast, HandlerFinalize
  <2>6. CASE HandlerSkipOnce(p) \/ Abort(p)
    BY <2>6 DEF HandlerSkipOnce, Abort
  <2> QED BY <1>5, <2>1, <2>2, <2>3, <2>4, <2>5, <2>6 DEF Handler
<1>6. CASE (\E p \in Players : LoseConnection(p)) \/ UNCHANGED vars
  BY <1>6 DEF LoseConnection, vars, handlerVars
<1> QED BY <1>1, <1>2, <1>3, <1>4, <1>5, <1>6 DEF Next, Terminated

(* Every step keeps: a session is filled once and keeps its end until its  *)
(* handler takes it.                                                       *)
LEMMA NextFilling ==
  ASSUME TypeOK, OutcomeOnce, Filling, [Next]_vars PROVE Filling'
<1>1. \A q \in Players : hpc'[q] \in Early => hpc[q] \in Early
  BY EarlyFrame
<1> USE <1>1 DEF TypeOK, OutcomeOnce, Filling, Early
<1>2. CASE UNCHANGED EndVars BY <1>2 DEF EndVars
<1>3. CASE BcFinalize
  BY <1>3 DEF BcFinalize, EnterOnce, handlerVars
<1>4. CASE FinishOnce BY <1>4 DEF FinishOnce
<1>5. ASSUME NEW p \in Players, HandlerFinalize(p) PROVE Filling'
  BY <1>5 DEF HandlerFinalize, EnterOnce
<1>6. ASSUME NEW p \in Players, SendEnd(p) PROVE Filling'
  BY <1>6 DEF SendEnd, handlerVars
<1>7. ASSUME NEW p \in Players, DeliverEnd(p) PROVE Filling'
  BY <1>7 DEF DeliverEnd, HandlerLeaves, onceVars
<1> QED BY EndFrame, <1>2, <1>3, <1>4, <1>5, <1>6, <1>7

-----------------------------------------------------------------------------
(* NeverStarted: everything that could move the match needs a session.     *)
LEMMA NextNeverStarted ==
  ASSUME TypeOK, NeverStarted, [Next]_vars PROVE NeverStarted'
<1> USE DEF TypeOK, NeverStarted, Absent
<1>1. CASE HandOff
  BY <1>1, PlayersAssumption DEF HandOff, roomVars, bcVars, onceVars
<1>2. CASE HandOffCanceled
  BY <1>2, PlayersAssumption DEF HandOffCanceled, roomVars, bcVars, onceVars
<1>3. CASE Loop
  <2> USE DEF LoopLeaves, AfterPublish, BarrierOpen, bcVars, onceVars, handlerVars
  <2>1. CASE LoopStart BY <2>1 DEF LoopStart
  <2>2. CASE LoopTick BY <2>2 DEF LoopTick
  <2>3. CASE PublishTry BY <2>3 DEF PublishTry
  <2>4. CASE PublishDisplace BY <2>4 DEF PublishDisplace
  <2>5. CASE Republish BY <2>5 DEF Republish
  <2>6. CASE LoopCanceled BY <2>6 DEF LoopCanceled
  <2>7. CASE LoopClose BY <2>7 DEF LoopClose
  <2> QED BY <1>3, <2>1, <2>2, <2>3, <2>4, <2>5, <2>6, <2>7 DEF Loop
<1>4. CASE Broadcaster
  <2> USE DEF BcLeaves, roomVars, onceVars, handlerVars
  <2>1. CASE BcReceive BY <2>1 DEF BcReceive
  <2>2. CASE BcDrained BY <2>2 DEF BcDrained
  <2>3. CASE BcUpdateLast BY <2>3 DEF BcUpdateLast
  <2>4. CASE BcFinalize BY <2>4 DEF BcFinalize
  <2>5. CASE BcSkipOnce BY <2>5 DEF BcSkipOnce
  <2>6. ASSUME NEW p \in Players, BcPublish(p) PROVE NeverStarted'
    BY <2>6 DEF BcPublish
  <2>7. ASSUME NEW p \in Players, BcCloseSession(p) PROVE NeverStarted'
    BY <2>7 DEF BcCloseSession
  <2> QED BY <1>4, <2>1, <2>2, <2>3, <2>4, <2>5, <2>6, <2>7 DEF Broadcaster
<1>5. CASE Finalizer
  <2> USE DEF roomVars, bcVars, handlerVars
  <2>1. CASE FinishOnce BY <2>1 DEF FinishOnce
  <2>2. ASSUME NEW p \in Players, SendEnd(p) PROVE NeverStarted'
    BY <2>2 DEF SendEnd
  <2> QED BY <1>5, <2>1, <2>2 DEF Finalizer
<1>6. ASSUME NEW p \in Players, Handler(p) PROVE NeverStarted'
  <2> USE DEF HandlerLeaves, roomVars, bcVars, onceVars, handlerVars
  <2>1. CASE WriteStart(p) BY <2>1 DEF WriteStart
  <2>2. CASE Acknowledge(p) BY <2>2 DEF Acknowledge
  <2>3. CASE StreamSnapshot(p) BY <2>3 DEF StreamSnapshot
  <2>4. CASE ConnectionDone(p) BY <2>4 DEF ConnectionDone
  <2>5. CASE DeliverEnd(p) BY <2>5 DEF DeliverEnd
  <2>6. CASE GraceOver(p) BY <2>6 DEF GraceOver
  <2>7. CASE CloneLast(p) BY <2>7 DEF CloneLast
  <2>8. CASE HandlerFinalize(p) BY <2>8 DEF HandlerFinalize, EnterOnce
  <2>9. CASE HandlerSkipOnce(p) BY <2>9 DEF HandlerSkipOnce
  <2>10. CASE Abort(p) BY <2>10 DEF Abort
  <2> QED BY <1>6, <2>1, <2>2, <2>3, <2>4, <2>5, <2>6, <2>7, <2>8, <2>9, <2>10
          DEF Handler
<1>7. CASE (\E p \in Players : LoseConnection(p)) \/ UNCHANGED vars
  BY <1>7 DEF LoseConnection, vars, roomVars, bcVars, onceVars, handlerVars
<1> QED
  BY <1>1, <1>2, <1>3, <1>4, <1>5, <1>6, <1>7 DEF Next, Terminated

-----------------------------------------------------------------------------
(* Verdict: the loop does not step a finished Room again.                  *)
LEMMA NextVerdict ==
  ASSUME TypeOK, Verdict, [Next]_vars PROVE Verdict'
<1> USE DEF TypeOK, Verdict
<1>1. CASE HandOff
  BY <1>1, PlayersAssumption DEF HandOff, roomVars, bcVars, onceVars
<1>2. CASE HandOffCanceled
  BY <1>2, PlayersAssumption DEF HandOffCanceled, roomVars, bcVars, onceVars
<1>3. CASE Loop
  <2> USE DEF LoopLeaves, AfterPublish, BarrierOpen, bcVars, onceVars, handlerVars
  <2>1. CASE LoopStart BY <2>1 DEF LoopStart
  <2>2. CASE LoopTick
    <3>1. room.status # "finished" BY <2>2 DEF LoopTick
    <3>2. \A s \in roomSnapshots \cup {bcSnapshot} : s.status # "finished"
      BY <3>1
    <3>3. room'.status = "finished" => room'.reason # "none"
      <4>1. room \in Snapshots /\ room' \in Steps(room) BY <2>2 DEF LoopTick
      <4>2. CASE room.status = "countdown"
        <5>1. room' = Countdown(room) BY <4>1, <4>2 DEF Steps
        <5>2. room'.status \in {"countdown", "active"}
          BY <5>1, <4>1, <4>2 DEF Countdown, Snapshots
        <5> QED BY <5>2
      <4>3. CASE room.status = "active"
        <5>1. \/ room' = [room EXCEPT !.tick = @ + 1]
              \/ \E w \in Players \cup {NoPlayer} :
                   room' = Ended(room, w, "ko") \/ room' = Ended(room, w, "time_limit")
          BY <4>1, <4>3 DEF Steps
        <5> QED BY <5>1, <4>1, <4>3 DEF Ended, Snapshots
      <4> QED BY <4>1, <4>2, <4>3, <3>1 DEF Snapshots, Statuses
    <3> QED BY <2>2, <3>2, <3>3 DEF LoopTick
  <2>3. CASE PublishTry BY <2>3 DEF PublishTry
  <2>4. CASE PublishDisplace BY <2>4 DEF PublishDisplace
  <2>5. CASE Republish BY <2>5 DEF Republish
  <2>6. CASE LoopCanceled BY <2>6 DEF LoopCanceled
  <2>7. CASE LoopClose BY <2>7 DEF LoopClose
  <2> QED BY <1>3, <2>1, <2>2, <2>3, <2>4, <2>5, <2>6, <2>7 DEF Loop
<1>4. CASE Broadcaster
  <2> USE DEF BcLeaves, roomVars, onceVars, handlerVars
  <2>1. CASE BcReceive BY <2>1 DEF BcReceive
  <2>2. CASE BcDrained BY <2>2 DEF BcDrained
  <2>3. CASE BcUpdateLast BY <2>3 DEF BcUpdateLast
  <2>4. CASE BcFinalize BY <2>4 DEF BcFinalize
  <2>5. CASE BcSkipOnce BY <2>5 DEF BcSkipOnce
  <2>6. ASSUME NEW p \in Players, BcPublish(p) PROVE Verdict'
    BY <2>6 DEF BcPublish
  <2>7. ASSUME NEW p \in Players, BcCloseSession(p) PROVE Verdict'
    BY <2>7 DEF BcCloseSession
  <2> QED BY <1>4, <2>1, <2>2, <2>3, <2>4, <2>5, <2>6, <2>7 DEF Broadcaster
<1>5. CASE Finalizer
  <2> USE DEF roomVars, bcVars, handlerVars
  <2>1. CASE FinishOnce BY <2>1 DEF FinishOnce
  <2>2. ASSUME NEW p \in Players, SendEnd(p) PROVE Verdict'
    BY <2>2 DEF SendEnd
  <2> QED BY <1>5, <2>1, <2>2 DEF Finalizer
<1>6. ASSUME NEW p \in Players, Handler(p) PROVE Verdict'
  <2> USE DEF HandlerLeaves, roomVars, bcVars, onceVars, handlerVars
  <2>1. CASE WriteStart(p) BY <2>1 DEF WriteStart
  <2>2. CASE Acknowledge(p) BY <2>2 DEF Acknowledge
  <2>3. CASE StreamSnapshot(p) BY <2>3 DEF StreamSnapshot
  <2>4. CASE ConnectionDone(p) BY <2>4 DEF ConnectionDone
  <2>5. CASE DeliverEnd(p) BY <2>5 DEF DeliverEnd
  <2>6. CASE GraceOver(p) BY <2>6 DEF GraceOver
  <2>7. CASE CloneLast(p) BY <2>7 DEF CloneLast
  <2>8. CASE HandlerFinalize(p) BY <2>8 DEF HandlerFinalize, EnterOnce
  <2>9. CASE HandlerSkipOnce(p) BY <2>9 DEF HandlerSkipOnce
  <2>10. CASE Abort(p) BY <2>10 DEF Abort
  <2> QED BY <1>6, <2>1, <2>2, <2>3, <2>4, <2>5, <2>6, <2>7, <2>8, <2>9, <2>10
          DEF Handler
<1>7. CASE (\E p \in Players : LoseConnection(p)) \/ UNCHANGED vars
  BY <1>7 DEF LoseConnection, vars, roomVars, bcVars, onceVars, handlerVars
<1> QED
  BY <1>1, <1>2, <1>3, <1>4, <1>5, <1>6, <1>7 DEF Next, Terminated

-----------------------------------------------------------------------------
(* Closing: the chain from the loop's exit to the closed session channels. *)
LEMMA NextClosing ==
  ASSUME TypeOK, OutcomeOnce, NeverStarted, Verdict, Closing, [Next]_vars PROVE Closing'
<1> USE DEF TypeOK, OutcomeOnce, NeverStarted, Verdict, Closing, TerminalInFlight, Absent
<1>1. CASE HandOff
  BY <1>1, PlayersAssumption DEF HandOff, roomVars, bcVars, onceVars
<1>2. CASE HandOffCanceled
  BY <1>2, PlayersAssumption DEF HandOffCanceled, roomVars, bcVars, onceVars
<1>3. CASE Loop
  <2> USE DEF LoopLeaves, AfterPublish, BarrierOpen, bcVars, onceVars, handlerVars
  <2>1. CASE LoopStart BY <2>1 DEF LoopStart
  <2>2. CASE LoopTick BY <2>2 DEF LoopTick
  <2>3. CASE PublishTry BY <2>3 DEF PublishTry
  <2>4. CASE PublishDisplace BY <2>4 DEF PublishDisplace
  <2>5. CASE Republish BY <2>5 DEF Republish
  <2>6. CASE LoopCanceled BY <2>6 DEF LoopCanceled
  <2>7. CASE LoopClose BY <2>7 DEF LoopClose
  <2> QED BY <1>3, <2>1, <2>2, <2>3, <2>4, <2>5, <2>6, <2>7 DEF Loop
<1>4. CASE Broadcaster
  <2> USE DEF BcLeaves, roomVars, onceVars, handlerVars
  <2>1. CASE BcReceive
    <3>1. (\E s \in roomSnapshots : s.status = "finished")
            => bcSnapshot'.status = "finished"
      BY <2>1 DEF BcReceive, AtMostOne
    <3>2. TerminalInFlight => TerminalInFlight'
      BY <2>1, <3>1 DEF BcReceive
    <3> QED BY <2>1, <3>2 DEF BcReceive
  <2>2. CASE BcDrained BY <2>2 DEF BcDrained
  <2>3. CASE BcUpdateLast BY <2>3 DEF BcUpdateLast
  <2>4. CASE BcFinalize
    <3>1. ~ Absent /\ ~ canceled BY <2>4 DEF BcFinalize, EnterOnce
    <3> QED BY <2>4, <3>1 DEF BcFinalize, EnterOnce
  <2>5. CASE BcSkipOnce BY <2>5 DEF BcSkipOnce
  <2>6. ASSUME NEW p \in Players, BcPublish(p) PROVE Closing'
    BY <2>6 DEF BcPublish
  <2>7. ASSUME NEW p \in Players, BcCloseSession(p) PROVE Closing'
    BY <2>7 DEF BcCloseSession
  <2> QED BY <1>4, <2>1, <2>2, <2>3, <2>4, <2>5, <2>6, <2>7 DEF Broadcaster
<1>5. CASE Finalizer
  <2> USE DEF roomVars, bcVars, handlerVars
  <2>1. CASE FinishOnce BY <2>1 DEF FinishOnce
  <2>2. ASSUME NEW p \in Players, SendEnd(p) PROVE Closing'
    BY <2>2 DEF SendEnd
  <2> QED BY <1>5, <2>1, <2>2 DEF Finalizer
<1>6. ASSUME NEW p \in Players, Handler(p) PROVE Closing'
  <2> USE DEF HandlerLeaves, roomVars, bcVars, onceVars, handlerVars
  <2>1. CASE WriteStart(p) BY <2>1 DEF WriteStart
  <2>2. CASE Acknowledge(p) BY <2>2 DEF Acknowledge
  <2>3. CASE StreamSnapshot(p) BY <2>3 DEF StreamSnapshot
  <2>4. CASE ConnectionDone(p) BY <2>4 DEF ConnectionDone
  <2>5. CASE DeliverEnd(p) BY <2>5 DEF DeliverEnd
  <2>6. CASE GraceOver(p) BY <2>6 DEF GraceOver
  <2>7. CASE CloneLast(p) BY <2>7 DEF CloneLast
  <2>8. CASE HandlerFinalize(p) BY <2>8 DEF HandlerFinalize, EnterOnce
  <2>9. CASE HandlerSkipOnce(p) BY <2>9 DEF HandlerSkipOnce
  <2>10. CASE Abort(p) BY <2>10 DEF Abort
  <2> QED BY <1>6, <2>1, <2>2, <2>3, <2>4, <2>5, <2>6, <2>7, <2>8, <2>9, <2>10
          DEF Handler
<1>7. CASE (\E p \in Players : LoseConnection(p)) \/ UNCHANGED vars
  BY <1>7 DEF LoseConnection, vars, roomVars, bcVars, onceVars, handlerVars
<1> QED
  BY <1>1, <1>2, <1>3, <1>4, <1>5, <1>6, <1>7 DEF Next, Terminated

-----------------------------------------------------------------------------
(* Losers: how an outcome is justified.                                    *)
LEMMA NextLosers ==
  ASSUME TypeOK, OutcomeOnce, NeverStarted, Verdict, Closing, Losers, [Next]_vars PROVE Losers'
<1> USE DEF TypeOK, OutcomeOnce, Verdict, Losers
<1>1. CASE HandOff
  BY <1>1, PlayersAssumption DEF HandOff, roomVars, bcVars, onceVars
<1>2. CASE HandOffCanceled
  BY <1>2, PlayersAssumption DEF HandOffCanceled, roomVars, bcVars, onceVars
<1>3. CASE Loop
  <2> USE DEF LoopLeaves, AfterPublish, BarrierOpen, bcVars, onceVars, handlerVars
  <2>1. CASE LoopStart BY <2>1 DEF LoopStart
  <2>2. CASE LoopTick BY <2>2 DEF LoopTick
  <2>3. CASE PublishTry BY <2>3 DEF PublishTry
  <2>4. CASE PublishDisplace BY <2>4 DEF PublishDisplace
  <2>5. CASE Republish BY <2>5 DEF Republish
  <2>6. CASE LoopCanceled BY <2>6 DEF LoopCanceled
  <2>7. CASE LoopClose BY <2>7 DEF LoopClose
  <2> QED BY <1>3, <2>1, <2>2, <2>3, <2>4, <2>5, <2>6, <2>7 DEF Loop
<1>4. CASE Broadcaster
  <2> USE DEF BcLeaves, roomVars, onceVars, handlerVars
  <2>1. CASE BcReceive BY <2>1 DEF BcReceive
  <2>2. CASE BcDrained BY <2>2 DEF BcDrained
  <2>3. CASE BcUpdateLast BY <2>3 DEF BcUpdateLast
  <2>4. CASE BcFinalize
    <3>1. bcSnapshot = room /\ room.status = "finished" BY <2>4 DEF BcFinalize
    <3>2. outcome' = {RoomOutcome(room)}
      BY <2>4, <3>1 DEF BcFinalize, EnterOnce
    <3>3. RoomOutcome(room).reason # "disconnect"
      BY DEF RoomOutcome, Snapshots
    <3> QED BY <2>4, <3>1, <3>2, <3>3 DEF BcFinalize
  <2>5. CASE BcSkipOnce BY <2>5 DEF BcSkipOnce
  <2>6. ASSUME NEW p \in Players, BcPublish(p) PROVE Losers'
    BY <2>6 DEF BcPublish
  <2>7. ASSUME NEW p \in Players, BcCloseSession(p) PROVE Losers'
    BY <2>7 DEF BcCloseSession
  <2> QED BY <1>4, <2>1, <2>2, <2>3, <2>4, <2>5, <2>6, <2>7 DEF Broadcaster
<1>5. CASE Finalizer
  <2> USE DEF roomVars, bcVars, handlerVars
  <2>1. CASE FinishOnce BY <2>1 DEF FinishOnce
  <2>2. ASSUME NEW p \in Players, SendEnd(p) PROVE Losers'
    BY <2>2 DEF SendEnd
  <2> QED BY <1>5, <2>1, <2>2 DEF Finalizer
<1>6. ASSUME NEW p \in Players, Handler(p) PROVE Losers'
  <2> USE DEF HandlerLeaves, roomVars, bcVars, onceVars, handlerVars
  <2>1. CASE WriteStart(p) BY <2>1 DEF WriteStart
  <2>2. CASE Acknowledge(p) BY <2>2 DEF Acknowledge
  <2>3. CASE StreamSnapshot(p) BY <2>3 DEF StreamSnapshot
  <2>4. CASE ConnectionDone(p) BY <2>4 DEF ConnectionDone
  <2>5. CASE DeliverEnd(p)
    <3>1. closed[p] => outcome # {}
      <4>1. closed[p] => terminalOnce = "done" \/ Absent
        BY DEF Closing, TerminalInFlight
      <4>2. hpc[p] = "serve" BY <2>5 DEF DeliverEnd
      <4> QED BY <4>1, <4>2 DEF NeverStarted, Absent
    <3>2. outcome # {} BY <2>5, <3>1 DEF DeliverEnd
    <3> QED BY <2>5, <3>2 DEF DeliverEnd
  <2>6. CASE GraceOver(p) BY <2>6 DEF GraceOver
  <2>7. CASE CloneLast(p)
    <3>1. /\ DisconnectOutcome(p).winner = Opponent(p)
          /\ DisconnectOutcome(p).reason = "disconnect"
      BY DEF DisconnectOutcome
    <3> QED BY <2>7, <3>1 DEF CloneLast
  <2>8. CASE HandlerFinalize(p) BY <2>8 DEF HandlerFinalize, EnterOnce
  <2>9. CASE HandlerSkipOnce(p) BY <2>9 DEF HandlerSkipOnce
  <2>10. CASE Abort(p) BY <2>10 DEF Abort
  <2> QED BY <1>6, <2>1, <2>2, <2>3, <2>4, <2>5, <2>6, <2>7, <2>8, <2>9, <2>10
          DEF Handler
<1>7. ASSUME NEW p \in Players, LoseConnection(p) PROVE Losers'
  BY <1>7 DEF LoseConnection, roomVars, bcVars, onceVars
<1>8. CASE UNCHANGED vars
  BY <1>8 DEF vars, roomVars, bcVars, onceVars, handlerVars
<1> QED
  BY <1>1, <1>2, <1>3, <1>4, <1>5, <1>6, <1>7, <1>8 DEF Next, Terminated

-----------------------------------------------------------------------------
(* Putting the parts together.                                             *)
LEMMA InitIndInv == Init => IndInv
<1> SUFFICES ASSUME Init PROVE IndInv OBVIOUS
<1>1. TypeOK BY InitTypeOK
<1>2. OutcomeOnce /\ Filling BY DEF Init, OutcomeOnce, Filling
<1>3. NeverStarted /\ Closing
  BY PlayersAssumption DEF Init, NeverStarted, Closing, Absent
<1>4. Verdict /\ Losers BY DEF Init, InitialRoom, Verdict, Losers
<1> QED BY <1>1, <1>2, <1>3, <1>4 DEF IndInv

(* Every step keeps the inductive invariant.                               *)
LEMMA NextIndInv == IndInv /\ [Next]_vars => IndInv'
BY NextTypeOK, NextOutcomeOnce, NextFilling, NextNeverStarted, NextVerdict,
   NextClosing, NextLosers DEF IndInv

(* Spec maintains the inductive invariant; its first part is the typing of *)
(* the match's state and the capacity of its channels.                     *)
THEOREM MatchInvariant == Spec => []IndInv
BY InitIndInv, NextIndInv, PTL DEF Spec

(* Type correctness, and no channel ever holds more than its capacity.     *)
THEOREM MatchTypeOK == Spec => []TypeOK
<1>1. IndInv => TypeOK BY DEF IndInv
<1> QED BY <1>1, MatchInvariant, PTL

(* finalize chooses one terminal outcome for delivery and for persistence. *)
THEOREM MatchSoleOutcome == Spec => []SoleOutcome
<1>1. IndInv => SoleOutcome BY SoleOutcomeFollows DEF IndInv
<1> QED BY <1>1, MatchInvariant, PTL

(* A settled match, or one without sessions, is the only one whose session *)
(* channels are closed.                                                    *)
LEMMA ClosedIsSettled ==
  ASSUME IndInv, NEW p \in Players, closed[p]
  PROVE  terminalOnce = "done" \/ Absent
BY DEF IndInv, Closing, TerminalInFlight

(* finalize neither blocks on a session channel nor panics on a closed one. *)
THEOREM MatchNeverBlocksNorPanics == Spec => []NeverBlocksNorPanics
<1>1. ASSUME IndInv, terminalOnce # "done", NEW p \in Players,
             (terminalOnce = "idle" /\ hpc[p] # "absent") \/ p \in unsent
      PROVE  matchEnds[p] = {} /\ ~ closed[p]
  <2>1. matchEnds[p] = {} BY <1>1 DEF IndInv, OutcomeOnce, Filling
  <2>2. ~ Absent BY <1>1 DEF IndInv, NeverStarted, Filling, Absent
  <2> QED BY <1>1, <2>1, <2>2, ClosedIsSettled
<1>2. IndInv => NeverBlocksNorPanics BY <1>1 DEF NeverBlocksNorPanics
<1> QED BY <1>2, MatchInvariant, PTL

(* No handler that still owes its client the terminal event finds its      *)
(* channel closed and empty.                                               *)
THEOREM MatchEndBeforeClose == Spec => []EndBeforeClose
<1>1. ASSUME IndInv, NEW p \in Players, closed[p],
             hpc[p] \in {"start", "ack", "serve"}
      PROVE  matchEnds[p] # {}
  <2>1. ~ Absent BY <1>1 DEF IndInv, NeverStarted, Absent
  <2>2. terminalOnce = "done" BY <1>1, <2>1, ClosedIsSettled
  <2> QED BY <1>1, <2>2 DEF IndInv, Filling
<1>2. IndInv => EndBeforeClose BY <1>1 DEF EndBeforeClose
<1> QED BY <1>2, MatchInvariant, PTL

(* Only DeliverEnd could leave a client untold, and finds its MatchEnd.    *)
LEMMA NextEveryoneHears ==
  ASSUME TypeOK, EndBeforeClose, EveryoneHears, [Next]_vars PROVE EveryoneHears'
<1> USE DEF TypeOK, EveryoneHears, HandlerLeaves
<1>1. CASE UNCHANGED <<hpc, connection, written>> BY <1>1
<1>2. CASE HandOff \/ HandOffCanceled \/ FinishOnce
  BY <1>2 DEF HandOff, HandOffCanceled, FinishOnce
<1>3. ASSUME NEW p \in Players, DeliverEnd(p) PROVE EveryoneHears'
  <2>1. matchEnds[p] # {} BY <1>3 DEF DeliverEnd, EndBeforeClose
  <2> QED BY <1>3, <2>1 DEF DeliverEnd
<1>4. ASSUME NEW p \in Players,
             WriteStart(p) \/ Acknowledge(p) \/ ConnectionDone(p) \/ GraceOver(p)
      PROVE  EveryoneHears'
  BY <1>4 DEF WriteStart, Acknowledge, ConnectionDone, GraceOver
<1>5. ASSUME NEW p \in Players,
             \/ CloneLast(p) \/ HandlerFinalize(p) \/ HandlerSkipOnce(p)
             \/ Abort(p) \/ LoseConnection(p)
      PROVE  EveryoneHears'
  BY <1>5 DEF CloneLast, HandlerFinalize, HandlerSkipOnce, Abort, LoseConnection
<1>6. CASE Loop BY <1>1, <1>6
  DEF Loop, LoopStart, LoopTick, PublishTry, PublishDisplace, Republish,
      LoopCanceled, LoopClose, handlerVars
<1>7. CASE Broadcaster BY <1>1, <1>7
  DEF Broadcaster, BcReceive, BcDrained, BcUpdateLast, BcFinalize, BcSkipOnce,
      BcPublish, BcCloseSession, handlerVars
<1>8. ASSUME NEW p \in Players, StreamSnapshot(p) \/ SendEnd(p)
      PROVE  EveryoneHears'
  BY <1>1, <1>8 DEF StreamSnapshot, SendEnd, handlerVars
<1>9. CASE UNCHANGED vars BY <1>1, <1>9 DEF vars, handlerVars
<1> QED
  BY <1>2, <1>3, <1>4, <1>5, <1>6, <1>7, <1>8, <1>9
  DEF Next, Finalizer, Handler, Terminated

(* A client whose connection is up is never left without the terminal      *)
(* event.                                                                  *)
THEOREM MatchEveryoneHears == Spec => []EveryoneHears
<1>1. Init => EveryoneHears BY DEF Init, EveryoneHears
<1>2. IndInv => TypeOK BY DEF IndInv
<1> QED BY <1>1, <1>2, NextEveryoneHears, MatchInvariant, MatchEndBeforeClose,
           PTL DEF Spec

(* A disconnect is awarded only against a player who was gone before being *)
(* told anything; every other outcome is the finished Room's own.          *)
THEOREM MatchOutcomeJustified == Spec => []OutcomeJustified
<1>1. IndInv => OutcomeJustified BY DEF IndInv, Losers, OutcomeJustified
<1> QED BY <1>1, MatchInvariant, PTL

-----------------------------------------------------------------------------
(* The mailboxes: which actions touch them or what they are measured by.   *)
MailVars == <<room, loopPc, roomSnapshots, bcPc, bcSnapshot, bcLeft,
              lastSnapshot, snapshots>>

(* Only the loop, the broadcaster, a handler that streams and the end of   *)
(* finalize touch the mailboxes.                                           *)
LEMMA MailFrame ==
  ASSUME [Next]_vars
  PROVE  \/ UNCHANGED MailVars
         \/ Loop \/ Broadcaster \/ FinishOnce
         \/ \E p \in Players : StreamSnapshot(p)
<1> USE DEF MailVars, roomVars, bcVars
<1>1. CASE HandOff \/ HandOffCanceled
  BY <1>1 DEF HandOff, HandOffCanceled
<1>2. ASSUME NEW p \in Players, SendEnd(p) \/ LoseConnection(p)
      PROVE  UNCHANGED MailVars
  BY <1>2 DEF SendEnd, LoseConnection
<1>3. ASSUME NEW p \in Players, Handler(p), ~ StreamSnapshot(p)
      PROVE  UNCHANGED MailVars
  BY <1>3 DEF Handler, WriteStart, Acknowledge, ConnectionDone, DeliverEnd,
              GraceOver, CloneLast, HandlerFinalize, HandlerSkipOnce, Abort
<1>4. CASE UNCHANGED vars BY <1>4 DEF vars
<1> QED BY <1>1, <1>2, <1>3, <1>4 DEF Next, Finalizer, Terminated

(* The loop's steps keep the newest snapshot where its reader will find    *)
(* it.                                                                     *)
LEMMA LoopMailboxes ==
  ASSUME TypeOK, Mailboxes, NewestWins, Loop PROVE Mailboxes' /\ NewestWins'
<1> USE DEF Mailboxes, NewestWins, LoopLeaves, AfterPublish, bcVars
<1>1. CASE LoopStart BY <1>1 DEF LoopStart
<1>2. CASE LoopTick BY <1>2 DEF LoopTick
<1>3. CASE PublishTry BY <1>3 DEF PublishTry
<1>4. CASE PublishDisplace BY <1>4 DEF PublishDisplace
<1>5. CASE Republish BY <1>5 DEF Republish
<1>6. CASE LoopCanceled BY <1>6 DEF LoopCanceled
<1>7. CASE LoopClose BY <1>7 DEF LoopClose
<1> QED BY <1>1, <1>2, <1>3, <1>4, <1>5, <1>6, <1>7 DEF Loop

(* So do those of the broadcaster, player by player.                       *)
LEMMA BroadcasterMailboxes ==
  ASSUME TypeOK, Verdict, Mailboxes, NewestWins, Broadcaster
  PROVE  Mailboxes' /\ NewestWins'
<1> USE DEF TypeOK, Mailboxes, NewestWins, BcLeaves, roomVars
<1>1. CASE BcReceive BY <1>1 DEF BcReceive
<1>2. CASE BcDrained BY <1>2 DEF BcDrained
<1>3. CASE BcUpdateLast BY <1>3 DEF BcUpdateLast
<1>4. CASE BcFinalize BY <1>4 DEF BcFinalize
<1>5. CASE BcSkipOnce BY <1>5 DEF BcSkipOnce
<1>6. ASSUME NEW p \in Players, BcPublish(p) PROVE Mailboxes' /\ NewestWins'
  <2>1. \A q \in Players \ bcLeft' : snapshots'[q] \subseteq {bcSnapshot}
    BY <1>6 DEF BcPublish, PublishLatest
  <2>2. \A q \in Players : \A s \in snapshots'[q] : s.status # "finished"
    BY <1>6 DEF BcPublish, PublishLatest
  <2> QED BY <1>6, <2>1, <2>2 DEF BcPublish
<1>7. ASSUME NEW p \in Players, BcCloseSession(p) PROVE Mailboxes' /\ NewestWins'
  BY <1>7 DEF BcCloseSession
<1> QED BY <1>1, <1>2, <1>3, <1>4, <1>5, <1>6, <1>7 DEF Broadcaster

(* Every step keeps the newest snapshot where a reader will find it.       *)
LEMMA NextMailboxes ==
  ASSUME TypeOK, Verdict, Mailboxes, NewestWins, [Next]_vars
  PROVE  Mailboxes' /\ NewestWins'
<1> USE DEF TypeOK, Mailboxes, NewestWins
<1>1. CASE UNCHANGED MailVars BY <1>1 DEF MailVars
<1>2. CASE FinishOnce BY <1>2 DEF FinishOnce, roomVars
<1>3. ASSUME NEW p \in Players, StreamSnapshot(p) PROVE Mailboxes' /\ NewestWins'
  <2>1. \A q \in Players : snapshots'[q] \subseteq snapshots[q]
    BY <1>3 DEF StreamSnapshot
  <2> QED BY <1>3, <2>1 DEF StreamSnapshot, roomVars, bcVars
<1> QED BY <1>1, <1>2, <1>3, MailFrame, LoopMailboxes, BroadcasterMailboxes

(* Backpressure loses only what is older: outside a publication no mailbox *)
(* holds anything but the newest snapshot, and none a final one.           *)
THEOREM MatchNewestWins == Spec => []NewestWins
<1>1. Init => Mailboxes /\ NewestWins BY DEF Init, Mailboxes, NewestWins
<1>2. IndInv => TypeOK /\ Verdict BY DEF IndInv
<1> QED BY <1>1, <1>2, NextMailboxes, MatchInvariant, PTL DEF Spec

-----------------------------------------------------------------------------
(* Every step of the match is a step of MatchOutcome, or none.             *)
LEMMA InitPromise == Init => Promise!Init
BY DEF Init, Promise!Init

(* Every step of a match is a step of MatchOutcome or changes nothing in   *)
(* it.                                                                     *)
LEMMA NextPromise ==
  ASSUME IndInv, [Next]_vars PROVE [Promise!Next]_(Promise!vars)
<1> USE DEF IndInv, TypeOK, AtMostOne, OutcomeOnce, Promise!vars
<1>1. CASE UNCHANGED EndVars BY <1>1 DEF EndVars
<1>2. ASSUME NEW o \in Outcomes, EnterOnce(o), UNCHANGED written
      PROVE  Promise!Next
  BY <1>2 DEF EnterOnce, Promise!Next, Promise!Decide
<1>3. CASE BcFinalize
  <2>1. RoomOutcome(bcSnapshot) \in Outcomes
    <3>1. bcSnapshot \in Snapshots /\ bcSnapshot.reason # "none"
      BY <1>3 DEF BcFinalize, BcLeaves, Verdict
    <3> QED BY <3>1, RoomOutcomeType
  <2> QED BY <1>2, <1>3, <2>1 DEF BcFinalize, handlerVars
<1>4. ASSUME NEW p \in Players, HandlerFinalize(p) PROVE Promise!Next
  BY <1>2, <1>4 DEF HandlerFinalize
<1>5. CASE FinishOnce
  <2>1. outcome # {} BY <1>5 DEF FinishOnce
  <2>2. CASE reported = {}
    BY <1>5, <2>1, <2>2 DEF FinishOnce, Promise!Next, Promise!Report
  <2>3. CASE reported # {}
    BY <1>5, <2>3 DEF FinishOnce
  <2> QED BY <2>2, <2>3
<1>6. ASSUME NEW p \in Players, SendEnd(p) PROVE UNCHANGED Promise!vars
  BY <1>6 DEF SendEnd, handlerVars
<1>7. ASSUME NEW p \in Players, DeliverEnd(p)
      PROVE  [Promise!Next]_(Promise!vars)
  <2>1. CASE written[p] = {} /\ matchEnds[p] # {} /\ connection[p] = "up"
    <3>1. matchEnds[p] = outcome BY <2>1
    <3> QED BY <1>7, <2>1, <3>1
            DEF DeliverEnd, onceVars, Promise!Next, Promise!Tell
  <2>2. CASE ~ (matchEnds[p] # {} /\ connection[p] = "up")
    BY <1>7, <2>2 DEF DeliverEnd, onceVars
  <2>3. CASE written[p] # {} /\ matchEnds[p] # {}
    <3>1. PICK x \in written[p], y \in matchEnds[p] : TRUE BY <2>3
    <3>2. outcome = {x} /\ x = y BY <3>1
    <3>3. written[p] = {x} /\ matchEnds[p] = {x} BY <3>1, <3>2
    <3>4. written' = written BY <1>7, <3>3 DEF DeliverEnd
    <3> QED BY <1>7, <3>4 DEF DeliverEnd, onceVars
  <2> QED BY <2>1, <2>2, <2>3
<1> QED BY EndFrame, <1>1, <1>3, <1>4, <1>5, <1>6, <1>7

(* The match implements MatchOutcome: one outcome is decided, and only it  *)
(* is told to the players and given to persistence, at most once each.     *)
THEOREM MatchKeepsPromise == Spec => PromiseKept
<1>1. Init => Promise!Init BY InitPromise
<1>2. IndInv /\ [Next]_vars => [Promise!Next]_(Promise!vars) BY NextPromise
<1> QED BY <1>1, <1>2, MatchInvariant, PTL DEF Spec, PromiseKept, Promise!Spec
=============================================================================
