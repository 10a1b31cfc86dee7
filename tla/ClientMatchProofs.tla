------------------------- MODULE ClientMatchProofs --------------------------
(***************************************************************************)
(* Proofs about ClientMatch, for a match of any length: what the player is *)
(* shown when the connection ends, and that the world never goes back.     *)
(***************************************************************************)
EXTENDS ClientMatch, SequenceTheorems, TLAPS

(* The types the arguments below rest on; the stream is only delivered.    *)
Types ==
  /\ matchEnd \in Tick \cup {None} /\ matchEnded \in BOOLEAN
  /\ tick \in Tick /\ datagrams \subseteq Tick /\ snapshots \in Seq(Tick)
  /\ connected \in BOOLEAN /\ failed \in BOOLEAN
  /\ authenticated \in BOOLEAN /\ datagramSendEnabled \in BOOLEAN
  /\ started \in BOOLEAN /\ ended \in BOOLEAN /\ due \in BOOLEAN
  /\ world \in Tick

(* A failure has a message, and a connection that Connect has accepted is  *)
(* only lost by a failure or after the MatchEnd.                           *)
CauseInv ==
  /\ failed <=> error # ""
  /\ connected => authenticated /\ datagramSendEnabled
  /\ connecting = "accepted" /\ screen \in {"connecting", "playing"} =>
       connected \/ failed \/ matchEnded
  /\ connecting = "refused" => failed
  /\ link \in {"closed", "complete"} /\ screen \in {"connecting", "playing"} =>
       failed \/ matchEnded
  /\ screen = "playing" => connecting = "accepted"
  /\ screen = "error" /\ shown = "" => matchEnded

(* A MatchEnd that was there when the frame began is still to be polled,   *)
(* or polled and not yet acted on.                                         *)
EndInv ==
  /\ screen \in {"connecting", "error"} => ~due
  /\ screen = "playing" /\ due => frame # "start"
  /\ due /\ frame \in {"snapshot", "end"} => matchEnd # None
  /\ due /\ frame = "check" => ended

IInv == Types /\ CauseInv /\ EndInv

(* No tick is None, and the first is one.                                  *)
LEMMA Ticks == None \notin Tick /\ 0 \in Tick /\ Tick \subseteq Nat
BY ClientMatchAssumption DEF Tick

(* Nothing to poll is a sequence of snapshots.                             *)
LEMMA EmptyIsSeq == << >> \in Seq(Tick)
BY EmptySeq

(* The tick after one that is not the last.                                *)
LEMMA NextTick == ASSUME tick \in Tick, tick < MaxTick PROVE tick + 1 \in Tick
BY ClientMatchAssumption DEF Tick

(* What arrived last is a snapshot.                                        *)
LEMMA LastIsTick ==
  ASSUME snapshots \in Seq(Tick), snapshots # << >>
  PROVE  snapshots[Len(snapshots)] \in Tick
<1>1. Len(snapshots) \in Nat \ {0}
  BY EmptySeq
<1>2. Len(snapshots) \in 1..Len(snapshots)
  BY <1>1
<1> QED
  BY <1>2, ElementOfSeq

(* The world after a snapshot is one of the two.                           *)
LEMMA ApplySnapshotTick ==
  ASSUME NEW snapshot \in Tick, world \in Tick
  PROVE  /\ ApplySnapshot(snapshot) \in Tick
         /\ started' => ApplySnapshot(snapshot) >= world
BY Ticks DEF ApplySnapshot

(* The invariant holds in the initial state.                               *)
LEMMA InitIInv == Init => IInv
<1> SUFFICES ASSUME Init PROVE IInv
  OBVIOUS
<1>1. Types
  BY Ticks, EmptyIsSeq DEF Init, Types
<1>2. CauseInv
  BY DEF Init, CauseInv
<1>3. EndInv
  BY DEF Init, EndInv
<1> QED
  BY <1>1, <1>2, <1>3 DEF IInv

(* The server and the network leave the client alone.                      *)
LEMMA NetworkIInv == IInv /\ (Server \/ ServerTick \/ LoseDatagram) => IInv'
<1> SUFFICES ASSUME IInv, Server \/ ServerTick \/ LoseDatagram PROVE IInv'
  OBVIOUS
<1> USE DEF IInv, Types, CauseInv, EndInv, networkVars, stateVars, inboxVars,
            gameVars, screenVars, serverVars
<1>1. CASE Server
  <2>1. UNCHANGED <<tick, datagrams, link, connecting, stateVars, inboxVars, gameVars,
                    screenVars>>
    BY <1>1 DEF Server, ServerStep
  <2> QED
    BY <2>1
<1>2. CASE ServerTick
  <2>1. tick' \in Tick
    BY <1>2, NextTick DEF ServerTick
  <2>2. datagrams' \subseteq Tick
    BY <1>2, <2>1 DEF ServerTick
  <2>3. UNCHANGED <<link, connecting, stateVars, inboxVars, gameVars, screenVars>>
    BY <1>2 DEF ServerTick
  <2> QED
    BY <2>1, <2>2, <2>3
<1>3. CASE LoseDatagram
  BY <1>3 DEF LoseDatagram
<1> QED
  BY <1>1, <1>2, <1>3

(* The thread of Connect.                                                  *)
LEMMA ConnectIInv == IInv /\ Connect => IInv'
<1> SUFFICES ASSUME IInv, Connect PROVE IInv'
  OBVIOUS
<1> USE DEF IInv, Types, CauseInv, EndInv, networkVars, stateVars, inboxVars,
            gameVars, screenVars, serverVars
<1>1. CASE ConnectStarts
  BY <1>1 DEF ConnectStarts
<1>2. CASE OpenFails
  BY <1>2 DEF OpenFails, SetError
<1>3. CASE ConnectReturns
  BY <1>3 DEF ConnectReturns
<1>4. CASE ConnectTimesOut
  BY <1>4 DEF ConnectTimesOut
<1> QED
  BY <1>1, <1>2, <1>3, <1>4 DEF Connect

CallbackStep ==
  OnConnected \/ OnDatagramState \/ ReceiveDatagram \/ OnShutdownInitiated \/ Callbacks

(* The callbacks of MsQuic.                                                *)
LEMMA CallbackIInv == IInv /\ CallbackStep => IInv'
<1> SUFFICES ASSUME IInv, CallbackStep PROVE IInv'
  OBVIOUS
<1> USE DEF IInv, Types, CauseInv, EndInv, stateVars, inboxVars, gameVars,
            screenVars, serverVars, networkVars
<1>1. CASE OnConnected
  <2>1. CASE link' = "up" /\ UNCHANGED stateVars
    BY <1>1, <2>1 DEF OnConnected
  <2>2. CASE link' = "closed" /\ SetError("local")
    <3>1. failed' /\ ~connected' /\ error' # ""
      BY <2>2 DEF SetError
    <3> QED
      BY <1>1, <2>2, <3>1 DEF OnConnected, SetError
  <2> QED
    BY <1>1, <2>1, <2>2 DEF OnConnected
<1>2. CASE OnDatagramState
  BY <1>2 DEF OnDatagramState, UpdateConnected
<1>3. CASE ReceiveDatagram
  <2>1. PICK t \in datagrams : /\ snapshots' = Append(snapshots, t)
                               /\ datagrams' = datagrams \ {t}
    BY <1>3 DEF ReceiveDatagram
  <2>2. snapshots' \in Seq(Tick) /\ datagrams' \subseteq Tick
    BY <2>1, AppendProperties
  <2> QED
    BY <1>3, <2>2 DEF ReceiveDatagram
<1>4. CASE OnShutdownInitiated
  BY <1>4 DEF OnShutdownInitiated, ServerClosed
<1>5. CASE ReceiveError
  BY <1>5 DEF ReceiveError, Arrives
<1>6. CASE ReceiveReady
  BY <1>6 DEF ReceiveReady, Arrives, UpdateConnected
<1>7. CASE ReceiveMatchStart
  BY <1>7 DEF ReceiveMatchStart, Arrives
<1>8. CASE ReceiveMatchEnd
  BY <1>8, Ticks DEF ReceiveMatchEnd, Arrives
<1>9. CASE OnPeerSendShutdown
  BY <1>9 DEF OnPeerSendShutdown, Arrives, ServerClosed
<1>10. CASE OnShutdownComplete
  BY <1>10 DEF OnShutdownComplete
<1> QED
  BY <1>1, <1>2, <1>3, <1>4, <1>5, <1>6, <1>7, <1>8, <1>9, <1>10
     DEF CallbackStep, Callbacks, Receive

(* The steps of a frame, and the end of the match's screen.                *)
LEMMA MainIInv == IInv /\ (MainLoop \/ Close \/ Closed) => IInv'
<1> SUFFICES ASSUME IInv, MainLoop \/ Close \/ Closed PROVE IInv'
  OBVIOUS
<1> USE DEF IInv, Types, CauseInv, EndInv, stateVars, inboxVars, gameVars,
            screenVars, serverVars, networkVars
<1>1. CASE ConnectPolled
  BY <1>1 DEF ConnectPolled
<1>2. CASE PollStart
  <2>1. world' \in Tick
    BY <1>2, ApplySnapshotTick, Ticks DEF PollStart
  <2> QED
    BY <1>2, <2>1, Ticks DEF PollStart, FrameStep
<1>3. CASE PollSnapshot
  <2>1. snapshots # << >> => snapshots[Len(snapshots)] \in Tick
    BY LastIsTick
  <2>2. world' \in Tick
    BY <1>3, <2>1, ApplySnapshotTick DEF PollSnapshot
  <2> QED
    BY <1>3, <2>2, EmptyIsSeq DEF PollSnapshot, FrameStep
<1>4. CASE PollEnd
  <2>1. world' \in Tick
    BY <1>4, ApplySnapshotTick DEF PollEnd
  <2> QED
    BY <1>4, <2>1, Ticks DEF PollEnd, FrameStep
<1>5. CASE CheckConnected
  BY <1>5 DEF CheckConnected, FrameStep, IsConnected
<1>6. CASE Close
  <2>1. datagrams' \subseteq Tick /\ UNCHANGED <<matchEnd, tick, snapshots, world>>
    BY <1>6 DEF Close
  <2> QED
    BY <1>6, <2>1 DEF Close
<1>7. CASE Closed
  BY <1>7 DEF Closed
<1> QED
  BY <1>1, <1>2, <1>3, <1>4, <1>5, <1>6, <1>7 DEF MainLoop

(* Every step preserves the invariant.                                     *)
LEMMA NextIInv == IInv /\ [Next]_vars => IInv'
<1> SUFFICES ASSUME IInv, [Next]_vars PROVE IInv'
  OBVIOUS
<1>1. CASE UNCHANGED vars
  BY <1>1 DEF vars, IInv, Types, CauseInv, EndInv, stateVars, inboxVars, gameVars,
              screenVars, serverVars, networkVars
<1> QED
  BY <1>1, NetworkIInv, ConnectIInv, CallbackIInv, MainIInv DEF Next, CallbackStep

(* The inductive invariant of the client's match.                          *)
THEOREM ClientMatchInvariant == Spec => []IInv
<1> QED
  BY InitIInv, NextIInv, PTL DEF Spec

(* A MatchEnd that was there when a frame began is shown.                  *)
THEOREM ClientMatchEndIsShown == Spec => []EndIsShown
<1>1. IInv => EndIsShown
  BY DEF IInv, EndInv, EndIsShown
<1> QED
  BY <1>1, ClientMatchInvariant, PTL

(* An error is explained, except in the frame that misses the MatchEnd.    *)
THEOREM ClientMatchErrorExplained == Spec => []ErrorExplained
<1>1. IInv => ErrorExplained
  BY DEF IInv, CauseInv, ErrorExplained
<1> QED
  BY <1>1, ClientMatchInvariant, PTL

(* No step replaces the server's reason.                                   *)
LEMMA StepKeepsCause ==
  IInv /\ [Next]_vars => (error = "refusal" => error' = "refusal")
<1> SUFFICES ASSUME IInv, [Next]_vars, error = "refusal" PROVE error' = "refusal"
  OBVIOUS
<1>1. failed
  BY DEF IInv, CauseInv
<1> USE DEF stateVars, serverVars, networkVars, inboxVars, gameVars, screenVars
<1>2. CASE Server \/ ServerTick \/ LoseDatagram
  BY <1>2 DEF Server, ServerStep, ServerTick, LoseDatagram
<1>3. CASE Connect
  BY <1>1, <1>3
     DEF Connect, ConnectStarts, OpenFails, ConnectReturns, ConnectTimesOut, SetError
<1>4. CASE CallbackStep
  BY <1>4 DEF CallbackStep, OnConnected, OnDatagramState, ReceiveDatagram,
              OnShutdownInitiated, Callbacks, Receive, ReceiveError, ReceiveReady,
              ReceiveMatchStart, ReceiveMatchEnd, Arrives, OnPeerSendShutdown,
              OnShutdownComplete, SetError, ServerClosed, UpdateConnected
<1>5. CASE MainLoop \/ Close \/ Closed
  BY <1>5 DEF MainLoop, ConnectPolled, PollStart, PollSnapshot, PollEnd,
              CheckConnected, FrameStep, Close, Closed
<1>6. CASE UNCHANGED vars
  BY <1>6 DEF vars
<1> QED
  BY <1>2, <1>3, <1>4, <1>5, <1>6 DEF Next, CallbackStep

(* The reason the server gave survives whatever follows it.                *)
THEOREM ClientMatchCauseKept == Spec => CauseKept
<1>1. IInv /\ [Next]_vars => [error = "refusal" => error' = "refusal"]_vars
  BY StepKeepsCause
<1> QED
  BY <1>1, ClientMatchInvariant, PTL DEF Spec, CauseKept

(* No step takes the world of a match that has started back.               *)
LEMMA StepNeverBack == IInv /\ [Next]_vars => (started => world' >= world)
<1> SUFFICES ASSUME IInv, [Next]_vars, started PROVE world' >= world
  OBVIOUS
<1>1. world \in Tick /\ world \in Nat
  BY Ticks DEF IInv, Types
<1>2. ASSUME world' = world PROVE world' >= world
  BY <1>1, <1>2
<1>3. CASE PollStart
  <2>1. started'
    BY <1>3 DEF PollStart
  <2> QED
    BY <1>1, <1>2, <1>3, <2>1, ApplySnapshotTick, Ticks DEF PollStart
<1>4. CASE PollSnapshot
  <2>1. started' /\ (snapshots # << >> => snapshots[Len(snapshots)] \in Tick)
    BY <1>4 DEF PollSnapshot, IInv, Types
  <2> QED
    BY <1>1, <1>2, <1>4, <2>1, ApplySnapshotTick DEF PollSnapshot
<1>5. CASE PollEnd
  <2>1. started' /\ (matchEnd # None => matchEnd \in Tick)
    BY <1>5 DEF PollEnd, IInv, Types
  <2> QED
    BY <1>1, <1>2, <1>5, <2>1, ApplySnapshotTick DEF PollEnd
<1> USE DEF gameVars
<1>6. CASE Server \/ ServerTick \/ LoseDatagram \/ Connect
  BY <1>2, <1>6 DEF Server, ServerStep, ServerTick, LoseDatagram, Connect,
       ConnectStarts, OpenFails, ConnectReturns, ConnectTimesOut
<1>7. CASE CallbackStep
  BY <1>2, <1>7 DEF CallbackStep, OnConnected, OnDatagramState, ReceiveDatagram,
       OnShutdownInitiated, Callbacks, Receive, ReceiveError, ReceiveReady,
       ReceiveMatchStart, ReceiveMatchEnd, Arrives, OnPeerSendShutdown,
       OnShutdownComplete
<1>8. CASE ConnectPolled \/ CheckConnected \/ Close \/ Closed
  BY <1>2, <1>8 DEF ConnectPolled, CheckConnected, Close, Closed
<1>9. CASE UNCHANGED vars
  BY <1>2, <1>9 DEF vars
<1> QED
  BY <1>3, <1>4, <1>5, <1>6, <1>7, <1>8, <1>9 DEF Next, MainLoop, CallbackStep

(* The world of a match that has started never goes back.                  *)
THEOREM ClientMatchNeverBack == Spec => NeverBack
<1>1. IInv /\ [Next]_vars => [started => world' >= world]_vars
  BY StepNeverBack
<1> QED
  BY <1>1, ClientMatchInvariant, PTL DEF Spec, NeverBack
=============================================================================
