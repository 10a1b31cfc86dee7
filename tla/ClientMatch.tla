---------------------------- MODULE ClientMatch ----------------------------
(***************************************************************************)
(* The client's side of one match: net/quic_client.cpp between MsQuic and  *)
(* the game, game/match/match_controller.cpp on top of it, and what the    *)
(* main loop of app/application_runtime.cpp makes of both.                 *)
(*                                                                         *)
(* Three threads meet in the QuicClient: the one that runs Connect, the    *)
(* ones MsQuic calls back on, and the main loop, which polls once a frame. *)
(* Each holds the mutex only for one call, so a frame is several steps.    *)
(* A snapshot stands for its server tick.                                  *)
(***************************************************************************)
EXTENDS Naturals, Sequences

CONSTANTS
  MaxTick,   (* The last server tick of the match.                         *)
  None       (* No MatchEnd.                                               *)

Tick == 0..MaxTick

ASSUME ClientMatchAssumption == MaxTick \in Nat /\ None \notin Tick

VARIABLES
  (* The server and the network. *)
  server,      (* What it has done for this client.                        *)
  tick,        (* Its room's tick.                                         *)
  stream,      (* What it has written to the stream and not arrived.       *)
  datagrams,   (* Snapshots on their way.                                  *)
  link,        (* The connection as MsQuic sees it.                        *)
  (* QuicClient. *)
  connecting,  (* Where Connect is, or what it has returned.               *)
  authenticated, datagramSendEnabled, connected, failed, error,
  matchStart,  (* Whether there is one to poll.                            *)
  snapshots,   (* The ones to poll, as they arrived.                       *)
  matchEnd,    (* The final snapshot of the one to poll, or None.          *)
  matchEnded,
  (* The main loop and the MatchController. *)
  screen,
  frame,       (* The call of PollNetwork that is next.                    *)
  started,     (* model_.started_                                          *)
  world,       (* model_.world_.serverTick                                 *)
  ended,       (* update.ended                                             *)
  shown,       (* The error text on the screen.                            *)
  due,         (* The MatchEnd was there when the frame began (history).   *)
  newest       (* The newest snapshot there was to poll (history).         *)

serverVars  == <<server, tick>>
networkVars == <<stream, datagrams, link>>
stateVars   == <<authenticated, datagramSendEnabled, connected, failed, error>>
inboxVars   == <<matchStart, snapshots, matchEnd, matchEnded>>
gameVars    == <<frame, started, world, ended, due, newest>>
screenVars  == <<screen, shown>>
vars == <<serverVars, networkVars, connecting, stateVars, inboxVars, gameVars,
          screenVars>>

Init ==
  /\ server = "auth" /\ tick = 0
  /\ stream = << >> /\ datagrams = {} /\ link = "none"
  /\ connecting = "open"
  /\ authenticated = FALSE /\ datagramSendEnabled = FALSE
  /\ connected = FALSE /\ failed = FALSE /\ error = ""
  /\ matchStart = FALSE /\ snapshots = << >>
  /\ matchEnd = None /\ matchEnded = FALSE
  /\ screen = "connecting" /\ shown = ""
  /\ frame = "start" /\ started = FALSE /\ world = 0 /\ ended = FALSE
  /\ due = FALSE /\ newest = 0

-----------------------------------------------------------------------------
(* The match server (see Rendezvous and Room) and the network.             *)

ServerStep(from, to, messages) ==
  /\ link = "up"
  /\ server = from /\ server' = to
  /\ stream' = stream \o messages
  /\ UNCHANGED <<datagrams, link, connecting, stateVars, inboxVars, gameVars,
                 screenVars>>

(* The match's clock starts after the MatchStart is written, so that       *)
(* carries the first snapshot; an error is the last thing written.         *)
Server ==
  \/ ServerStep("auth", "gone", <<"error", "fin">>) /\ UNCHANGED tick
  \/ ServerStep("auth", "playing", <<"ready", "matchStart">>) /\ UNCHANGED tick
  \/ ServerStep("playing", "ended", <<"matchEnd">>) /\ UNCHANGED tick
  \/ ServerStep("playing", "gone", <<"fin">>) /\ UNCHANGED tick

ServerTick ==
  /\ link = "up" /\ server = "playing" /\ tick < MaxTick
  /\ tick' = tick + 1
  /\ datagrams' = datagrams \cup {tick'}
  /\ UNCHANGED <<server, stream, link, connecting, stateVars, inboxVars, gameVars,
                 screenVars>>

LoseDatagram ==
  /\ \E t \in datagrams : datagrams' = datagrams \ {t}
  /\ UNCHANGED <<serverVars, stream, link, connecting, stateVars, inboxVars,
                 gameVars, screenVars>>

-----------------------------------------------------------------------------
(* What several callbacks do, each under the mutex.                        *)

SetError(message) ==
  /\ error' = IF error = "" THEN message ELSE error
  /\ failed' = TRUE /\ connected' = FALSE

(* Mutant: the last message wins. *)
ServerClosedOverwrites(message) ==
  /\ connected' = FALSE
  /\ IF matchEnded THEN UNCHANGED <<error, failed>>
                   ELSE failed' = TRUE /\ error' = message

(* Mutant: no message is left. *)
ServerClosedSilently(message) ==
  /\ connected' = FALSE
  /\ failed' = (failed \/ ~matchEnded)
  /\ UNCHANGED error

(* Mutant: nothing is expected of the server after the MatchStart. *)
ServerClosedOnceStarted(message) ==
  IF started THEN UNCHANGED <<connected, error, failed>>
             ELSE SetError(message)

ServerClosed(message) ==
  /\ connected' = FALSE
  /\ IF matchEnded
     THEN UNCHANGED <<error, failed>>
     ELSE /\ failed' = TRUE
          /\ error' = IF error = "" THEN message ELSE error

-----------------------------------------------------------------------------
(* Connect, in the thread of connectFuture.                                *)

ConnectStarts ==
  /\ connecting = "open" /\ connecting' = "wait"
  /\ link' = "handshake"
  /\ UNCHANGED <<serverVars, stream, datagrams, stateVars, inboxVars, gameVars,
                 screenVars>>

OpenFails ==
  /\ connecting = "open" /\ connecting' = "refused"
  /\ SetError("local")
  /\ UNCHANGED <<serverVars, networkVars, authenticated, datagramSendEnabled,
                 inboxVars, gameVars, screenVars>>

ConnectReturns ==
  /\ connecting = "wait"
  /\ connected \/ failed
  /\ connecting' = IF connected THEN "accepted" ELSE "refused"
  /\ UNCHANGED <<serverVars, networkVars, stateVars, inboxVars, gameVars,
                 screenVars>>

(* Five seconds have passed.                                               *)
ConnectTimesOut ==
  /\ connecting = "wait" /\ connecting' = "refused"
  /\ ~connected /\ ~failed
  /\ error' = "timeout" /\ failed' = TRUE
  /\ UNCHANGED <<serverVars, networkVars, authenticated, datagramSendEnabled,
                 connected, inboxVars, gameVars, screenVars>>

-----------------------------------------------------------------------------
(* The callbacks of MsQuic.                                                *)

UpdateConnected(ready, enabled) ==
  /\ authenticated' = ready /\ datagramSendEnabled' = enabled
  /\ connected' = (ready /\ enabled /\ ~failed)

(* The stream is opened and the authentication sent, or the connection is  *)
(* given up, as it is after the timeout of Connect.                        *)
OnConnected ==
  /\ link = "handshake"
  /\ \/ ~failed /\ link' = "up" /\ UNCHANGED stateVars
     \/ /\ link' = "closed"
        /\ SetError("local") /\ UNCHANGED <<authenticated, datagramSendEnabled>>
  /\ UNCHANGED <<serverVars, stream, datagrams, connecting, inboxVars, gameVars,
                 screenVars>>

OnDatagramState ==
  /\ link = "up"
  /\ UpdateConnected(authenticated, TRUE)
  /\ UNCHANGED <<serverVars, networkVars, connecting, failed, error, inboxVars,
                 gameVars, screenVars>>

(* One message off the stream.                                             *)
Arrives(message) ==
  /\ link = "up" /\ stream # << >> /\ Head(stream) = message
  /\ stream' = Tail(stream)
  /\ UNCHANGED <<serverVars, datagrams, link, connecting, gameVars, screenVars>>

ReceiveError ==
  /\ Arrives("error")
  /\ error' = "refusal" /\ failed' = TRUE
  /\ UNCHANGED <<authenticated, datagramSendEnabled, connected, inboxVars>>

ReceiveReady ==
  /\ Arrives("ready")
  /\ UpdateConnected(TRUE, datagramSendEnabled)
  /\ UNCHANGED <<failed, error, inboxVars>>

ReceiveMatchStart ==
  /\ Arrives("matchStart")
  /\ matchStart' = TRUE
  /\ UNCHANGED <<stateVars, snapshots, matchEnd, matchEnded>>

ReceiveMatchEnd ==
  /\ Arrives("matchEnd")
  /\ matchEnd' = tick /\ matchEnded' = TRUE
  /\ UNCHANGED <<stateVars, matchStart, snapshots>>

OnPeerSendShutdown ==
  /\ Arrives("fin")
  /\ ServerClosed("stream closed")
  /\ UNCHANGED <<authenticated, datagramSendEnabled, inboxVars>>

ReceiveDatagram ==
  /\ link = "up"
  /\ \E t \in datagrams :
       snapshots' = Append(snapshots, t) /\ datagrams' = datagrams \ {t}
  /\ UNCHANGED <<serverVars, stream, link, connecting, stateVars, matchStart,
                 matchEnd, matchEnded, gameVars, screenVars>>

(* The server closes the connection, some time after the MatchEnd, or the  *)
(* network has failed; what has not arrived is lost.                       *)
OnShutdownInitiated ==
  /\ \/ link = "up" /\ server = "ended" /\ ServerClosed("connection closed")
     \/ link \in {"handshake", "up"} /\ ServerClosed("transport")
  /\ link' = "closed" /\ stream' = << >> /\ datagrams' = {}
  /\ UNCHANGED <<serverVars, connecting, authenticated, datagramSendEnabled,
                 inboxVars, gameVars, screenVars>>

OnShutdownComplete ==
  /\ link = "closed" /\ link' = "complete"
  /\ connected' = FALSE
  /\ UNCHANGED <<serverVars, stream, datagrams, connecting, authenticated,
                 datagramSendEnabled, failed, error, inboxVars, gameVars,
                 screenVars>>

-----------------------------------------------------------------------------
(* The main loop.                                                          *)

ConnectPolled ==
  /\ screen = "connecting" /\ connecting \in {"accepted", "refused"}
  /\ IF connecting = "accepted"
     THEN screen' = "playing" /\ UNCHANGED shown
     ELSE screen' = "error" /\ shown' = error
  /\ UNCHANGED <<serverVars, networkVars, connecting, stateVars, inboxVars,
                 gameVars>>

FrameStep(from, to) ==
  /\ screen = "playing"
  /\ frame = from /\ frame' = to
  /\ UNCHANGED <<serverVars, networkVars, connecting, stateVars, matchEnded>>

Largest(S) == CHOOSE m \in S : \A n \in S : n <= m
NewestOf(s) == IF s = << >> THEN 0 ELSE Largest({s[i] : i \in DOMAIN s})

(* MatchController::ApplySnapshot.                                         *)
ApplySnapshot(snapshot) ==
  IF started' /\ snapshot < world THEN world ELSE snapshot

IsConnected == connected /\ ~failed

(* Mutant: nothing more is polled of a connection that is closed. *)
PollStartIfConnected ==
  /\ FrameStep("start", IF IsConnected THEN "snapshot" ELSE "check")
  /\ due' = (matchEnd # None)
  /\ started' = (started \/ matchStart) /\ matchStart' = FALSE
  /\ UNCHANGED <<world, snapshots, matchEnd, ended, newest, screenVars>>

PollStart ==
  /\ FrameStep("start", "snapshot")
  /\ due' = (matchEnd # None)
  /\ started' = (started \/ matchStart) /\ matchStart' = FALSE
  /\ world' = IF matchStart THEN ApplySnapshot(0) ELSE world
  /\ UNCHANGED <<snapshots, matchEnd, ended, newest, screenVars>>

(* The snapshot that arrived last is applied, the others are dropped.      *)
PollSnapshot ==
  /\ FrameStep("snapshot", "end")
  /\ started' = started
  /\ world' = IF snapshots = << >> THEN world
              ELSE ApplySnapshot(snapshots[Len(snapshots)])
  /\ newest' = Largest({newest, NewestOf(snapshots)})
  /\ snapshots' = << >>
  /\ UNCHANGED <<matchStart, matchEnd, ended, due, screenVars>>

PollEnd ==
  /\ FrameStep("end", "check")
  /\ started' = started
  /\ ended' = (matchEnd # None) /\ matchEnd' = None
  /\ world' = IF matchEnd = None THEN world ELSE ApplySnapshot(matchEnd)
  /\ UNCHANGED <<matchStart, snapshots, due, newest, screenVars>>

CheckConnected ==
  /\ FrameStep("check", "start")
  /\ screen' = IF ended THEN "result"
               ELSE IF IsConnected THEN "playing" ELSE "error"
  /\ shown' = IF screen' = "error" THEN error ELSE shown
  /\ UNCHANGED <<matchStart, snapshots, matchEnd, started, world, ended, due,
                 newest>>

(* The player asks for another match: Close shuts the connection down.     *)
Close ==
  /\ screen \in {"result", "error"} /\ screen' = "closing"
  /\ link' = IF link \in {"handshake", "up"} THEN "closed" ELSE link
  /\ stream' = << >> /\ datagrams' = {}
  /\ UNCHANGED <<serverVars, connecting, stateVars, inboxVars, gameVars, shown>>

(* It waits two seconds at most; closing the handle ends the callbacks.    *)
Closed ==
  /\ screen = "closing" /\ screen' = "closed"
  /\ link' = "none"
  /\ UNCHANGED <<serverVars, stream, datagrams, connecting, stateVars, inboxVars,
                 gameVars, shown>>

Connect   == ConnectStarts \/ OpenFails \/ ConnectReturns \/ ConnectTimesOut
Receive   == ReceiveError \/ ReceiveReady \/ ReceiveMatchStart \/ ReceiveMatchEnd
Callbacks == Receive \/ OnPeerSendShutdown \/ OnShutdownComplete
MainLoop  == ConnectPolled \/ PollStart \/ PollSnapshot \/ PollEnd \/ CheckConnected

Next ==
  \/ Server \/ ServerTick \/ LoseDatagram
  \/ Connect \/ OnConnected \/ OnDatagramState \/ ReceiveDatagram
  \/ OnShutdownInitiated \/ Callbacks
  \/ MainLoop \/ Close \/ Closed

(* The threads run, and what the server has written to a connection that   *)
(* stays up arrives; neither the server nor the network need do anything.  *)
Fairness == WF_vars(Connect) /\ WF_vars(Callbacks) /\ WF_vars(MainLoop)

Spec == Init /\ [][Next]_vars /\ Fairness

-----------------------------------------------------------------------------
(* Properties.                                                             *)

(* A MatchEnd that has arrived when a frame begins leads to the result,    *)
(* whatever has become of the connection since (match_controller.cpp:45).  *)
EndIsShown == screen = "error" => ~due

(* The player is told why, except in the frame in which the MatchEnd and   *)
(* the end of the connection arrive after the polling (quic_client.cpp:    *)
(* 408-418).                                                               *)
ErrorExplained == screen = "error" /\ shown = "" => matchEnded

(* What the server gave as its reason is never replaced by the close that  *)
(* follows it, nor by the timeout of Connect (quic_client.cpp:367-372).    *)
CauseKept == [][error = "refusal" => error' = "refusal"]_vars

(* From the MatchStart on the world never goes back to an older snapshot,  *)
(* be it that of a MatchStart overtaken by datagrams or a reordered one.   *)
NeverBack == [][started => world' >= world]_vars

(* Connect returns and, once the server has done with this client or the   *)
(* network has failed, the player is not left in the match.                *)
Over == link \in {"closed", "complete"} \/ server = "gone"
Settles ==
  /\ screen = "connecting" ~> screen # "connecting"
  /\ screen = "playing" /\ Over ~> screen # "playing"

(* network-protocol.md:71-73: the terminal match_end holds the final       *)
(* snapshot, the winner and the reason "независимо от lossy                *)
(* snapshot-канала" (regardless of the lossy channel): a client that is    *)
(* playing and has received it shows it.                                   *)
ReceivedEndIsShown ==
  screen = "error" /\ connecting = "accepted" => ~matchEnded

(* client-prediction.md:19: "Старые и переставленные datagrams             *)
(* игнорируются" (old and reordered datagrams are ignored): of the         *)
(* snapshots that have arrived, the newest is applied.                     *)
NewestIsApplied == started => world >= newest
=============================================================================
