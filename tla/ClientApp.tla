----------------------------- MODULE ClientApp -----------------------------
(***************************************************************************)
(* The main loop of the client, app/application_runtime.cpp: its screens,  *)
(* the futures it starts and polls, and the objects these use, with the    *)
(* calls of auth/session_manager.cpp and api/gateway_client.cpp that they  *)
(* make and the Gateway's queue entries (see Matchmaking).                 *)
(*                                                                         *)
(* A call to the Gateway takes effect and returns, or fails before or      *)
(* after its effect. The refresh of a rejected token is module Session;    *)
(* here it succeeds unseen, or costs the session. The match itself is      *)
(* module ClientMatch, the settings screen module Settings.                *)
(***************************************************************************)
EXTENDS Naturals, FiniteSets, ClientLoop

CONSTANT
  Accounts     (* The accounts the player logs in to.                      *)

ASSUME ClientAppAssumption ==
  /\ Accounts \cap {None, "running", "failed", "nothing"} = {}
  /\ None \notin {"running", "failed", "none", "waiting", "matched"}

(* QuicClient objects: three are enough for every new one to differ from   *)
(* those something still refers to.                                        *)
Objects == 1..3

VARIABLES
  session,        (* The account of the loop's own copy.                   *)
  current,        (* The account of the SessionManager's session.          *)
  queueCall,      (* The call the thread of queueFuture is at.             *)
  profileOf,      (* The account profileFuture has asked for.              *)
  resetRequired,  (* MatchmakingCleanup.                                   *)
  requestReset,   (* queueRequestReset                                     *)
  profile,        (* Whose profile is shown.                               *)
  entry           (* The Gateway, per account: "none", "waiting" or        *)
                  (* "matched".                                            *)

queueVars   == <<queueCall, queueOf, requestReset>>
objectVars  == <<network, borrowed, controller>>
profileVars == <<profileOf, profile>>
gatewayVars == <<entry, accepted>>
sessionVars == <<session, current>>
vars == <<screen, sessionVars, future, queueVars, profileVars, objectVars,
          resetRequired, gatewayVars>>

Futures == {"restore", "auth", "queue", "connect", "profile", "logout"}
NoFuture == [f \in Futures |-> None]

Init ==
  /\ screen = "Restoring"
  /\ session = None /\ current = None
  /\ future = [NoFuture EXCEPT !["restore"] = "running"]
  /\ queueCall = "none" /\ queueOf = None /\ requestReset = FALSE
  /\ profileOf = None /\ profile = None
  /\ network = None /\ borrowed = None /\ controller = None
  /\ resetRequired = FALSE
  /\ entry = [a \in Accounts |-> "none"] /\ accepted = {}

Begins(f) == future' = [future EXCEPT ![f] = "running"]
Ends(f, result) ==
  /\ future[f] = "running"
  /\ future' = [future EXCEPT ![f] = result]
Ready(f) == future[f] \notin {None, "running"}
Take(f) == Ready(f) /\ future' = [future EXCEPT ![f] = None]

-----------------------------------------------------------------------------
(* The Gateway.                                                            *)

(* Another player joins.                                                   *)
Pair ==
  /\ \E a \in Accounts :
       /\ entry[a] = "waiting" /\ entry' = [entry EXCEPT ![a] = "matched"]
       /\ accepted' = accepted \ {a}
  /\ UNCHANGED <<screen, sessionVars, future, queueVars, profileVars, objectVars,
                 resetRequired>>

Expire ==
  /\ \E a \in Accounts :
       entry[a] # "none" /\ entry' = [entry EXCEPT ![a] = "none"]
  /\ UNCHANGED <<screen, sessionVars, future, queueVars, profileVars, objectVars,
                 resetRequired, accepted>>

-----------------------------------------------------------------------------
(* The threads behind the futures.                                         *)

ThreadKeeps == UNCHANGED <<screen, session, requestReset, profile, objectVars,
                           resetRequired>>

RestoreEnds ==
  /\ \/ \E a \in Accounts : current' = a /\ Ends("restore", a)
     \/ UNCHANGED current /\ \E r \in {"nothing", "failed"} : Ends("restore", r)
  /\ ThreadKeeps /\ UNCHANGED <<queueCall, queueOf, profileOf, gatewayVars>>

(* Login or Register.                                                      *)
AuthEnds ==
  /\ \/ \E a \in Accounts : current' = a /\ Ends("auth", a)
     \/ UNCHANGED current /\ Ends("auth", "failed")
  /\ ThreadKeeps /\ UNCHANGED <<queueCall, queueOf, profileOf, gatewayVars>>

(* SessionManager::Logout forgets the session, whatever the call returns.  *)
LogoutEnds ==
  /\ current' = None
  /\ \E r \in {"ok", "failed"} : Ends("logout", r)
  /\ ThreadKeeps /\ UNCHANGED <<queueCall, queueOf, profileOf, gatewayVars>>

(* A call for account a fails: the request or its answer was lost, or the  *)
(* session was rejected and could not be refreshed.                        *)
SessionAfterFailure(a) == {current, IF current = a THEN None ELSE current}

QueueFails ==
  /\ queueCall # "none" /\ queueCall' = "none"
  /\ Ends("queue", "failed")
  /\ current' \in SessionAfterFailure(current)
  /\ ThreadKeeps /\ UNCHANGED <<queueOf, profileOf>>

LeaveCall ==
  /\ queueCall = "leave" /\ current # None
  /\ entry' = [entry EXCEPT ![current] = "none"] /\ UNCHANGED accepted
  /\ \/ queueCall' = "join" /\ UNCHANGED <<current, future, queueOf>> /\ ThreadKeeps
                            /\ UNCHANGED profileOf
     \/ QueueFails

(* What Join answers, and leaves as the entry: the one there is, or that   *)
(* of a new match if an opponent is waiting.                               *)
Joined(e) == IF e = "none" THEN {"waiting", "matched"} ELSE {e}

JoinCall ==
  /\ queueCall = "join" /\ current # None
  /\ \E e \in Joined(entry[current]) : entry' = [entry EXCEPT ![current] = e]
  /\ accepted' = IF entry[current] = "none" THEN accepted \ {current} ELSE accepted
  /\ \/ /\ queueCall' = "none" /\ queueOf' = current
        /\ Ends("queue", entry'[current])
        /\ ThreadKeeps /\ UNCHANGED <<current, profileOf>>
     \/ QueueFails

StatusCall ==
  /\ queueCall = "status" /\ current # None
  /\ queueCall' = "none" /\ queueOf' = current
  /\ Ends("queue", entry[current])
  /\ ThreadKeeps /\ UNCHANGED <<current, profileOf, gatewayVars>>

(* Nothing has reached the Gateway.                                        *)
QueueCallFails == QueueFails /\ UNCHANGED gatewayVars

ConnectEnds ==
  /\ \E r \in {"ok", "failed"} : Ends("connect", r)
  /\ ThreadKeeps /\ UNCHANGED <<current, queueCall, queueOf, profileOf, gatewayVars>>

(* SessionManager::Profile copies the session, then asks.                  *)
ProfileAsks ==
  /\ future["profile"] = "running" /\ profileOf = None
  /\ IF current = None THEN Ends("profile", "failed") /\ UNCHANGED profileOf
                       ELSE profileOf' = current /\ UNCHANGED future
  /\ ThreadKeeps /\ UNCHANGED <<current, queueCall, queueOf, gatewayVars>>

ProfileEnds ==
  /\ profileOf # None /\ profileOf' = None
  /\ \/ Ends("profile", profileOf) /\ UNCHANGED current
     \/ Ends("profile", "failed") /\ current' \in SessionAfterFailure(profileOf)
  /\ ThreadKeeps /\ UNCHANGED <<queueCall, queueOf, gatewayVars>>

-----------------------------------------------------------------------------
(* The loop polls its futures.                                             *)

LoopKeeps == UNCHANGED <<current, profileOf, entry>>

RestorePolled ==
  /\ screen = "Restoring" /\ Take("restore")
  /\ IF future["restore"] \in Accounts /\ current # None
     THEN session' = current /\ screen' = "Ready"
     ELSE session' = session /\ screen' = "Login"
  /\ LoopKeeps /\ UNCHANGED <<queueVars, profile, objectVars, resetRequired,
                              accepted>>

AuthPolled ==
  /\ screen = "AuthPending" /\ Take("auth")
  /\ IF future["auth"] = "failed"
     THEN screen' = "Login" /\ UNCHANGED session
     ELSE screen' = "Ready" /\ session' = future["auth"]
  /\ LoopKeeps /\ UNCHANGED <<queueVars, profile, objectVars, resetRequired,
                              accepted>>

LogoutPolled ==
  /\ screen = "LogoutPending" /\ Take("logout")
  /\ screen' = "Login" /\ session' = None /\ profile' = None
  /\ LoopKeeps /\ UNCHANGED <<queueVars, objectVars, resetRequired, accepted>>

ProfilePolled ==
  /\ screen = "Profile" /\ Take("profile")
  /\ IF future["profile"] \in Accounts
     THEN profile' = future["profile"] /\ UNCHANGED <<screen, session>>
     ELSE IF current = None
     THEN profile' = None /\ screen' = "Login" /\ session' = None
     ELSE UNCHANGED <<profile, screen, session>>
  /\ LoopKeeps /\ UNCHANGED <<queueVars, objectVars, resetRequired, accepted>>

(* Mutant: a failed request is left to the next poll. *)
QueueFailedLeft ==
  /\ future["queue"] = "failed"
  /\ UNCHANGED <<screen, session, resetRequired, network, borrowed, accepted>>

(* handleQueueResult: the call failed.                                     *)
QueueFailed ==
  /\ future["queue"] = "failed"
  /\ IF current = None THEN screen' = "Login" /\ session' = None
                       ELSE screen' = "Error" /\ UNCHANGED session
  /\ UNCHANGED <<resetRequired, network, borrowed, accepted>>

NewObject == CHOOSE o \in Objects : o \notin {network, borrowed, controller}

(* Mutant: the cleanup flag is cleared after the result is handled. *)
QueueMatchedBeforeReset ==
  /\ future["queue"] = "matched"
  /\ resetRequired' = ~requestReset
  /\ accepted' = accepted \cup {queueOf}
  /\ \/ /\ network' = NewObject /\ borrowed' = NewObject
        /\ screen' = "ConnectPending"
     \/ UNCHANGED <<network, borrowed>> /\ screen' = "Error"

(* It names a match: Connect begins, unless the address is malformed. The  *)
(* MatchAccepted of this result comes after its QueueResetSucceeded.       *)
QueueMatched ==
  /\ future["queue"] = "matched"
  /\ resetRequired' = TRUE
  /\ accepted' = accepted \cup {queueOf}
  /\ \/ /\ network' = NewObject /\ borrowed' = NewObject
        /\ screen' = "ConnectPending"
     \/ UNCHANGED <<network, borrowed>> /\ screen' = "Error"

QueuePolled ==
  /\ screen = "QueuePending" /\ Ready("queue")
  /\ future' = [future EXCEPT
       !["queue"] = None,
       !["connect"] = IF screen' = "ConnectPending" THEN "running" ELSE @]
  /\ requestReset' = FALSE
  /\ LoopKeeps /\ UNCHANGED <<queueCall, queueOf, profile, controller>>

(* QueueResetSucceeded comes before what the result itself asks for. The   *)
(* flag it clears is the process's: other accounts' matches are forgotten. *)
QueueSettled ==
  /\ future["queue"] \in {"none", "waiting"}
  /\ resetRequired' = (resetRequired /\ ~requestReset)
  /\ accepted' = IF requestReset THEN accepted \cap {queueOf} ELSE accepted
  /\ screen' = IF future["queue"] = "waiting" THEN "Waiting" ELSE "Ready"
  /\ UNCHANGED <<network, borrowed>>

QueueResult ==
  \/ QueueFailed /\ QueuePolled
  \/ QueueMatched /\ UNCHANGED session /\ QueuePolled
  \/ QueueSettled /\ UNCHANGED session /\ QueuePolled

ConnectPolled ==
  /\ screen = "ConnectPending" /\ Take("connect")
  /\ borrowed' = None
  /\ IF future["connect"] = "ok"
     THEN screen' = "Playing" /\ controller' = network
     ELSE screen' = "Error" /\ UNCHANGED controller
  /\ LoopKeeps /\ UNCHANGED <<session, queueVars, profile, network, resetRequired,
                              accepted>>

(* MatchEnded, or ConnectionFailed.                                        *)
MatchOver ==
  /\ screen = "Playing"
  /\ \/ screen' = "Result" /\ resetRequired' = TRUE
     \/ screen' = "Error" /\ UNCHANGED resetRequired
  /\ LoopKeeps /\ UNCHANGED <<session, future, queueVars, profile, objectVars,
                              accepted>>

-----------------------------------------------------------------------------
(* What the player does, and the poll of the waiting screen.               *)

DrawLogin(enabled) == IF enabled THEN {"Login"} ELSE {}
DrawResult  == {"BackToMenu", "FindAnother"}
DrawProfile == {"Back"}

(* Mutant: a pending request may be left as well. *)
DrawMainMenuBack(ready, error) ==
  IF ready THEN {"FindMatch", "Profile", "Logout"} ELSE {"Back"}

DrawMainMenu(ready, error) ==
  CASE ready -> {"FindMatch", "Profile", "Logout"}
    [] error -> {"Back"}
    [] OTHER -> {}

(* The buttons there are.                                                  *)
Buttons ==
  CASE screen \in {"Login", "AuthPending"} -> DrawLogin(screen = "Login")
    [] screen = "Playing" -> {}
    [] screen = "Result"  -> DrawResult
    [] screen = "Profile" -> DrawProfile
    [] OTHER -> DrawMainMenu(screen = "Ready", screen = "Error")

GoesTo(to) ==
  /\ screen' = to
  /\ LoopKeeps /\ UNCHANGED <<session, resetRequired, accepted>>

Press(button, to) == button \in Buttons /\ GoesTo(to)

LoginPressed ==
  /\ Press("Login", "AuthPending") /\ Begins("auth")
  /\ UNCHANGED <<queueVars, profile, objectVars>>

LogoutPressed ==
  /\ Press("Logout", "LogoutPending") /\ Begins("logout")
  /\ UNCHANGED <<queueVars, profile, objectVars>>

(* Mutant: only the transport is released. *)
ReleaseNetworkOnly == network' = None /\ UNCHANGED <<borrowed, controller>>

(* The controller refers to the transport.                                 *)
Release == network' = None /\ controller' = None /\ UNCHANGED borrowed

(* beginQueueRequest(true), also from the result screen.                   *)
FindMatch ==
  /\ \E b \in {"FindMatch", "FindAnother"} : Press(b, "QueuePending")
  /\ Begins("queue")
  /\ requestReset' = resetRequired
  /\ queueCall' = IF resetRequired THEN "leave" ELSE "join"
  /\ Release
  /\ UNCHANGED <<queueOf, profile>>

(* beginQueueRequest(false).                                               *)
WaitingPoll ==
  /\ screen = "Waiting" /\ GoesTo("QueuePending") /\ Begins("queue")
  /\ requestReset' = FALSE /\ queueCall' = "status"
  /\ UNCHANGED <<queueOf, profile, objectVars>>

ProfilePressed ==
  /\ Press("Profile", "Profile")
  /\ IF future["profile"] = None THEN Begins("profile") /\ profile' = None
                                 ELSE UNCHANGED <<future, profile>>
  /\ UNCHANGED <<queueVars, objectVars>>

Back ==
  /\ \/ Press("Back", IF screen = "Error" /\ session = None THEN "Login" ELSE "Ready")
     \/ Press("BackToMenu", "Ready")
  /\ UNCHANGED <<future, queueVars, profile, objectVars>>

(* The window is closed or the client is killed, and it starts again.      *)
Restart ==
  /\ screen' = "Restoring" /\ session' = None /\ current' = None
  /\ future' = [NoFuture EXCEPT !["restore"] = "running"]
  /\ queueCall' = "none" /\ queueOf' = None /\ requestReset' = FALSE
  /\ profileOf' = None /\ profile' = None
  /\ network' = None /\ borrowed' = None /\ controller' = None
  /\ resetRequired' = FALSE /\ accepted' = {}
  /\ UNCHANGED entry

Gateway == Pair \/ Expire
Threads == RestoreEnds \/ AuthEnds \/ LogoutEnds \/ ConnectEnds
QueueThread == LeaveCall \/ JoinCall \/ StatusCall \/ QueueCallFails
ProfileThread == ProfileAsks \/ ProfileEnds
Polls == RestorePolled \/ AuthPolled \/ LogoutPolled \/ QueueResult \/ ConnectPolled
Player == \/ LoginPressed \/ LogoutPressed \/ FindMatch \/ ProfilePressed
          \/ Back \/ WaitingPoll

Next == \/ Gateway \/ Threads \/ QueueThread \/ ProfileThread
        \/ Polls \/ ProfilePolled \/ MatchOver \/ Player \/ Restart

(* Every call of a thread returns, by its timeout if not before, and the   *)
(* loop goes on; the player need not do anything.                          *)
Fairness == WF_vars(Threads) /\ WF_vars(QueueThread) /\ WF_vars(Polls)

Spec == Init /\ [][Next]_vars /\ Fairness

-----------------------------------------------------------------------------
(* Properties.                                                             *)

(* Every pending screen is left, whatever fails, unless the client is      *)
(* restarted for ever.                                                     *)
Pending == {"Restoring", "AuthPending", "QueuePending", "ConnectPending",
            "LogoutPending"}
PendingIsLeft ==
  <>[][~Restart]_vars => \A s \in Pending : screen = s ~> screen # s

(* auth.md:10-11: the profile endpoint "возвращает публичные данные        *)
(* текущего пользователя" (returns the data of the current user): the      *)
(* profile screen never shows another one's.                               *)
ProfileIsOwn == screen = "Profile" => profile \in {None, session}

-----------------------------------------------------------------------------
(* What the properties rest on, proved in PairingProofs.                   *)

Screens == Pending \cup {"Login", "Ready", "Waiting", "Playing", "Result",
                         "Error", "Profile"}

TypeOK ==
  /\ screen \in Screens
  /\ session \in Accounts \cup {None} /\ current \in Accounts \cup {None}
  /\ future \in [Futures -> Accounts \cup {None, "running", "failed", "nothing",
                                           "ok", "none", "waiting", "matched"}]
  /\ future["auth"] \in Accounts \cup {None, "running", "failed"}
  /\ queueCall \in {"none", "leave", "join", "status"}
  /\ queueOf \in Accounts \cup {None} /\ profileOf \in Accounts \cup {None}
  /\ profile \in Accounts \cup {None}
  /\ entry \in [Accounts -> {"none", "waiting", "matched"}]
  /\ accepted \subseteq Accounts
  /\ {network, borrowed, controller} \subseteq Objects \cup {None}
  /\ {requestReset, resetRequired} \subseteq BOOLEAN

(* A future that a screen waits for outlives neither the screen nor its    *)
(* poll; that of the profile outlives both.                                *)
PolledOn == [restore |-> "Restoring", auth |-> "AuthPending",
             queue |-> "QueuePending", connect |-> "ConnectPending",
             logout |-> "LogoutPending"]
OwnScreen ==
  /\ \A f \in DOMAIN PolledOn : future[f] # None => screen = PolledOn[f]
  /\ queueCall # "none" => future["queue"] = "running"

(* The transport is made when a match is found; until it has connected the *)
(* thread alone uses it.                                                   *)
Owned ==
  /\ screen \in {"QueuePending", "Waiting"} => network = None
  /\ screen = "ConnectPending" => network # None /\ borrowed = network
  /\ screen # "ConnectPending" => borrowed = None
  /\ screen \in {"QueuePending", "Waiting", "ConnectPending"} => controller = None
  /\ controller # None => controller = network

(* The SessionManager's session is that of the loop, or of the call that   *)
(* is about to tell the loop, or lost.                                     *)
OneSession ==
  /\ screen = "Login" => current = None
  /\ screen = "Restoring" => current \in {None, future["restore"]}
  /\ screen = "AuthPending" => current \in {None, future["auth"]}
  /\ screen \notin {"Login", "Restoring", "AuthPending"} => current \in {None, session}
  /\ future["queue"] \in {"none", "waiting", "matched"} =>
       queueOf = session /\ session # None
  /\ Ready("logout") => current = None

(* An accepted match that its account's entry still names is one the       *)
(* cleanup knows of; the request that is to clear it has done so once it   *)
(* is past the leave call and has not failed.                              *)
Accepted(a) == a \in accepted /\ entry[a] = "matched"
Cleaned ==
  /\ ~resetRequired => \A a \in Accounts : ~Accepted(a)
  /\ screen = "Waiting" => ~resetRequired
  /\ screen = "QueuePending" =>
       /\ requestReset = resetRequired
       /\ queueCall # "leave" /\ future["queue"] # "failed" /\ session # None =>
            ~Accepted(session)
       /\ NoStaleMatch

IndInv == OwnScreen /\ Owned /\ OneSession /\ Cleaned
=============================================================================
