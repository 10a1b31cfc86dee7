------------------------------ MODULE Session ------------------------------
(***************************************************************************)
(* The client's login session: auth/session_manager.cpp, the screens of    *)
(* app/application_runtime.cpp as far as they start and end a session, and *)
(* the rotation of refresh tokens in the auth service (auth/service.go,    *)
(* storage/postgres/postgres.go).                                          *)
(*                                                                         *)
(* The n-th pair of access and refresh token the service issues is the     *)
(* number n. Requests run in threads of their own (std::async) and outlive *)
(* the screen that began them; restoring, logging in and logging out are   *)
(* done one after the other, by the "screen" here. Every access to the     *)
(* session under its mutex, every call of the Gateway and every access to  *)
(* the secure storage is a step. The session copied at the start of an     *)
(* operation is "held".                                                    *)
(***************************************************************************)
EXTENDS Naturals

CONSTANTS
  Requests,   (* Threads that join or poll the queue or load the profile.  *)
  Nobody,     (* Holder of a free mutex.                                   *)
  MaxPairs    (* Bounds the token pairs issued.                            *)

ASSUME RequestsAssumption == Nobody \notin Requests /\ MaxPairs \in Nat

VARIABLES
  session,      (* SessionManager::session_; 0 for none.                   *)
  stored,       (* The refresh token in the secure storage; 0 for none.    *)
  refreshMutex, (* Holder of SessionManager::refreshMutex_.                *)
  pc,           (* Per request: where it is.                               *)
  held,         (* Per request: the session it began with.                 *)
  fresh,        (* Per request: the pair its refresh obtained.             *)
  screen,       (* Where the application is.                               *)
  mine,         (* The session or pair the screen's operation works with.  *)
  issued,       (* Pairs issued by the service.                            *)
  valid,        (* Pairs whose refresh token is in the service's store.    *)
  expired,      (* Pairs whose access token has expired.                   *)
  presented,    (* How often each refresh token was sent for rotation      *)
                (* since the client was started (history).                 *)
  trouble       (* What has happened: "network", "storage", "crash",       *)
                (* "logout" (history).                                     *)

serviceVars == <<issued, valid, expired>>
requestVars == <<pc, held, fresh, refreshMutex>>
screenVars  == <<screen, mine>>
vars == <<session, stored, requestVars, screenVars, serviceVars, presented,
          trouble>>

Pairs == 1..MaxPairs

Init ==
  /\ session = 0 /\ stored = 0
  /\ refreshMutex = Nobody
  /\ pc = [r \in Requests |-> "idle"]
  /\ held = [r \in Requests |-> 0]
  /\ fresh = [r \in Requests |-> 0]
  /\ screen = "start" /\ mine = 0
  /\ issued = 0 /\ valid = {} /\ expired = {}
  /\ presented = [n \in Pairs |-> 0]
  /\ trouble = {}

-----------------------------------------------------------------------------
(* The auth service.                                                       *)

(* Refresh of the pair n, with the pair the client gets to see, if any:    *)
(* the call may be lost before or after the service has rotated. The       *)
(* rotation deletes the old token and inserts the new one in a transaction. *)
Rotate(n, result) ==
  /\ presented' = [presented EXCEPT ![n] = @ + 1]
  /\ UNCHANGED expired
  /\ \/ /\ n \in valid /\ issued < MaxPairs
        /\ issued' = issued + 1
        /\ valid' = (valid \ {n}) \cup {issued + 1}
        /\ \/ result = issued + 1 /\ UNCHANGED trouble
           \/ result = 0 /\ trouble' = trouble \cup {"network"}
     \/ /\ n \notin valid /\ result = 0
        /\ UNCHANGED <<issued, valid, trouble>>
     \/ /\ result = 0
        /\ trouble' = trouble \cup {"network"}
        /\ UNCHANGED <<issued, valid>>

AccessExpires ==
  /\ \E n \in (1..issued) \ expired : expired' = expired \cup {n}
  /\ UNCHANGED <<session, stored, requestVars, screenVars, issued, valid,
                 presented, trouble>>

-----------------------------------------------------------------------------
(* The secure storage; a failure is only a warning to the user.            *)

Write(n) ==
  \/ stored' = n /\ UNCHANGED trouble
  \/ UNCHANGED stored /\ trouble' = trouble \cup {"storage"}

-----------------------------------------------------------------------------
(* JoinQueue, QueueStatus, LeaveQueue and Profile.                         *)

Goes(r, from, to) == pc[r] = from /\ pc' = [pc EXCEPT ![r] = to]

Begin(r) ==
  /\ screen = "ready"
  /\ session # 0
  /\ Goes(r, "idle", "call")
  /\ held' = [held EXCEPT ![r] = session]
  /\ UNCHANGED <<session, stored, fresh, refreshMutex, screenVars, serviceVars,
                 presented, trouble>>

(* Only a 401 leads on to the refresh.                                     *)
CallGateway(r) ==
  /\ Goes(r, "call", IF held[r] \in expired THEN "rejected" ELSE "idle")
  /\ UNCHANGED <<session, stored, held, fresh, refreshMutex, screenVars,
                 serviceVars, presented, trouble>>

-----------------------------------------------------------------------------
(* RefreshAfterUnauthorized.                                               *)

(* Mutant: refreshes are not serialized. *)
LockFree == TRUE
LockIsFree == refreshMutex = Nobody

Lock(r) ==
  /\ LockIsFree
  /\ refreshMutex' = r
  /\ Goes(r, "rejected", "locked")
  /\ UNCHANGED <<session, stored, held, fresh, screenVars, serviceVars,
                 presented, trouble>>

(* Mutant: whoever gets the lock refreshes. *)
StillRejectedAlways(r) == session # 0
(* The session is the one that was rejected: nobody refreshed it meanwhile. *)
StillRejected(r) == session = held[r]

Compare(r) ==
  /\ Goes(r, "locked", IF StillRejected(r) THEN "refresh" ELSE "recheck")
  /\ UNCHANGED <<session, stored, held, fresh, refreshMutex, screenVars,
                 serviceVars, presented, trouble>>

Refresh(r) ==
  /\ pc[r] = "refresh"
  /\ \E result \in 0..MaxPairs :
       /\ Rotate(held[r], result)
       /\ fresh' = [fresh EXCEPT ![r] = result]
       /\ Goes(r, "refresh", IF result = 0 THEN "failed" ELSE "refreshed")
  /\ UNCHANGED <<session, stored, held, refreshMutex, screenVars>>

CheckFailed(r) ==
  /\ Goes(r, "failed", IF session = held[r] THEN "clear" ELSE "recheck")
  /\ UNCHANGED <<session, stored, held, fresh, refreshMutex, screenVars,
                 serviceVars, presented, trouble>>

Clear(r) ==
  /\ Goes(r, "clear", "erase")
  /\ session' = 0
  /\ UNCHANGED <<stored, held, fresh, refreshMutex, screenVars, serviceVars,
                 presented, trouble>>

Erase(r) ==
  /\ Goes(r, "erase", "recheck")
  /\ Write(0)
  /\ UNCHANGED <<session, held, fresh, refreshMutex, screenVars, serviceVars,
                 presented>>

CheckRefreshed(r) ==
  /\ Goes(r, "refreshed", IF session = held[r] THEN "store" ELSE "recheck")
  /\ UNCHANGED <<session, stored, held, fresh, refreshMutex, screenVars,
                 serviceVars, presented, trouble>>

(* Mutant: a refreshed session is not stored. *)
StoreNothing(r) ==
  /\ Goes(r, "store", "set")
  /\ UNCHANGED <<session, stored, held, fresh, refreshMutex, screenVars,
                 serviceVars, presented, trouble>>

(* SetSession, first half.                                                 *)
Store(r) ==
  /\ Goes(r, "store", "set")
  /\ Write(fresh[r])
  /\ UNCHANGED <<session, held, fresh, refreshMutex, screenVars, serviceVars,
                 presented>>

Set(r) ==
  /\ Goes(r, "set", "recheck")
  /\ session' = fresh[r]
  /\ UNCHANGED <<stored, held, fresh, refreshMutex, screenVars, serviceVars,
                 presented, trouble>>

(* The end of RefreshAfterUnauthorized; the request is then repeated once, *)
(* if there is a session, with whatever that is, and ends either way.      *)
Recheck(r) ==
  /\ Goes(r, "recheck", "idle")
  /\ refreshMutex' = Nobody
  /\ held' = [held EXCEPT ![r] = 0]
  /\ fresh' = [fresh EXCEPT ![r] = 0]
  /\ UNCHANGED <<session, stored, screenVars, serviceVars, presented, trouble>>

Request(r) ==
  \/ Begin(r) \/ CallGateway(r) \/ Lock(r) \/ Compare(r) \/ Refresh(r)
  \/ CheckFailed(r) \/ Clear(r) \/ Erase(r)
  \/ CheckRefreshed(r) \/ Store(r) \/ Set(r) \/ Recheck(r)

-----------------------------------------------------------------------------
(* Restore, Login and Register, Logout: one at a time.                     *)

Shows(from, to) == screen = from /\ screen' = to

RestoreLoad ==
  /\ Shows("start", IF stored = 0 THEN "login" ELSE "restoring")
  /\ mine' = stored
  /\ UNCHANGED <<session, stored, requestVars, serviceVars, presented, trouble>>

(* The credential cannot be read: it stays for the next start.             *)
RestoreLoadFails ==
  /\ Shows("start", "login")
  /\ trouble' = trouble \cup {"storage"}
  /\ UNCHANGED <<session, stored, requestVars, mine, serviceVars, presented>>

RestoreRefresh ==
  /\ screen = "restoring"
  /\ \E result \in 0..MaxPairs :
       /\ Rotate(mine, result)
       /\ mine' = result
       /\ Shows("restoring", IF result = 0 THEN "forgetting" ELSE "storing")
  /\ UNCHANGED <<session, stored, requestVars>>

(* A saved session that could not be refreshed is removed.                 *)
RestoreErase ==
  /\ Shows("forgetting", "login")
  /\ Write(0)
  /\ UNCHANGED <<session, requestVars, mine, serviceVars, presented>>

(* Login and Register, when they succeed; a failure changes nothing.       *)
Login ==
  /\ issued < MaxPairs
  /\ Shows("login", "storing")
  /\ issued' = issued + 1
  /\ valid' = valid \cup {issued'}
  /\ mine' = issued'
  /\ UNCHANGED <<session, stored, requestVars, expired, presented, trouble>>

LoginStore ==
  /\ Shows("storing", "setting")
  /\ Write(mine)
  /\ UNCHANGED <<session, requestVars, mine, serviceVars, presented>>

LoginSet ==
  /\ Shows("setting", "ready")
  /\ session' = mine
  /\ UNCHANGED <<stored, requestVars, mine, serviceVars, presented, trouble>>

(* A request that found no session any more brings up the login screen.    *)
SessionExpired ==
  /\ Shows("ready", "login")
  /\ session = 0
  /\ UNCHANGED <<session, stored, requestVars, mine, serviceVars, presented,
                 trouble>>

LogoutCopy ==
  /\ Shows("ready", "clearing")
  /\ mine' = session
  /\ trouble' = trouble \cup {"logout"}
  /\ UNCHANGED <<session, stored, requestVars, serviceVars, presented>>

LogoutClear ==
  /\ Shows("clearing", IF mine = 0 THEN "erasing" ELSE "revoking")
  /\ session' = 0
  /\ UNCHANGED <<stored, requestVars, mine, serviceVars, presented, trouble>>

(* The call may be lost.                                                   *)
LogoutRevoke ==
  /\ Shows("revoking", "erasing")
  /\ valid' \in {valid, valid \ {mine}}
  /\ UNCHANGED <<session, stored, requestVars, mine, issued, expired, presented,
                 trouble>>

LogoutErase ==
  /\ Shows("erasing", "login")
  /\ Write(0)
  /\ UNCHANGED <<session, requestVars, mine, serviceVars, presented>>

Screen ==
  \/ RestoreLoad \/ RestoreLoadFails \/ RestoreRefresh \/ RestoreErase
  \/ Login \/ LoginStore \/ LoginSet \/ SessionExpired
  \/ LogoutCopy \/ LogoutClear \/ LogoutRevoke \/ LogoutErase

(* The client dies and is started again.                                   *)
Crash ==
  /\ session' = 0 /\ refreshMutex' = Nobody
  /\ pc' = [r \in Requests |-> "idle"]
  /\ held' = [r \in Requests |-> 0]
  /\ fresh' = [r \in Requests |-> 0]
  /\ screen' = "start" /\ mine' = 0
  /\ presented' = [n \in Pairs |-> 0]
  /\ trouble' = trouble \cup {"crash"}
  /\ UNCHANGED <<stored, serviceVars>>

Next ==
  \/ AccessExpires \/ Screen \/ Crash
  \/ \E r \in Requests : Request(r)

Spec == Init /\ [][Next]_vars

-----------------------------------------------------------------------------
(* Properties.                                                             *)

TypeOK ==
  /\ session \in 0..MaxPairs /\ stored \in 0..MaxPairs
  /\ mine \in 0..MaxPairs /\ issued \in 0..MaxPairs
  /\ refreshMutex \in Requests \cup {Nobody}
  /\ pc \in [Requests -> {"idle", "call", "rejected", "locked", "refresh",
                          "failed", "clear", "erase", "refreshed", "store",
                          "set", "recheck"}]
  /\ held \in [Requests -> 0..MaxPairs] /\ fresh \in [Requests -> 0..MaxPairs]
  /\ screen \in {"start", "restoring", "forgetting", "login", "storing",
                 "setting", "ready", "clearing", "revoking", "erasing"}
  /\ valid \subseteq 1..issued /\ expired \subseteq 1..issued
  /\ presented \in [Pairs -> Nat]
  /\ trouble \subseteq {"network", "storage", "crash", "logout"}

(* However many requests are rejected at once, a refresh token is sent for *)
(* rotation once per run of the client, so the service never sees a        *)
(* consumed one because of a race (session_manager.cpp:186).               *)
SingleUse == \A n \in Pairs : presented[n] <= 1

(* Expiring access tokens alone never cost the user the session: unless a  *)
(* call is lost, the client is restarted or the user logs out, a session,  *)
(* once there, stays, and between refreshes it can be refreshed again.     *)
StaysLoggedIn ==
  trouble \subseteq {"storage"} /\ screen = "ready" =>
    /\ session # 0
    /\ refreshMutex = Nobody => session \in valid

(* What a restart would restore is the session in use, or nothing, as long *)
(* as the user has not logged out and the storage works: lost calls and    *)
(* crashes never leave an older credential behind a newer session.         *)
NoStaleCredential ==
  /\ {"logout", "storage"} \cap trouble = {}
  /\ refreshMutex = Nobody /\ screen \in {"ready", "login"}
  => stored \in {0, session}

(* session_manager.cpp:70: "Local credentials must be removed even if the  *)
(* network call failed." After a logout none is left, unless the storage   *)
(* refuses.                                                                *)
LogoutRemoves ==
  /\ trouble = {"logout"}
  /\ screen = "login" /\ refreshMutex = Nobody
  => stored = 0

-----------------------------------------------------------------------------
(* The inductive invariant behind SingleUse.                               *)

Owning    == {"locked", "refresh", "failed", "clear", "erase", "refreshed",
              "store", "set", "recheck"}
Obtained  == {"refreshed", "store", "set"}
Presented == Obtained \cup {"failed", "clear"}

(* Whoever is between Lock and Recheck holds the mutex, and began with a   *)
(* session.                                                                *)
Owner ==
  /\ \A r \in Requests : pc[r] \in Owning => refreshMutex = r
  /\ \A r \in Requests : pc[r] # "idle" => held[r] # 0

(* Until the application has restored a session, there is none and nothing *)
(* runs.                                                                   *)
QuietStart ==
  /\ screen \in {"start", "restoring"} =>
       /\ session = 0
       /\ \A n \in Pairs : presented[n] = 0
       /\ \A r \in Requests : pc[r] = "idle"
  /\ screen = "restoring" => mine # 0

(* Only pairs that were issued are in anyone's hands.                      *)
Known ==
  /\ session \in 0..issued /\ stored \in 0..issued /\ mine \in 0..issued
  /\ \A r \in Requests : held[r] \in 0..issued /\ fresh[r] \in 0..issued
  /\ \A n \in Pairs : n > issued => presented[n] = 0

(* A token that was sent is the session's only until its sender is done,   *)
(* and the sender of a token that is about to be sent is the first.        *)
SentOnce ==
  /\ session # 0 /\ presented[session] > 0 =>
       \E r \in Requests : pc[r] \in Presented /\ held[r] = session
  /\ \A r \in Requests : pc[r] = "refresh" => presented[held[r]] = 0

(* A pair just obtained has not been sent, nor will be before it is set.   *)
NewPairs ==
  /\ \A r \in Requests : pc[r] \in Obtained =>
       fresh[r] # 0 /\ presented[fresh[r]] = 0
  /\ screen \in {"storing", "setting"} =>
       /\ mine # 0 /\ presented[mine] = 0
       /\ \A r \in Requests : held[r] # mine

IndInv == /\ TypeOK /\ SingleUse /\ Owner /\ QuietStart /\ Known /\ SentOnce
          /\ NewPairs

(* Without trouble nothing but a rotation touches the session, and a pair  *)
(* the service has accepted is on its way to replace it.                   *)
LoggedIn ==
  trouble \subseteq {"storage"} =>
    /\ screen \in {"start", "login", "storing", "setting", "ready"}
    /\ screen = "start" => stored = 0
    /\ screen # "ready" => \A r \in Requests : pc[r] = "idle"
    /\ screen \in {"storing", "setting"} => mine \in valid
    /\ screen = "ready" =>
         /\ session # 0
         /\ (\A r \in Requests : pc[r] \notin Obtained) => session \in valid
    /\ \A r \in Requests :
         /\ pc[r] \notin {"failed", "clear", "erase"}
         /\ pc[r] \in Obtained \cup {"refresh"} => held[r] = session
         /\ pc[r] \in Obtained => fresh[r] \in valid

(* Without logout and storage failures only the owner of the mutex changes *)
(* a session that is there, and what is stored is on its way to be the     *)
(* session or to be erased.                                                *)
Restorable ==
  {"logout", "storage"} \cap trouble = {} =>
    /\ screen \notin {"clearing", "revoking", "erasing"}
    /\ screen # "ready" => session = 0
    /\ \A r \in Requests :
         /\ pc[r] \in Presented \cup {"refresh"} => held[r] = session
         /\ pc[r] = "set" => stored = fresh[r]
    /\ screen = "login" => stored = 0 \/ \E r \in Requests : pc[r] = "erase"
    /\ screen = "setting" => stored \in {0, mine}
    /\ screen = "ready" => \/ stored \in {0, session}
                           \/ \E r \in Requests : pc[r] \in {"set", "erase"}
=============================================================================
