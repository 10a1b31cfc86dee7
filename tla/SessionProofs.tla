--------------------------- MODULE SessionProofs ---------------------------
(***************************************************************************)
(* The login session for any set of requests: whatever is rejected, lost,  *)
(* logged out or restarted, no refresh token is sent for rotation twice.   *)
(***************************************************************************)
EXTENDS Session, TLAPS

(* Before the session is restored the invariant holds.                     *)
LEMMA InitInv == Init => IndInv
<1> SUFFICES ASSUME Init PROVE IndInv OBVIOUS
<1> USE RequestsAssumption DEF Init
<1>1. TypeOK BY DEF TypeOK, Pairs
<1>2. SingleUse BY DEF SingleUse
<1>3. Owner /\ QuietStart BY DEF Owner, QuietStart, Owning
<1>4. Known BY DEF Known
<1>5. SentOnce /\ NewPairs BY DEF SentOnce, NewPairs, Obtained
<1> QED BY <1>1, <1>2, <1>3, <1>4, <1>5 DEF IndInv

(* What the storage is given stays in its type.                            *)
LEMMA WriteFacts ==
  ASSUME IndInv, NEW n \in 0..MaxPairs, Write(n)
  PROVE  /\ stored' \in {n, stored} /\ stored' \in 0..MaxPairs
         /\ trouble' \subseteq {"network", "storage", "crash", "logout"}
<1>1. trouble \subseteq {"network", "storage", "crash", "logout"}
  BY DEF IndInv, TypeOK
<1>2. trouble' \subseteq {"network", "storage", "crash", "logout"}
  BY <1>1 DEF Write
<1> QED BY <1>2 DEF Write, IndInv, TypeOK

(* The steps of a request that neither present a token nor change the      *)
(* session, the storage or what anyone holds: only where it is.            *)
LEMMA WalkKeeps ==
  ASSUME IndInv, NEW r \in Requests,
         CallGateway(r) \/ Compare(r) \/ CheckFailed(r) \/ CheckRefreshed(r)
  PROVE  IndInv'
<1> USE RequestsAssumption DEF IndInv, CallGateway, Compare, CheckFailed, CheckRefreshed, Goes,
        StillRejected, screenVars, serviceVars
<1>1. TypeOK' BY DEF TypeOK
<1>2. SingleUse' BY DEF SingleUse
<1>3. Owner' BY DEF Owner, Owning, TypeOK
<1>4. QuietStart' BY DEF QuietStart, TypeOK
<1>5. Known' BY DEF Known
<1>6. SentOnce'
  <2>1. CASE CallGateway(r)
    BY <2>1 DEF SentOnce, Presented, Obtained, TypeOK
  <2>2. CASE Compare(r)
    <3>1. pc[r] = "locked" /\ held[r] # 0 BY <2>2 DEF Owner
    <3>2. session # 0 /\ presented[session] > 0 => session # held[r]
      BY <3>1 DEF SentOnce, Owner, Owning, Presented, Obtained
    <3>3. session = held[r] => presented[held[r]] = 0
      BY <3>1, <3>2 DEF TypeOK, Pairs
    <3>4. pc' = [pc EXCEPT ![r] = IF session = held[r] THEN "refresh"
                                                       ELSE "recheck"]
      BY <2>2
    <3>5. pc[r] \notin Presented BY <3>1 DEF Presented, Obtained
    <3> QED BY <2>2, <3>3, <3>4, <3>5 DEF SentOnce, TypeOK
  <2>3. CASE CheckFailed(r)
    BY <2>3 DEF SentOnce, Presented, Obtained, TypeOK
  <2>4. CASE CheckRefreshed(r)
    BY <2>4 DEF SentOnce, Presented, Obtained, TypeOK
  <2> QED BY <2>1, <2>2, <2>3, <2>4
<1>7. NewPairs' BY DEF NewPairs, Obtained, TypeOK
<1> QED BY <1>1, <1>2, <1>3, <1>4, <1>5, <1>6, <1>7

(* A request begins with the session.                                      *)
LEMMA BeginKeeps ==
  ASSUME IndInv, NEW r \in Requests, Begin(r)
  PROVE  IndInv'
<1> USE DEF IndInv, Begin, Goes, screenVars, serviceVars
<1>1. TypeOK' BY DEF TypeOK
<1>2. SingleUse' BY DEF SingleUse
<1>3. Owner' BY DEF Owner, Owning, TypeOK
<1>4. QuietStart' BY DEF QuietStart
<1>5. Known' BY DEF Known, TypeOK
<1>6. SentOnce' BY DEF SentOnce, Presented, Obtained, TypeOK
<1>7. NewPairs' BY DEF NewPairs, Obtained, TypeOK
<1> QED BY <1>1, <1>2, <1>3, <1>4, <1>5, <1>6, <1>7

(* A request gets the mutex.                                               *)
LEMMA LockKeeps ==
  ASSUME IndInv, NEW r \in Requests, Lock(r)
  PROVE  IndInv'
<1> USE RequestsAssumption DEF IndInv, Lock, LockIsFree, Goes, screenVars, serviceVars
<1>1. TypeOK' BY DEF TypeOK
<1>2. SingleUse' BY DEF SingleUse
<1>3. Owner' BY DEF Owner, Owning, TypeOK
<1>4. QuietStart' BY DEF QuietStart
<1>5. Known' BY DEF Known
<1>6. SentOnce' BY DEF SentOnce, Presented, Obtained, TypeOK
<1>7. NewPairs' BY DEF NewPairs, Obtained, TypeOK
<1> QED BY <1>1, <1>2, <1>3, <1>4, <1>5, <1>6, <1>7

(* A request gives the mutex back.                                         *)
LEMMA RecheckKeeps ==
  ASSUME IndInv, NEW r \in Requests, Recheck(r)
  PROVE  IndInv'
<1> USE RequestsAssumption DEF IndInv, Recheck, Goes, screenVars, serviceVars
<1>1. TypeOK' BY DEF TypeOK
<1>2. SingleUse' BY DEF SingleUse
<1>3. Owner' BY DEF Owner, Owning, TypeOK
<1>4. QuietStart' BY DEF QuietStart, TypeOK
<1>5. Known' BY DEF Known, TypeOK
<1>6. SentOnce' BY DEF SentOnce, Presented, Obtained, TypeOK
<1>7. NewPairs' BY DEF NewPairs, Obtained, TypeOK
<1> QED BY <1>1, <1>2, <1>3, <1>4, <1>5, <1>6, <1>7

(* What a rotation does for whoever presents a pair for the first time.    *)
LEMMA RotateFacts ==
  ASSUME IndInv, NEW n \in 1..issued, NEW result \in 0..MaxPairs,
         presented[n] = 0, Rotate(n, result)
  PROVE  /\ n \in Pairs
         /\ presented' = [presented EXCEPT ![n] = 1]
         /\ presented' \in [Pairs -> Nat] /\ SingleUse'
         /\ issued' \in {issued, issued + 1} /\ issued' \in 0..MaxPairs
         /\ valid' \subseteq 1..issued' /\ expired' \subseteq 1..issued'
         /\ trouble' \subseteq {"network", "storage", "crash", "logout"}
         /\ result \in {0, issued'} /\ (result # 0 => issued' = issued + 1)
         /\ \A m \in Pairs : m > issued' => presented'[m] = 0
<1> USE RequestsAssumption DEF IndInv, TypeOK, Rotate, Pairs
<1>1. n \in Pairs OBVIOUS
<1>2. presented' = [presented EXCEPT ![n] = 1] BY <1>1
<1>3. presented' \in [Pairs -> Nat] /\ SingleUse'
  BY <1>1, <1>2 DEF SingleUse
<1>4. /\ issued' \in {issued, issued + 1} /\ issued' \in 0..MaxPairs
      /\ result \in {0, issued'} /\ (result # 0 => issued' = issued + 1)
  OBVIOUS
<1>5. valid' \subseteq 1..issued' /\ expired' \subseteq 1..issued'
  <2>1. 1..issued \subseteq 1..issued' BY <1>4
  <2>2. CASE issued' = issued + 1 /\ valid' = (valid \ {n}) \cup {issued + 1}
    BY <2>1, <2>2
  <2>3. CASE UNCHANGED <<issued, valid>> BY <2>1, <2>3
  <2> QED BY <2>1, <2>2, <2>3
<1>6. trouble' \subseteq {"network", "storage", "crash", "logout"} OBVIOUS
<1>7. \A m \in Pairs : m > issued' => presented'[m] = 0
  BY <1>2, <1>4 DEF Known
<1> QED BY <1>1, <1>2, <1>3, <1>4, <1>5, <1>6, <1>7

(* A request presents its token.                                           *)
LEMMA RefreshKeeps ==
  ASSUME IndInv, NEW r \in Requests, Refresh(r)
  PROVE  IndInv'
<1>1. PICK result \in 0..MaxPairs :
        /\ Rotate(held[r], result)
        /\ fresh' = [fresh EXCEPT ![r] = result]
        /\ Goes(r, "refresh", IF result = 0 THEN "failed" ELSE "refreshed")
  BY DEF Refresh
<1>2. /\ pc[r] = "refresh" /\ refreshMutex = r
      /\ UNCHANGED <<session, stored, held, refreshMutex, screen, mine>>
      /\ pc' = [pc EXCEPT ![r] = IF result = 0 THEN "failed" ELSE "refreshed"]
  BY <1>1 DEF Refresh, screenVars, Goes, IndInv, Owner, Owning
<1>3. held[r] \in 1..issued /\ presented[held[r]] = 0
  BY <1>2 DEF IndInv, Owner, Known, SentOnce, TypeOK
<1> DEFINE n == held[r]
<1>4. /\ n \in Pairs
      /\ presented' = [presented EXCEPT ![n] = 1]
      /\ presented' \in [Pairs -> Nat] /\ SingleUse'
      /\ issued' \in {issued, issued + 1} /\ issued' \in 0..MaxPairs
      /\ valid' \subseteq 1..issued' /\ expired' \subseteq 1..issued'
      /\ trouble' \subseteq {"network", "storage", "crash", "logout"}
      /\ result \in {0, issued'} /\ (result # 0 => issued' = issued + 1)
      /\ \A m \in Pairs : m > issued' => presented'[m] = 0
  BY <1>1, <1>3, RotateFacts
<1>5. issued \in 0..MaxPairs /\ MaxPairs \in Nat
  BY RequestsAssumption DEF IndInv, TypeOK
<1> USE <1>1, <1>2, <1>4, <1>5 DEF IndInv
<1>6. TypeOK' BY DEF TypeOK
<1>7. Owner' BY DEF Owner, Owning, TypeOK
<1>8. QuietStart' BY DEF QuietStart
<1>9. Known' BY DEF Known, TypeOK
<1>10. SentOnce'
  <2>1. \A s \in Requests : pc'[s] # "refresh"
    BY DEF Owner, Owning, TypeOK
  <2>2. ASSUME session # 0, presented'[session] > 0
        PROVE  pc'[r] \in Presented /\ held[r] = session
    <3>1. session \in Pairs BY <2>2 DEF TypeOK, Pairs
    <3>2. CASE session = n BY <3>2 DEF Presented, Obtained, TypeOK
    <3>3. CASE session # n
      <4>1. presented[session] > 0 BY <2>2, <3>1, <3>3 DEF TypeOK
      <4>2. PICK s \in Requests : pc[s] \in Presented /\ held[s] = session
        BY <4>1, <2>2 DEF SentOnce
      <4>3. pc[s] \in Owning BY <4>2 DEF Presented, Obtained, Owning
      <4>4. s = r BY <4>3 DEF Owner
      <4> QED BY <4>2, <4>4, <3>3
    <3> QED BY <3>2, <3>3
  <2> QED BY <2>1, <2>2 DEF SentOnce
<1>11. NewPairs'
  <2>1. ASSUME NEW s \in Requests, pc'[s] \in Obtained
        PROVE  fresh'[s] # 0 /\ presented'[fresh'[s]] = 0
    <3>1. s = r
      <4>1. CASE s # r
        <5>1. pc[s] \in Owning BY <2>1, <4>1 DEF Obtained, Owning, TypeOK
        <5> QED BY <5>1, <4>1 DEF Owner
      <4> QED BY <4>1
    <3>2. result # 0 BY <2>1, <3>1 DEF Obtained, TypeOK
    <3>3. fresh'[s] = issued + 1 /\ issued + 1 \in Pairs
      BY <3>1, <3>2 DEF TypeOK, Pairs
    <3>4. presented[issued + 1] = 0 BY <3>3 DEF Known
    <3> QED BY <3>3, <3>4, <1>3 DEF TypeOK
  <2>2. screen \in {"storing", "setting"} =>
          mine # 0 /\ presented'[mine] = 0 /\ \A s \in Requests : held[s] # mine
    BY DEF NewPairs, TypeOK, Pairs
  <2> QED BY <2>1, <2>2 DEF NewPairs
<1> QED BY <1>6, <1>7, <1>8, <1>9, <1>10, <1>11

(* A failed refresh takes the session away.                                *)
LEMMA ClearKeeps ==
  ASSUME IndInv, NEW r \in Requests, Clear(r) \/ Erase(r)
  PROVE  IndInv'
<1>0. /\ stored' \in {0, stored} /\ stored' \in 0..MaxPairs
      /\ trouble' \subseteq {"network", "storage", "crash", "logout"}
  <2>1. CASE Erase(r) BY <2>1, WriteFacts, RequestsAssumption DEF Erase
  <2>2. CASE Clear(r) BY <2>2 DEF Clear, IndInv, TypeOK
  <2> QED BY <2>1, <2>2
<1> USE <1>0, RequestsAssumption
    DEF IndInv, Clear, Erase, Goes, screenVars, serviceVars
<1>1. TypeOK'
  <2>1. /\ session' \in 0..MaxPairs
        /\ pc' = [pc EXCEPT ![r] = "erase"] \/ pc' = [pc EXCEPT ![r] = "recheck"]
        /\ UNCHANGED <<mine, issued, refreshMutex, held, fresh, screen, valid,
                       expired, presented>>
    BY DEF TypeOK
  <2> QED BY <2>1, <1>0 DEF TypeOK
<1>2. SingleUse' BY DEF SingleUse
<1>3. Owner' BY DEF Owner, Owning, TypeOK
<1>4. QuietStart' BY DEF QuietStart, TypeOK
<1>5. Known' BY DEF Known, TypeOK
<1>6. SentOnce' BY DEF SentOnce, Presented, Obtained, TypeOK
<1>7. NewPairs' BY DEF NewPairs, Obtained, TypeOK
<1> QED BY <1>1, <1>2, <1>3, <1>4, <1>5, <1>6, <1>7

(* A refreshed session is stored and set.                                  *)
LEMMA SetKeeps ==
  ASSUME IndInv, NEW r \in Requests, Store(r) \/ Set(r)
  PROVE  IndInv'
<1>0. /\ stored' \in {fresh[r], stored} /\ stored' \in 0..MaxPairs
      /\ trouble' \subseteq {"network", "storage", "crash", "logout"}
  BY WriteFacts DEF Store, Set, IndInv, TypeOK
<1> USE <1>0 DEF IndInv, Store, Set, Goes, screenVars, serviceVars
<1>1. TypeOK'
  <2>1. /\ session' \in 0..MaxPairs
        /\ pc' = [pc EXCEPT ![r] = "set"] \/ pc' = [pc EXCEPT ![r] = "recheck"]
        /\ UNCHANGED <<mine, issued, refreshMutex, held, fresh, screen, valid,
                       expired, presented>>
    BY DEF TypeOK
  <2> QED BY <2>1, <1>0 DEF TypeOK
<1>2. SingleUse' BY DEF SingleUse
<1>3. Owner' BY DEF Owner, Owning, TypeOK
<1>4. QuietStart' BY DEF QuietStart, TypeOK
<1>5. Known' BY DEF Known, TypeOK
<1>6. SentOnce' BY DEF SentOnce, NewPairs, Presented, Obtained, TypeOK
<1>7. NewPairs' BY DEF NewPairs, Obtained, TypeOK
<1> QED BY <1>1, <1>2, <1>3, <1>4, <1>5, <1>6, <1>7

(* The screen, as long as it obtains and presents nothing.                 *)
LEMMA ScreenKeeps ==
  ASSUME IndInv,
         \/ RestoreLoad \/ RestoreLoadFails \/ RestoreErase \/ LoginStore
         \/ LoginSet \/ SessionExpired \/ LogoutCopy \/ LogoutClear
         \/ LogoutRevoke \/ LogoutErase
  PROVE  IndInv'
<1>0. /\ stored' \in {0, mine, stored} /\ stored' \in 0..MaxPairs
      /\ trouble' \subseteq {"network", "storage", "crash", "logout"}
  <2>1. CASE RestoreErase \/ LoginStore \/ LogoutErase
    BY <2>1, WriteFacts, RequestsAssumption
       DEF RestoreErase, LoginStore, LogoutErase, IndInv, TypeOK
  <2>2. CASE RestoreLoadFails \/ LogoutCopy
    BY <2>2 DEF RestoreLoadFails, LogoutCopy, IndInv, TypeOK
  <2>3. CASE \/ RestoreLoad \/ LoginSet \/ SessionExpired \/ LogoutClear
             \/ LogoutRevoke
    BY <2>3 DEF RestoreLoad, LoginSet, SessionExpired, LogoutClear,
       LogoutRevoke, IndInv, TypeOK
  <2> QED BY <2>1, <2>2, <2>3
<1> USE <1>0, RequestsAssumption
    DEF IndInv, RestoreLoad, RestoreLoadFails, RestoreErase, LoginStore,
        LoginSet, SessionExpired, LogoutCopy, LogoutClear, LogoutRevoke,
        LogoutErase, Shows, requestVars, serviceVars
<1>1. TypeOK'
  <2>1. valid' \subseteq 1..issued' BY DEF TypeOK
  <2>2. screen' \in {"start", "restoring", "forgetting", "login", "storing",
                     "setting", "ready", "clearing", "revoking", "erasing"}
    OBVIOUS
  <2>3. session' \in 0..MaxPairs /\ mine' \in 0..MaxPairs BY DEF TypeOK
  <2>4. UNCHANGED <<issued, expired, refreshMutex, pc, held, fresh, presented>>
    OBVIOUS
  <2> QED BY <2>1, <2>2, <2>3, <2>4 DEF TypeOK
<1>2. SingleUse' BY DEF SingleUse
<1>3. Owner' BY DEF Owner
<1>4. QuietStart' BY DEF QuietStart
<1>5. Known' BY DEF Known, TypeOK
<1>6. SentOnce' BY DEF SentOnce, NewPairs
<1>7. NewPairs' BY DEF NewPairs
<1> QED BY <1>1, <1>2, <1>3, <1>4, <1>5, <1>6, <1>7

(* A stored session is refreshed at the start.                             *)
LEMMA RestoreRefreshKeeps == ASSUME IndInv, RestoreRefresh PROVE IndInv'
<1>1. PICK result \in 0..MaxPairs :
        /\ Rotate(mine, result)
        /\ mine' = result
        /\ screen' = IF result = 0 THEN "forgetting" ELSE "storing"
  BY DEF RestoreRefresh, Shows
<1>2. /\ screen = "restoring"
      /\ UNCHANGED <<session, stored, pc, held, fresh, refreshMutex>>
  BY DEF RestoreRefresh, requestVars
<1>3. mine \in 1..issued /\ mine \in Pairs /\ presented[mine] = 0
  BY <1>2, RequestsAssumption DEF IndInv, QuietStart, Known, TypeOK, Pairs
<1>4. /\ presented' = [presented EXCEPT ![mine] = 1]
      /\ presented' \in [Pairs -> Nat] /\ SingleUse'
      /\ issued' \in {issued, issued + 1} /\ issued' \in 0..MaxPairs
      /\ valid' \subseteq 1..issued' /\ expired' \subseteq 1..issued'
      /\ trouble' \subseteq {"network", "storage", "crash", "logout"}
      /\ result \in {0, issued'} /\ (result # 0 => issued' = issued + 1)
      /\ \A m \in Pairs : m > issued' => presented'[m] = 0
  BY <1>1, <1>3, RotateFacts
<1>5. issued \in 0..MaxPairs /\ MaxPairs \in Nat
  BY RequestsAssumption DEF IndInv, TypeOK
<1>6. \A r \in Requests : pc'[r] = "idle" BY <1>2 DEF IndInv, QuietStart
<1> USE <1>1, <1>2, <1>4, <1>5, <1>6 DEF IndInv
<1>7. TypeOK' BY DEF TypeOK
<1>8. Owner' BY DEF Owner, Owning
<1>9. QuietStart' BY DEF QuietStart
<1>10. Known' BY DEF Known, TypeOK
<1>11. SentOnce'
  <2>1. session' = 0 BY DEF QuietStart
  <2> QED BY <2>1, <1>6 DEF SentOnce
<1>12. NewPairs'
  <2>1. \A r \in Requests : held'[r] \in 0..issued BY DEF Known
  <2>2. CASE result = 0 BY <2>2 DEF NewPairs, Obtained
  <2>3. CASE result # 0
    <3>1. mine' = issued + 1 /\ issued + 1 \in Pairs BY <2>3 DEF Pairs
    <3>2. presented[issued + 1] = 0 BY <3>1 DEF Known
    <3>3. presented'[mine'] = 0 BY <3>1, <3>2, <1>3 DEF TypeOK
    <3> QED BY <2>1, <3>1, <3>3 DEF NewPairs, Obtained
  <2> QED BY <2>2, <2>3
<1> QED BY <1>7, <1>8, <1>9, <1>10, <1>11, <1>12

(* A login obtains a pair.                                                 *)
LEMMA LoginKeeps == ASSUME IndInv, Login PROVE IndInv'
<1> USE RequestsAssumption DEF IndInv, Login, Shows, requestVars
<1>1. TypeOK'
  <2>1. issued' \in 0..MaxPairs /\ 1..issued \subseteq 1..issued'
    BY DEF TypeOK
  <2>2. valid' \subseteq 1..issued' /\ expired' \subseteq 1..issued'
    BY <2>1 DEF TypeOK
  <2> QED BY <2>1, <2>2 DEF TypeOK
<1>2. SingleUse' BY DEF SingleUse
<1>3. Owner' BY DEF Owner
<1>4. QuietStart' BY DEF QuietStart
<1>5. Known'
  <2>1. issued \in Nat /\ issued' = issued + 1 BY DEF TypeOK
  <2>2. 0..issued \subseteq 0..issued' BY <2>1
  <2>3. \A n \in Pairs : n > issued' => presented'[n] = 0
    BY <2>1 DEF Known, Pairs
  <2>4. mine' \in 0..issued' BY <2>1
  <2> QED BY <2>2, <2>3, <2>4 DEF Known
<1>6. SentOnce' BY DEF SentOnce
<1>7. NewPairs' BY DEF NewPairs, Known, TypeOK, Pairs
<1> QED BY <1>1, <1>2, <1>3, <1>4, <1>5, <1>6, <1>7

(* Access tokens expire; the client is restarted; nothing happens.         *)
LEMMA OtherKeeps ==
  ASSUME IndInv, AccessExpires \/ Crash \/ UNCHANGED vars
  PROVE  IndInv'
<1>1. CASE AccessExpires
  BY <1>1 DEF AccessExpires, requestVars, screenVars, IndInv, TypeOK,
     SingleUse, Owner, QuietStart, Known, SentOnce, NewPairs
<1>2. CASE Crash
  <2> USE <1>2, RequestsAssumption DEF Crash, serviceVars, IndInv
  <2>1. TypeOK' BY DEF TypeOK
  <2>2. SingleUse' BY DEF SingleUse
  <2>3. Owner' /\ QuietStart' BY DEF Owner, Owning, QuietStart
  <2>4. Known' BY DEF Known, TypeOK
  <2>5. SentOnce' /\ NewPairs' BY DEF SentOnce, NewPairs, Obtained
  <2> QED BY <2>1, <2>2, <2>3, <2>4, <2>5
<1>3. CASE UNCHANGED vars
  BY <1>3 DEF vars, requestVars, screenVars, serviceVars, IndInv, TypeOK,
     SingleUse, Owner, QuietStart, Known, SentOnce, NewPairs
<1> QED BY <1>1, <1>2, <1>3

-----------------------------------------------------------------------------
(* The invariant is inductive.                                             *)
THEOREM SessionInvariant == Spec => []IndInv
<1>1. Init => IndInv BY InitInv
<1>2. IndInv /\ [Next]_vars => IndInv'
  <2> SUFFICES ASSUME IndInv, [Next]_vars PROVE IndInv' OBVIOUS
  <2>1. ASSUME NEW r \in Requests, Request(r) PROVE IndInv'
    BY <2>1, WalkKeeps, BeginKeeps, LockKeeps, RecheckKeeps, RefreshKeeps,
       ClearKeeps, SetKeeps DEF Request
  <2>2. CASE Screen
    BY <2>2, ScreenKeeps, RestoreRefreshKeeps, LoginKeeps DEF Screen
  <2>3. CASE AccessExpires \/ Crash \/ UNCHANGED vars BY <2>3, OtherKeeps
  <2> QED BY <2>1, <2>2, <2>3 DEF Next
<1> QED BY <1>1, <1>2, PTL DEF Spec

(* Every variable of the client and of the service keeps its type.         *)
THEOREM SessionTypeOK == Spec => []TypeOK
<1>1. IndInv => TypeOK BY DEF IndInv
<1> QED BY <1>1, SessionInvariant, PTL

(* RefreshAfterUnauthorized serializes the refreshes and asks only for the *)
(* session that was rejected: a refresh token is sent for rotation once    *)
(* per run of the client, however many requests are rejected together.     *)
THEOREM SessionSingleUse == Spec => []SingleUse
<1>1. IndInv => SingleUse BY DEF IndInv
<1> QED BY <1>1, SessionInvariant, PTL

-----------------------------------------------------------------------------
(* What has gone wrong stays on record.                                    *)
LEMMA TroubleGrows == ASSUME [Next]_vars PROVE trouble \subseteq trouble'
<1>1. ASSUME NEW r \in Requests, Request(r) PROVE trouble \subseteq trouble'
  BY <1>1 DEF Request, Begin, CallGateway, Lock, Compare, Refresh, Rotate,
     CheckFailed, Clear, Erase, CheckRefreshed, Store, Set, Recheck, Write
<1>2. CASE Screen
  BY <1>2 DEF Screen, RestoreLoad, RestoreLoadFails, RestoreRefresh, Rotate,
     RestoreErase, Login, LoginStore, LoginSet, SessionExpired, LogoutCopy,
     LogoutClear, LogoutRevoke, LogoutErase, Write
<1>3. CASE AccessExpires \/ Crash \/ UNCHANGED vars
  BY <1>3 DEF AccessExpires, Crash, vars
<1> QED BY <1>1, <1>2, <1>3 DEF Next

(* Only one request at a time is between Lock and Recheck.                 *)
LEMMA SoleOwner ==
  ASSUME IndInv, NEW r \in Requests, NEW q \in Requests,
         pc[r] \in Owning, pc[q] \in Owning
  PROVE  q = r
BY DEF IndInv, Owner

(* Without trouble a refresh presents a pair that the service accepts, and *)
(* obtains the next one.                                                   *)
LEMMA LoggedInRefresh ==
  ASSUME IndInv, LoggedIn, NEW r \in Requests, Refresh(r), trouble' \subseteq {"storage"},
         trouble \subseteq trouble'
  PROVE  LoggedIn'
<1>1. PICK result \in 0..MaxPairs :
        /\ Rotate(held[r], result)
        /\ fresh' = [fresh EXCEPT ![r] = result]
        /\ Goes(r, "refresh", IF result = 0 THEN "failed" ELSE "refreshed")
  BY DEF Refresh
<1>2. /\ pc[r] = "refresh" /\ UNCHANGED <<session, stored, held, screen, mine>>
      /\ trouble \subseteq {"storage"}
  BY <1>1 DEF Refresh, Goes, screenVars
<1>3. screen = "ready" /\ held[r] = session BY <1>2 DEF LoggedIn
<1>4. \A q \in Requests : pc[q] \notin Obtained
  <2>1. ASSUME NEW q \in Requests, pc[q] \in Obtained PROVE FALSE
    <3>1. q = r BY <1>2, <2>1, SoleOwner DEF Owning, Obtained
    <3> QED BY <1>2, <2>1, <3>1 DEF Obtained
  <2> QED BY <2>1
<1>5. held[r] \in valid BY <1>2, <1>3, <1>4 DEF LoggedIn
<1>6. result = issued + 1 /\ valid' = (valid \ {held[r]}) \cup {issued + 1}
  <2>1. issued \in Nat BY DEF IndInv, TypeOK
  <2> QED BY <1>1, <1>2, <1>5, <2>1 DEF Rotate
<1>7. result # 0 BY <1>6 DEF IndInv, TypeOK
<1>8. pc' = [pc EXCEPT ![r] = "refreshed"] BY <1>1, <1>7 DEF Goes
<1>9. \A q \in Requests \ {r} : pc'[q] = pc[q] BY <1>8 DEF IndInv, TypeOK
<1>10. pc'[r] = "refreshed" /\ fresh'[r] \in valid'
  BY <1>1, <1>6, <1>8 DEF IndInv, TypeOK
<1> QED BY <1>2, <1>3, <1>4, <1>9, <1>10 DEF LoggedIn, Obtained

(* A step of a request, its refresh included, leaves the client logged in  *)
(* as long as nothing but the storage has failed.                          *)
LEMMA LoggedInRequest ==
  ASSUME IndInv, LoggedIn, NEW r \in Requests, Request(r), trouble' \subseteq {"storage"},
         trouble \subseteq trouble'
  PROVE  LoggedIn'
<1> USE DEF IndInv, TypeOK, LoggedIn, Goes, screenVars, serviceVars
<1>1. CASE Begin(r) BY <1>1 DEF Begin, Obtained
<1>2. CASE CallGateway(r) BY <1>2 DEF CallGateway, Obtained
<1>3. CASE Lock(r) BY <1>3 DEF Lock, Obtained
<1>4. CASE Compare(r) BY <1>4 DEF Compare, StillRejected, Obtained
<1>5. CASE Refresh(r) BY <1>5, LoggedInRefresh
<1>6. CASE CheckFailed(r) \/ Clear(r) \/ Erase(r)
  BY <1>6 DEF CheckFailed, Clear, Erase
<1>7. CASE CheckRefreshed(r) BY <1>7 DEF CheckRefreshed, Obtained
<1>8. CASE Store(r) BY <1>8 DEF Store, Write, Obtained
<1>9. CASE Set(r)
  <2>1. \A q \in Requests \ {r} : pc[q] \notin Obtained \cup {"refresh"}
    <3>1. ASSUME NEW q \in Requests \ {r}, pc[q] \in Obtained \cup {"refresh"}
          PROVE  FALSE
      BY <1>9, <3>1, SoleOwner DEF Set, Owning, Obtained
    <3> QED BY <3>1
  <2>2. fresh[r] \in valid /\ fresh[r] # 0
    BY <1>9 DEF Set, Obtained, NewPairs
  <2>3. screen = "ready" BY <1>9 DEF Set
  <2> QED BY <1>9, <2>1, <2>2, <2>3 DEF Set, Obtained
<1>10. CASE Recheck(r) BY <1>10 DEF Recheck, Obtained
<1> QED BY <1>1, <1>2, <1>3, <1>4, <1>5, <1>6, <1>7, <1>8, <1>9, <1>10 DEF Request

(* So does what a screen begins.                                           *)
LEMMA LoggedInScreen ==
  ASSUME IndInv, LoggedIn, Screen, trouble' \subseteq {"storage"},
         trouble \subseteq trouble'
  PROVE  LoggedIn'
<1> USE DEF IndInv, TypeOK, LoggedIn, Shows, requestVars, serviceVars
<1>1. CASE RestoreLoad \/ RestoreLoadFails
  BY <1>1 DEF RestoreLoad, RestoreLoadFails
<1>2. CASE RestoreRefresh \/ RestoreErase BY <1>2 DEF RestoreRefresh, RestoreErase
<1>3. CASE Login BY <1>3 DEF Login, Obtained
<1>4. CASE LoginStore BY <1>4 DEF LoginStore, Write
<1>5. CASE LoginSet BY <1>5 DEF LoginSet, NewPairs, Obtained
<1>6. CASE SessionExpired BY <1>6 DEF SessionExpired
<1>7. CASE LogoutCopy \/ LogoutClear \/ LogoutRevoke \/ LogoutErase
  BY <1>7 DEF LogoutCopy, LogoutClear, LogoutRevoke, LogoutErase
<1> QED BY <1>1, <1>2, <1>3, <1>4, <1>5, <1>6, <1>7 DEF Screen

(* Every step keeps the client logged in while nothing but the storage has *)
(* failed.                                                                 *)
LEMMA NextLoggedIn == ASSUME IndInv, LoggedIn, [Next]_vars PROVE LoggedIn'
<1>1. CASE ~ (trouble' \subseteq {"storage"}) BY <1>1 DEF LoggedIn
<1>2. CASE trouble' \subseteq {"storage"}
  <2>1. trouble \subseteq trouble' BY TroubleGrows
  <2>2. CASE AccessExpires
    BY <2>2 DEF AccessExpires, requestVars, screenVars, LoggedIn
  <2>3. CASE Crash BY <1>2, <2>3 DEF Crash
  <2>4. CASE UNCHANGED vars
    BY <2>4 DEF vars, requestVars, screenVars, serviceVars, LoggedIn
  <2> QED BY <1>2, <2>1, <2>2, <2>3, <2>4, LoggedInRequest, LoggedInScreen DEF Next
<1> QED BY <1>1, <1>2

(* Expiring access tokens alone never cost the user the session: unless a  *)
(* call is lost, the client is restarted or the user logs out, the session *)
(* stays and the service still accepts its refresh token.                  *)
THEOREM SessionStaysLoggedIn == Spec => []StaysLoggedIn
<1>1. Init => LoggedIn BY DEF Init, LoggedIn, Obtained
<1>2. ASSUME IndInv, LoggedIn PROVE StaysLoggedIn
  <2> SUFFICES ASSUME trouble \subseteq {"storage"}, screen = "ready",
                      refreshMutex = Nobody
               PROVE  session \in valid
    BY <1>2 DEF StaysLoggedIn, LoggedIn
  <2>1. \A r \in Requests : pc[r] \notin Obtained
    BY <1>2, RequestsAssumption DEF IndInv, Owner, Owning, Obtained
  <2> QED BY <1>2, <2>1 DEF LoggedIn
<1>3. IndInv /\ LoggedIn => StaysLoggedIn BY <1>2
<1> QED BY <1>1, <1>3, NextLoggedIn, SessionInvariant, PTL DEF Spec

-----------------------------------------------------------------------------
(* What is stored, as long as the storage works and nobody logs out.       *)
LEMMA WriteWorks ==
  ASSUME NEW n, Write(n), "storage" \notin trouble' PROVE stored' = n
BY DEF Write

(* A step of a request leaves in the storage, besides the session, only    *)
(* what is about to be the session or to be erased, as long as the storage *)
(* works and nobody has logged out.                                        *)
LEMMA RestorableRequest ==
  ASSUME IndInv, Restorable, NEW r \in Requests, Request(r),
         {"logout", "storage"} \cap trouble' = {}, trouble \subseteq trouble'
  PROVE  Restorable'
<1> USE DEF IndInv, TypeOK, Restorable, Goes, screenVars, serviceVars
<1> DEFINE Engaged == Presented \cup {"refresh"}
<1>0. \A q \in Requests \ {r} :
        pc[r] \in Owning => pc[q] \notin Owning
  BY SoleOwner
<1>1. CASE Begin(r) BY <1>1 DEF Begin, Presented, Obtained
<1>2. CASE CallGateway(r) BY <1>2 DEF CallGateway, Presented, Obtained
<1>3. CASE Lock(r) BY <1>3 DEF Lock, Presented, Obtained
<1>4. CASE Compare(r) BY <1>4 DEF Compare, StillRejected, Presented, Obtained
<1>5. CASE Refresh(r)
  <2>1. /\ pc[r] = "refresh" /\ UNCHANGED <<session, stored, held, screen, mine>>
        /\ \A q \in Requests \ {r} : pc'[q] = pc[q] /\ fresh'[q] = fresh[q]
        /\ pc'[r] \in {"failed", "refreshed"}
    BY <1>5 DEF Refresh
  <2> QED BY <2>1 DEF Presented, Obtained
<1>6. CASE CheckFailed(r) BY <1>6 DEF CheckFailed, Presented, Obtained
<1>7. CASE Clear(r)
  <2>1. /\ pc[r] = "clear" /\ pc'[r] = "erase" /\ session' = 0
        /\ UNCHANGED <<stored, held, fresh, screen, mine>>
        /\ \A q \in Requests \ {r} : pc'[q] = pc[q]
    BY <1>7 DEF Clear
  <2>2. \A q \in Requests \ {r} : pc[q] \notin Owning
    BY <1>0, <2>1 DEF Owning
  <2> QED BY <2>1, <2>2 DEF Presented, Obtained, Owning
<1>8. CASE Erase(r)
  <2>1. /\ pc[r] = "erase" /\ pc'[r] = "recheck" /\ stored' = 0
        /\ UNCHANGED <<session, held, fresh, screen, mine>>
        /\ \A q \in Requests \ {r} : pc'[q] = pc[q]
    BY <1>8, WriteWorks DEF Erase
  <2>2. \A q \in Requests \ {r} : pc[q] \notin Owning
    BY <1>0, <2>1 DEF Owning
  <2> QED BY <2>1, <2>2 DEF Presented, Obtained, Owning
<1>9. CASE CheckRefreshed(r) BY <1>9 DEF CheckRefreshed, Presented, Obtained
<1>10. CASE Store(r)
  <2>1. /\ pc[r] = "store" /\ pc'[r] = "set" /\ stored' = fresh[r]
        /\ UNCHANGED <<session, held, fresh, screen, mine>>
        /\ \A q \in Requests \ {r} : pc'[q] = pc[q]
    BY <1>10, WriteWorks DEF Store
  <2>2. \A q \in Requests \ {r} : pc[q] \notin Owning
    BY <1>0, <2>1 DEF Owning
  <2>3. held[r] = session /\ held[r] # 0
    BY <2>1 DEF Presented, Obtained, Owner
  <2>4. screen = "ready" BY <2>3
  <2> QED BY <2>1, <2>2, <2>3, <2>4 DEF Presented, Obtained, Owning
<1>11. CASE Set(r)
  <2>1. /\ pc[r] = "set" /\ pc'[r] = "recheck" /\ session' = fresh[r]
        /\ UNCHANGED <<stored, held, fresh, screen, mine>>
        /\ \A q \in Requests \ {r} : pc'[q] = pc[q]
    BY <1>11 DEF Set
  <2>2. \A q \in Requests \ {r} : pc[q] \notin Owning
    BY <1>0, <2>1 DEF Owning
  <2>3. held[r] = session /\ held[r] # 0 /\ stored = fresh[r]
    BY <2>1 DEF Presented, Obtained, Owner
  <2>4. screen = "ready" BY <2>3
  <2> QED BY <2>1, <2>2, <2>3, <2>4 DEF Presented, Obtained, Owning
<1>12. CASE Recheck(r)
  <2>1. /\ pc[r] = "recheck" /\ pc'[r] = "idle"
        /\ UNCHANGED <<session, stored, screen, mine>>
        /\ \A q \in Requests \ {r} :
             pc'[q] = pc[q] /\ held'[q] = held[q] /\ fresh'[q] = fresh[q]
    BY <1>12 DEF Recheck
  <2> QED BY <2>1 DEF Presented, Obtained
<1> QED BY <1>1, <1>2, <1>3, <1>4, <1>5, <1>6, <1>7, <1>8, <1>9, <1>10, <1>11,
           <1>12 DEF Request

(* A screen's step does the same.                                          *)
LEMMA RestorableScreen ==
  ASSUME IndInv, Restorable, Screen, {"logout", "storage"} \cap trouble' = {},
         trouble \subseteq trouble'
  PROVE  Restorable'
<1> USE DEF IndInv, TypeOK, Restorable, Shows, requestVars, serviceVars
<1>0. screen # "ready" =>
        \A r \in Requests : pc[r] \notin Presented \cup {"refresh"}
  BY DEF Presented, Obtained, Owner
<1>1. CASE RestoreLoad \/ RestoreLoadFails
  BY <1>1 DEF RestoreLoad, RestoreLoadFails
<1>2. CASE RestoreRefresh BY <1>2 DEF RestoreRefresh
<1>3. CASE RestoreErase
  <2>1. stored' = 0 BY <1>3, WriteWorks DEF RestoreErase
  <2> QED BY <1>0, <1>3, <2>1 DEF RestoreErase, Presented, Obtained
<1>4. CASE Login BY <1>4 DEF Login
<1>5. CASE LoginStore
  <2>1. stored' = mine BY <1>5, WriteWorks DEF LoginStore
  <2> QED BY <1>0, <1>5, <2>1 DEF LoginStore, Presented, Obtained
<1>6. CASE LoginSet BY <1>0, <1>6 DEF LoginSet
<1>7. CASE SessionExpired
  <2>1. \A r \in Requests : pc[r] # "set"
    BY <1>7 DEF SessionExpired, Presented, Obtained, Owner
  <2> QED BY <1>7, <2>1 DEF SessionExpired
<1>8. CASE LogoutCopy \/ LogoutClear \/ LogoutRevoke \/ LogoutErase
  BY <1>8 DEF LogoutCopy, LogoutClear, LogoutRevoke, LogoutErase
<1> QED BY <1>1, <1>2, <1>3, <1>4, <1>5, <1>6, <1>7, <1>8 DEF Screen

(* Every step keeps Restorable.                                            *)
LEMMA NextRestorable == ASSUME IndInv, Restorable, [Next]_vars PROVE Restorable'
<1>1. CASE {"logout", "storage"} \cap trouble' # {} BY <1>1 DEF Restorable
<1>2. CASE {"logout", "storage"} \cap trouble' = {}
  <2>1. trouble \subseteq trouble' BY TroubleGrows
  <2>2. CASE AccessExpires
    BY <2>2 DEF AccessExpires, requestVars, screenVars, Restorable
  <2>3. CASE Crash
    BY <2>3 DEF Crash, Restorable, Presented, Obtained
  <2>4. CASE UNCHANGED vars
    BY <2>4 DEF vars, requestVars, screenVars, serviceVars, Restorable
  <2> QED BY <1>2, <2>1, <2>2, <2>3, <2>4, RestorableRequest, RestorableScreen
          DEF Next
<1> QED BY <1>1, <1>2

(* A restart restores the session in use or none, never an older one: no   *)
(* lost call and no crash between storing and setting a session leaves a   *)
(* stale credential behind.                                                *)
THEOREM SessionNoStaleCredential == Spec => []NoStaleCredential
<1>1. Init => Restorable BY DEF Init, Restorable, Presented, Obtained
<1>2. ASSUME IndInv, Restorable PROVE NoStaleCredential
  <2> SUFFICES ASSUME {"logout", "storage"} \cap trouble = {},
                      refreshMutex = Nobody, screen \in {"ready", "login"}
               PROVE  stored \in {0, session}
    BY DEF NoStaleCredential
  <2>1. \A r \in Requests : pc[r] \notin {"set", "erase"}
    BY <1>2, RequestsAssumption DEF IndInv, Owner, Owning
  <2> QED BY <1>2, <2>1 DEF Restorable
<1>3. IndInv /\ Restorable => NoStaleCredential BY <1>2
<1> QED BY <1>1, <1>3, NextRestorable, SessionInvariant, PTL DEF Spec
=============================================================================
