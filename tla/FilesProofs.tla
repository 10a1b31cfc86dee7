----------------------------- MODULE FilesProofs -----------------------------
(***************************************************************************)
(* Proofs about the files the client replaces by renaming others over      *)
(* them: its own executable (Updater), for any number of starts, any       *)
(* releases and both kinds of executable, and the settings (S, module      *)
(* Settings), for any actions, keys and default bindings.                  *)
(***************************************************************************)
EXTENDS Updater, KeyBindings, TLAPS

CONSTANT Garbage
VARIABLES beside, saver, saved, draft, capture, touched

S == INSTANCE Settings WITH temporary <- beside

-----------------------------------------------------------------------------
(* The update.                                                             *)

(* Every step keeps the types.                                             *)
LEMMA NextTypeOK == TypeOK /\ [Next]_vars => TypeOK'
<1> SUFFICES ASSUME TypeOK, [Next]_vars PROVE TypeOK'
  OBVIOUS
<1> USE UpdaterAssumption DEF TypeOK, Busy, Updating, Fails, RenameFails
<1>1. CASE Publish
  BY <1>1 DEF Publish, clientVars, fetchVars, fileVars
<1>2. ASSUME NEW c \in Clients, Client(c)
      PROVE  TypeOK'
  <2>1. CASE Redirect(c)
    BY <1>2, <2>1 DEF Redirect, ParseHttpsUrl, fetchVars, fileVars
  <2>2. CASE FetchFails(c)
    <3>1. CASE Goes(c, "manifest", "running")
      BY <1>2, <2>2, <3>1 DEF FetchFails, Goes, BeginFetch, EndFetch, fileVars
    <3>2. CASE Goes(c, "artifact", "failed")
      BY <1>2, <2>2, <3>2 DEF FetchFails, Goes, BeginFetch, EndFetch, fileVars
    <3> QED
      BY <2>2, <3>1, <3>2 DEF FetchFails
  <2>3. CASE Start(c)
    BY <1>2, <2>3 DEF Start, Goes, BeginFetch, fetchVars, fileVars
  <2>4. CASE ReadManifest(c)
    BY <1>2, <2>4 DEF ReadManifest, Goes, BeginFetch, EndFetch, fetchVars, fileVars
  <2>5. CASE SkipUpdate(c)
    BY <1>2, <2>5 DEF SkipUpdate, Goes, fetchVars, fileVars
  <2>6. CASE StartUpdater(c)
    BY <1>2, <2>6 DEF StartUpdater, Goes, BeginFetch, ParseHttpsUrl, fetchVars,
       fileVars
  <2>7. CASE Download(c)
    BY <1>2, <2>7 DEF Download, Goes, BeginFetch, EndFetch, fetchVars, fileVars
  <2>8. CASE Verify(c)
    BY <1>2, <2>8 DEF Verify, Goes, fetchVars, fileVars
  <2>9. CASE Prepare(c)
    BY <1>2, <2>9 DEF Prepare, Goes, fetchVars, fileVars
  <2>10. CASE Unlink(c)
    BY <1>2, <2>10 DEF Unlink, Goes, RemoveBackup, fetchVars, fileVars
  <2>11. CASE Aside(c)
    <3>1. trouble' \subseteq Clients
      BY <1>2, <2>11 DEF Aside
    <3>2. /\ pc' \in [Clients -> Busy \cup {"off", "running", "failed", "gone"}]
          /\ temporary' \in [Clients -> Releases \cup {None}]
          /\ target' \in Releases \cup {None} /\ backup' \in Releases \cup {None}
      BY <1>2, <2>11 DEF Aside, Goes, fileVars
    <3> QED
      BY <2>11, <3>1, <3>2 DEF Aside, fetchVars
  <2>12. CASE Install(c)
    <3>1. trouble' \subseteq Clients
      BY <1>2, <2>12 DEF Install
    <3>2. /\ pc' \in [Clients -> Busy \cup {"off", "running", "failed", "gone"}]
          /\ temporary' \in [Clients -> Releases \cup {None}]
          /\ target' \in Releases \cup {None}
      BY <1>2, <2>12 DEF Install, Goes
    <3> QED
      BY <2>12, <3>1, <3>2 DEF Install, fetchVars
  <2>13. CASE Rollback(c)
    BY <1>2, <2>13 DEF Rollback, Goes, MayRename, fetchVars, fileVars
  <2>14. CASE Tidy(c)
    BY <1>2, <2>14 DEF Tidy, Goes, RemoveBackup, fetchVars, fileVars
  <2>15. CASE Exec(c)
    <3>1. CASE Goes(c, "exec", "failed") /\ UNCHANGED <<version, fetchVars>>
      <4>1. trouble' \subseteq Clients
        BY <1>2, <2>15 DEF Exec
      <4> QED
        BY <1>2, <2>15, <3>1, <4>1 DEF Exec, Goes, fetchVars, fileVars
    <3>2. CASE /\ target # None /\ Goes(c, "exec", "manifest")
               /\ version' = [version EXCEPT ![c] = target]
               /\ BeginFetch(c, "https") /\ UNCHANGED trouble
      BY <1>2, <2>15, <3>2 DEF Exec, Goes, BeginFetch, fileVars
    <3> QED
      BY <2>15, <3>1, <3>2 DEF Exec
  <2>16. CASE Kill(c)
    BY <1>2, <2>16 DEF Kill, BeginFetch, EndFetch, fetchVars, fileVars
  <2> QED
    BY <1>2, <2>1, <2>2, <2>3, <2>4, <2>5, <2>6, <2>7, <2>8, <2>9, <2>10, <2>11,
       <2>12, <2>13, <2>14, <2>15, <2>16 DEF Client
<1>3. CASE UNCHANGED vars
  BY <1>3 DEF vars, clientVars, fetchVars, fileVars
<1> QED
  BY <1>1, <1>2, <1>3 DEF Next

(* Every step leaves an updater with the release it was started for.       *)
LEMMA NextInHand == TypeOK /\ InHand /\ [Next]_vars => InHand'
<1> SUFFICES ASSUME TypeOK, InHand, [Next]_vars PROVE InHand'
  OBVIOUS
<1> USE UpdaterAssumption DEF TypeOK, InHand, Busy, Updating, Fails, RenameFails
<1>1. CASE Publish
  BY <1>1 DEF Publish, clientVars, fetchVars, fileVars
<1>2. ASSUME NEW c \in Clients, Client(c)
      PROVE  InHand'
  <2>1. CASE Redirect(c)
    BY <1>2, <2>1 DEF Redirect, ParseHttpsUrl, fetchVars, fileVars
  <2>2. CASE FetchFails(c)
    BY <1>2, <2>2 DEF FetchFails, Goes, BeginFetch, EndFetch, fetchVars, fileVars
  <2>3. CASE Start(c)
    BY <1>2, <2>3 DEF Start, Goes, BeginFetch, fetchVars, fileVars
  <2>4. CASE ReadManifest(c)
    BY <1>2, <2>4 DEF ReadManifest, Goes, BeginFetch, EndFetch, fetchVars, fileVars
  <2>5. CASE SkipUpdate(c)
    BY <1>2, <2>5 DEF SkipUpdate, Goes, fetchVars, fileVars
  <2>6. CASE StartUpdater(c)
    BY <1>2, <2>6 DEF StartUpdater, Goes, BeginFetch, ParseHttpsUrl, fetchVars,
       fileVars
  <2>7. CASE Download(c)
    BY <1>2, <2>7 DEF Download, Goes, BeginFetch, EndFetch, fetchVars, fileVars
  <2>8. CASE Verify(c)
    BY <1>2, <2>8 DEF Verify, Goes, fetchVars, fileVars
  <2>9. CASE Prepare(c)
    BY <1>2, <2>9 DEF Prepare, Goes, fetchVars, fileVars
  <2>10. CASE Unlink(c)
    BY <1>2, <2>10 DEF Unlink, Goes, RemoveBackup, fetchVars, fileVars
  <2>11. CASE Aside(c)
    BY <1>2, <2>11 DEF Aside, Goes, MayRename, fetchVars, fileVars
  <2>12. CASE Install(c)
    BY <1>2, <2>12 DEF Install, Goes, MayRename, fetchVars, fileVars
  <2>13. CASE Rollback(c)
    BY <1>2, <2>13 DEF Rollback, Goes, MayRename, fetchVars, fileVars
  <2>14. CASE Tidy(c)
    BY <1>2, <2>14 DEF Tidy, Goes, RemoveBackup, fetchVars, fileVars
  <2>15. CASE Exec(c)
    BY <1>2, <2>15 DEF Exec, Goes, BeginFetch, fetchVars, fileVars
  <2>16. CASE Kill(c)
    BY <1>2, <2>16 DEF Kill, BeginFetch, EndFetch, fetchVars, fileVars
  <2> QED
    BY <1>2, <2>1, <2>2, <2>3, <2>4, <2>5, <2>6, <2>7, <2>8, <2>9, <2>10, <2>11,
       <2>12, <2>13, <2>14, <2>15, <2>16 DEF Client
<1>3. CASE UNCHANGED vars
  BY <1>3 DEF vars, clientVars, fetchVars, fileVars
<1> QED
  BY <1>1, <1>2, <1>3 DEF Next

(* Every step that vacates the client's name keeps a backup or a new client. *)
LEMMA NextVacant == TypeOK /\ InHand /\ Vacant /\ [Next]_vars => Vacant'
<1> SUFFICES ASSUME TypeOK, InHand, Vacant, [Next]_vars PROVE Vacant'
  OBVIOUS
<1> USE UpdaterAssumption DEF TypeOK, InHand, Vacant, Holds, Busy, Updating
<1>1. CASE Publish
  BY <1>1 DEF Publish, clientVars, fetchVars, fileVars
<1>2. ASSUME NEW c \in Clients, Client(c)
      PROVE  Vacant'
  <2>1. CASE Redirect(c)
    BY <1>2, <2>1 DEF Redirect, ParseHttpsUrl, fetchVars, fileVars
  <2>2. CASE FetchFails(c)
    BY <1>2, <2>2 DEF FetchFails, Goes, BeginFetch, EndFetch, fetchVars, fileVars
  <2>3. CASE Start(c)
    BY <1>2, <2>3 DEF Start, Goes, BeginFetch, fetchVars, fileVars
  <2>4. CASE ReadManifest(c)
    BY <1>2, <2>4 DEF ReadManifest, Goes, BeginFetch, EndFetch, fetchVars, fileVars
  <2>5. CASE SkipUpdate(c)
    BY <1>2, <2>5 DEF SkipUpdate, Goes, fetchVars, fileVars
  <2>6. CASE StartUpdater(c)
    BY <1>2, <2>6 DEF StartUpdater, Goes, BeginFetch, ParseHttpsUrl, fetchVars,
       fileVars
  <2>7. CASE Download(c)
    BY <1>2, <2>7 DEF Download, Goes, BeginFetch, EndFetch, fetchVars, fileVars
  <2>8. CASE Verify(c)
    BY <1>2, <2>8 DEF Verify, Goes, fetchVars, fileVars
  <2>9. CASE Prepare(c)
    BY <1>2, <2>9 DEF Prepare, Goes, fetchVars, fileVars
  <2>10. CASE Unlink(c)
    BY <1>2, <2>10 DEF Unlink, Goes, RemoveBackup, fetchVars, fileVars
  <2>11. CASE Aside(c)
    BY <1>2, <2>11 DEF Aside, Goes, MayRename, fetchVars, fileVars
  <2>12. CASE Install(c)
    BY <1>2, <2>12 DEF Install, Goes, MayRename, fetchVars, fileVars
  <2>13. CASE Rollback(c)
    BY <1>2, <2>13 DEF Rollback, Goes, MayRename, fetchVars, fileVars
  <2>14. CASE Tidy(c)
    BY <1>2, <2>14 DEF Tidy, Goes, RemoveBackup, fetchVars, fileVars
  <2>15. CASE Exec(c)
    BY <1>2, <2>15 DEF Exec, Goes, BeginFetch, fetchVars, fileVars
  <2>16. CASE Kill(c)
    BY <1>2, <2>16 DEF Kill, BeginFetch, EndFetch, fetchVars, fileVars
  <2> QED
    BY <1>2, <2>1, <2>2, <2>3, <2>4, <2>5, <2>6, <2>7, <2>8, <2>9, <2>10, <2>11,
       <2>12, <2>13, <2>14, <2>15, <2>16 DEF Client
<1>3. CASE UNCHANGED vars
  BY <1>3 DEF vars, clientVars, fetchVars, fileVars
<1> QED
  BY <1>1, <1>2, <1>3 DEF Next

(* A second one becomes busy only by overlapping.                          *)
LEMMA NextSole == TypeOK /\ Sole /\ [Next]_vars => Sole'
<1> SUFFICES ASSUME TypeOK, Sole, [Next]_vars PROVE Sole'
  OBVIOUS
<1> USE UpdaterAssumption DEF TypeOK, Sole, Busy, Updating
<1>1. CASE Publish
  BY <1>1 DEF Publish, clientVars, fetchVars, fileVars
<1>2. ASSUME NEW c \in Clients, Client(c)
      PROVE  Sole'
  <2>1. CASE Redirect(c)
    BY <1>2, <2>1 DEF Redirect, ParseHttpsUrl, fetchVars, fileVars
  <2>2. CASE FetchFails(c)
    BY <1>2, <2>2 DEF FetchFails, Goes, BeginFetch, EndFetch, fetchVars, fileVars
  <2>3. CASE Start(c)
    BY <1>2, <2>3 DEF Start, Goes, BeginFetch, fetchVars, fileVars
  <2>4. CASE ReadManifest(c)
    BY <1>2, <2>4 DEF ReadManifest, Goes, BeginFetch, EndFetch, fetchVars, fileVars
  <2>5. CASE SkipUpdate(c)
    BY <1>2, <2>5 DEF SkipUpdate, Goes, fetchVars, fileVars
  <2>6. CASE StartUpdater(c)
    BY <1>2, <2>6 DEF StartUpdater, Goes, BeginFetch, ParseHttpsUrl, fetchVars,
       fileVars
  <2>7. CASE Download(c)
    BY <1>2, <2>7 DEF Download, Goes, BeginFetch, EndFetch, fetchVars, fileVars
  <2>8. CASE Verify(c)
    BY <1>2, <2>8 DEF Verify, Goes, fetchVars, fileVars
  <2>9. CASE Prepare(c)
    BY <1>2, <2>9 DEF Prepare, Goes, fetchVars, fileVars
  <2>10. CASE Unlink(c)
    BY <1>2, <2>10 DEF Unlink, Goes, RemoveBackup, fetchVars, fileVars
  <2>11. CASE Aside(c)
    BY <1>2, <2>11 DEF Aside, Goes, MayRename, fetchVars, fileVars
  <2>12. CASE Install(c)
    BY <1>2, <2>12 DEF Install, Goes, MayRename, fetchVars, fileVars
  <2>13. CASE Rollback(c)
    BY <1>2, <2>13 DEF Rollback, Goes, MayRename, fetchVars, fileVars
  <2>14. CASE Tidy(c)
    BY <1>2, <2>14 DEF Tidy, Goes, RemoveBackup, fetchVars, fileVars
  <2>15. CASE Exec(c)
    <3>1. /\ pc[c] = "exec" /\ UNCHANGED overlapped
          /\ \E to \in {"manifest", "failed"} : pc' = [pc EXCEPT ![c] = to]
      BY <2>15 DEF Exec, Goes
    <3> QED
      BY <1>2, <3>1
  <2>16. CASE Kill(c)
    BY <1>2, <2>16 DEF Kill, BeginFetch, EndFetch, fetchVars, fileVars
  <2> QED
    BY <1>2, <2>1, <2>2, <2>3, <2>4, <2>5, <2>6, <2>7, <2>8, <2>9, <2>10, <2>11,
       <2>12, <2>13, <2>14, <2>15, <2>16 DEF Client
<1>3. CASE UNCHANGED vars
  BY <1>3 DEF vars, clientVars, fetchVars, fileVars
<1> QED
  BY <1>1, <1>2, <1>3 DEF Next

(* Alone, an updater never removes the last copy or installs an older one. *)
LEMMA NextKept ==
  TypeOK /\ InHand /\ Sole /\ Alone /\ [Next]_vars => (~overlapped => Kept)'
<1> SUFFICES ASSUME TypeOK, InHand, Sole, Alone, [Next]_vars
             PROVE  (~overlapped => Kept)'
  OBVIOUS
<1> USE UpdaterAssumption DEF TypeOK, InHand, Sole, Alone, Kept, Files, Blocked, Busy,
       Updating, Fails, RenameFails
<1>1. CASE Publish
  BY <1>1 DEF Publish, clientVars, fetchVars, fileVars
<1>2. ASSUME NEW c \in Clients, Client(c)
      PROVE  (~overlapped => Kept)'
  <2>1. CASE Redirect(c)
    BY <1>2, <2>1 DEF Redirect, ParseHttpsUrl, fetchVars, fileVars
  <2>2. CASE FetchFails(c)
    BY <1>2, <2>2 DEF FetchFails, Goes, BeginFetch, EndFetch, fetchVars, fileVars
  <2>3. CASE Start(c)
    BY <1>2, <2>3 DEF Start, Goes, BeginFetch, fetchVars, fileVars
  <2>4. CASE ReadManifest(c)
    BY <1>2, <2>4 DEF ReadManifest, Goes, BeginFetch, EndFetch, fetchVars, fileVars
  <2>5. CASE SkipUpdate(c)
    BY <1>2, <2>5 DEF SkipUpdate, Goes, fetchVars, fileVars
  <2>6. CASE StartUpdater(c)
    BY <1>2, <2>6 DEF StartUpdater, Goes, BeginFetch, ParseHttpsUrl, fetchVars,
       fileVars
  <2>7. CASE Download(c)
    BY <1>2, <2>7 DEF Download, Goes, BeginFetch, EndFetch, fetchVars, fileVars
  <2>8. CASE Verify(c)
    BY <1>2, <2>8 DEF Verify, Goes, fetchVars, fileVars
  <2>9. CASE Prepare(c)
    BY <1>2, <2>9 DEF Prepare, Goes, fetchVars, fileVars
  <2>10. CASE Unlink(c)
    BY <1>2, <2>10 DEF Unlink, Goes, RemoveBackup, fetchVars, fileVars
  <2>11. CASE Aside(c)
    BY <1>2, <2>11 DEF Aside, Goes, MayRename, fetchVars, fileVars
  <2>12. CASE Install(c)
    BY <1>2, <2>12 DEF Install, Goes, MayRename, fetchVars, fileVars
  <2>13. CASE Rollback(c)
    BY <1>2, <2>13 DEF Rollback, Goes, MayRename, fetchVars, fileVars
  <2>14. CASE Tidy(c)
    BY <1>2, <2>14 DEF Tidy, Goes, RemoveBackup, fetchVars, fileVars
  <2>15. CASE Exec(c)
    BY <1>2, <2>15 DEF Exec, Goes, BeginFetch, fetchVars, fileVars
  <2>16. CASE Kill(c)
    BY <1>2, <2>16 DEF Kill, BeginFetch, EndFetch, fetchVars, fileVars
  <2> QED
    BY <1>2, <2>1, <2>2, <2>3, <2>4, <2>5, <2>6, <2>7, <2>8, <2>9, <2>10, <2>11,
       <2>12, <2>13, <2>14, <2>15, <2>16 DEF Client
<1>3. CASE UNCHANGED vars
  BY <1>3 DEF vars, clientVars, fetchVars, fileVars
<1> QED
  BY <1>1, <1>2, <1>3 DEF Next

(* Alone, an updater finds the files as its last step has left them.       *)
LEMMA NextFiles ==
  TypeOK /\ InHand /\ Sole /\ Alone /\ [Next]_vars =>
    (~overlapped => \A d \in Clients : Files(d))'
<1> SUFFICES ASSUME TypeOK, InHand, Sole, Alone, [Next]_vars
             PROVE  (~overlapped => \A d \in Clients : Files(d))'
  OBVIOUS
<1> USE UpdaterAssumption DEF TypeOK, InHand, Sole, Alone, Kept, Files, Blocked, Busy,
       Updating, Fails, RenameFails
<1>1. CASE Publish
  BY <1>1 DEF Publish, clientVars, fetchVars, fileVars
<1>2. ASSUME NEW c \in Clients, Client(c)
      PROVE  (~overlapped => \A d \in Clients : Files(d))'
  <2>1. CASE Redirect(c)
    BY <1>2, <2>1 DEF Redirect, ParseHttpsUrl, fetchVars, fileVars
  <2>2. CASE FetchFails(c)
    BY <1>2, <2>2 DEF FetchFails, Goes, BeginFetch, EndFetch, fetchVars, fileVars
  <2>3. CASE Start(c)
    BY <1>2, <2>3 DEF Start, Goes, BeginFetch, fetchVars, fileVars
  <2>4. CASE ReadManifest(c)
    BY <1>2, <2>4 DEF ReadManifest, Goes, BeginFetch, EndFetch, fetchVars, fileVars
  <2>5. CASE SkipUpdate(c)
    BY <1>2, <2>5 DEF SkipUpdate, Goes, fetchVars, fileVars
  <2>6. CASE StartUpdater(c)
    BY <1>2, <2>6 DEF StartUpdater, Goes, BeginFetch, ParseHttpsUrl, fetchVars,
       fileVars
  <2>7. CASE Download(c)
    BY <1>2, <2>7 DEF Download, Goes, BeginFetch, EndFetch, fetchVars, fileVars
  <2>8. CASE Verify(c)
    BY <1>2, <2>8 DEF Verify, Goes, fetchVars, fileVars
  <2>9. CASE Prepare(c)
    BY <1>2, <2>9 DEF Prepare, Goes, fetchVars, fileVars
  <2>10. CASE Unlink(c)
    BY <1>2, <2>10 DEF Unlink, Goes, RemoveBackup, fetchVars, fileVars
  <2>11. CASE Aside(c)
    <3>1. SUFFICES ASSUME ~overlapped, NEW d \in Clients PROVE Files(d)'
      BY <2>11, <3>1 DEF Aside
    <3>2. c = d \/ pc[d] \notin Busy
      BY <3>1, <2>11 DEF Aside, Goes
    <3>3. Files(c) /\ Files(d) /\ Kept
      BY <1>2, <3>1, <2>11 DEF Aside
    <3>4. CASE /\ Goes(c, "aside", "install") /\ MayRename(target, backup)
               /\ backup' = target /\ target' = None
               /\ UNCHANGED <<temporary, trouble>>
      BY <1>2, <2>11, <3>1, <3>2, <3>3, <3>4 DEF Aside, Goes, MayRename
    <3>5. CASE /\ Goes(c, "aside", "failed") /\ UNCHANGED fileVars
               /\ RenameFails(c, target, backup)
      <4>1. c \in trouble' \/ Blocked
        BY <1>2, <3>3, <3>5 DEF MayRename, Goes
      <4>2. trouble \subseteq trouble' /\ version' = version
        BY <2>11, <3>5 DEF Aside
      <4> QED
        BY <1>2, <2>11, <3>1, <3>2, <3>3, <3>5, <4>1, <4>2 DEF Aside, Goes, fileVars
    <3> QED
      BY <2>11, <3>4, <3>5 DEF Aside
  <2>12. CASE Install(c)
    BY <1>2, <2>12 DEF Install, Goes, MayRename, fetchVars, fileVars
  <2>13. CASE Rollback(c)
    BY <1>2, <2>13 DEF Rollback, Goes, MayRename, fetchVars, fileVars
  <2>14. CASE Tidy(c)
    BY <1>2, <2>14 DEF Tidy, Goes, RemoveBackup, fetchVars, fileVars
  <2>15. CASE Exec(c)
    BY <1>2, <2>15 DEF Exec, Goes, BeginFetch, fetchVars, fileVars
  <2>16. CASE Kill(c)
    BY <1>2, <2>16 DEF Kill, BeginFetch, EndFetch, fetchVars, fileVars
  <2> QED
    BY <1>2, <2>1, <2>2, <2>3, <2>4, <2>5, <2>6, <2>7, <2>8, <2>9, <2>10, <2>11,
       <2>12, <2>13, <2>14, <2>15, <2>16 DEF Client
<1>3. CASE UNCHANGED vars
  BY <1>3 DEF vars, clientVars, fetchVars, fileVars
<1> QED
  BY <1>1, <1>2, <1>3 DEF Next

(* The invariant holds in the initial state.                               *)
LEMMA InitIndInv == Init => TypeOK /\ IndInv
<1> USE UpdaterAssumption DEF Init
<1>1. ASSUME Init PROVE TypeOK
  <2>1. 0 \in 0..MaxRedirects
    OBVIOUS
  <2>2. redirects \in [Clients -> 0..MaxRedirects]
    BY <1>1, <2>1
  <2>3. First \in Releases
    OBVIOUS
  <2> QED
    BY <1>1, <2>2, <2>3 DEF TypeOK
<1>2. Init => InHand /\ Vacant /\ Sole /\ Alone
  BY DEF InHand, Vacant, Sole, Alone, Kept, Files, Busy, Updating
<1> QED
  BY <1>1, <1>2 DEF IndInv

(* The inductive invariant of the update.                                  *)
THEOREM UpdaterInvariant == Spec => [](TypeOK /\ IndInv)
<1>1. TypeOK /\ IndInv /\ [Next]_vars => (TypeOK /\ IndInv)'
  BY NextTypeOK, NextInHand, NextVacant, NextSole, NextKept, NextFiles DEF IndInv,
     Alone
<1> QED
  BY InitIndInv, <1>1, PTL DEF Spec

(* Wherever updaters are killed and whichever of their calls fail, a whole *)
(* client is left: under its name or the backup's unless updaters of a     *)
(* single file overlap, and else at least in the hands of one of them.     *)
THEOREM UpdaterCopyRemains == Spec => []CopyRemains
<1>1. IndInv => CopyRemains
  BY UpdaterAssumption DEF IndInv, Vacant, Alone, Kept, CopyRemains
<1> QED
  BY <1>1, UpdaterInvariant, PTL

(* Every request is to an HTTPS address, and only the release an updater   *)
(* was started for is ever installed by it.                                *)
THEOREM UpdaterTrusted == Spec => []Trusted
<1>1. IndInv => Trusted
  BY DEF IndInv, InHand, Trusted
<1> QED
  BY <1>1, UpdaterInvariant, PTL

(* What the client takes for newer does come later.                        *)
LEMMA NewerIsLater ==
  ASSUME NEW v \in Seq(Nat), NEW w \in Seq(Nat), IsNewer(v, w)
  PROVE  Older(w, v)
<1>1. PICK i \in 1..Len(v) : /\ Part(v, i) > Part(w, i)
                             /\ \A j \in 1..(i - 1) : Part(v, j) = Part(w, j)
  BY DEF IsNewer
<1> DEFINE part(u, k) == IF k \in DOMAIN u THEN u[k] ELSE 0
<1>2. \A k \in Nat \ {0} : part(v, k) = Part(v, k) /\ part(w, k) = Part(w, k)
  BY DEF Part
<1>3. part(w, i) < part(v, i) /\ part(w, i) # part(v, i)
  BY <1>1, <1>2 DEF Part
<1>4. \A j \in DOMAIN w \cup DOMAIN v : part(w, j) # part(v, j) => i <= j
  BY <1>1, <1>2
<1> QED
  BY <1>3, <1>4 DEF Older

(* Unless two updates overlap, none replaces a client by an older one,     *)
(* whatever releases there are.                                            *)
THEOREM UpdaterNoDowngrade == Spec => []NoDowngrade
<1>1. TypeOK /\ IndInv => NoDowngrade
  BY NewerIsLater, UpdaterAssumption DEF TypeOK, IndInv, Alone, Kept, NoDowngrade
<1> QED
  BY <1>1, UpdaterInvariant, PTL

(* Unless two updates overlap, an updater gives up only over a failed call *)
(* of its own or, in a bundle, over the backup of an earlier update.       *)
THEOREM UpdaterInstalls == Spec => []Installs
<1>1. IndInv => Installs
  BY DEF IndInv, Alone, Files, Blocked, Installs
<1> QED
  BY <1>1, UpdaterInvariant, PTL

-----------------------------------------------------------------------------
(* The settings.                                                           *)

(* A save is pending exactly while its thread runs; before the rename it   *)
(* has written the pending bindings to the temporary file and left the     *)
(* file alone. The file holds the bindings in use, unless it could not be  *)
(* read at the start and no save has replaced it since.                    *)
SaveInv ==
  /\ pending = None <=> saver = "idle"
  /\ pending # None => pending \in S!Valid
  /\ saver = "replace" => beside = pending
  /\ saver \in {"clean", "open", "write", "replace"} => ~saved
  /\ screen \in {"menu", "settings"} =>
       S!Read(file) = IF saver = "done" /\ saved THEN pending
                      ELSE IF unread = None THEN inUse ELSE unread
  /\ saver = "done" /\ saved => unread = None
  /\ screen = "loading" => saver = "idle"

SettingsInv == S!TypeOK /\ S!Usable /\ SaveInv

(* None is no assignment of keys, and every valid one is an assignment.    *)
LEMMA NoneIsNoBinding ==
  ASSUME S!SettingsAssumption
  PROVE  /\ None \notin S!Bindings
         /\ S!Valid \subseteq S!Bindings /\ Default \in S!Valid
BY DEF S!SettingsAssumption, S!Valid

(* Whatever a file holds, valid bindings are read from it.                 *)
LEMMA ReadIsValid ==
  ASSUME S!SettingsAssumption
  PROVE  \A f : S!Read(f) \in S!Valid
BY NoneIsNoBinding DEF S!Read

(* Rebinding an action yields valid bindings again.                        *)
LEMMA RebindIsValid ==
  ASSUME draft \in S!Valid, NEW a \in Actions, NEW k \in Keys
  PROVE  S!Rebind(a, k) \in S!Valid
BY DEF S!Rebind, S!Valid, S!Bindings

(* The invariant holds in the initial states.                              *)
LEMMA InitSettings ==
  ASSUME S!SettingsAssumption
  PROVE  S!Init => SettingsInv
BY NoneIsNoBinding DEF S!Init, SettingsInv, S!TypeOK, S!Usable, SaveInv, S!Valid

(* Starting again, after a crash or after the window was closed.           *)
LEMMA StartAgainSettings ==
  ASSUME S!SettingsAssumption
  PROVE  SettingsInv /\ S!StartAgain => SettingsInv'
BY NoneIsNoBinding
   DEF SettingsInv, S!TypeOK, S!Usable, SaveInv, S!Valid, S!StartAgain, S!diskVars

(* The player's edits, one step for each.                                  *)
LEMMA EditSettings ==
  ASSUME S!SettingsAssumption
  PROVE  SettingsInv /\ S!Edit => SettingsInv'
<1> SUFFICES ASSUME SettingsInv, S!Edit PROVE SettingsInv'
  OBVIOUS
<1> USE NoneIsNoBinding DEF SettingsInv, S!TypeOK, S!Usable, SaveInv, S!Valid
<1>1. CASE S!Open
  BY <1>1 DEF S!Open, S!diskVars, S!saveVars, S!Read
<1>2. CASE S!Save
  BY <1>2 DEF S!Save, S!BeginSave, S!diskVars, S!editVars, S!Read
<1>3. CASE S!ResetDefaults
  BY <1>3 DEF S!ResetDefaults, S!BeginSave, S!diskVars, S!Read
<1>4. CASE S!Back
  BY <1>4 DEF S!Back, S!diskVars, S!saveVars, S!Read
<1>5. ASSUME NEW a \in Actions, S!Select(a) PROVE SettingsInv'
  BY <1>5 DEF S!Select, S!diskVars, S!saveVars, S!Read
<1>6. ASSUME NEW k \in Keys, S!PressKey(k) PROVE SettingsInv'
  <2>1. capture \in Actions
    BY <1>6 DEF S!PressKey
  <2>2. draft' \in S!Bindings /\ S!Validate(draft')
    BY <1>6, <2>1, RebindIsValid DEF S!PressKey
  <2>3. capture' \in Actions \cup {None} /\ touched' \subseteq Actions
    BY <1>6, <2>1 DEF S!PressKey
  <2> QED
    BY <1>6, <2>2, <2>3 DEF S!PressKey, S!diskVars, S!saveVars, S!Read
<1> QED
  BY <1>1, <1>2, <1>3, <1>4, <1>5, <1>6 DEF S!Edit

(* The thread that saves, one step for each.                               *)
LEMMA SaverSettings ==
  ASSUME S!SettingsAssumption
  PROVE  SettingsInv /\ S!Saver => SettingsInv'
<1> SUFFICES ASSUME SettingsInv, S!Saver PROVE SettingsInv'
  OBVIOUS
<1> USE NoneIsNoBinding DEF SettingsInv, S!TypeOK, S!Usable, SaveInv, S!Valid,
       S!SaverGoes, S!editVars
<1>1. CASE S!Clean
  BY <1>1 DEF S!Clean, S!Read
<1>2. CASE S!OpenTemporary
  BY <1>2 DEF S!OpenTemporary, S!Read
<1>3. CASE S!Write
  BY <1>3 DEF S!Write, S!Read
<1>4. CASE S!AtomicReplace
  <2>1. file' = pending /\ pending \in S!Valid /\ saver' = "done" /\ saved' = TRUE
    BY <1>4 DEF S!AtomicReplace
  <2> QED
    BY <1>4, <2>1 DEF S!AtomicReplace, S!Read
<1>5. CASE S!SaveFails
  BY <1>5 DEF S!SaveFails, S!Read
<1> QED
  BY <1>1, <1>2, <1>3, <1>4, <1>5 DEF S!Saver

(* Every step preserves the invariant.                                     *)
LEMMA NextSettings ==
  ASSUME S!SettingsAssumption
  PROVE  SettingsInv /\ [S!Next]_S!vars => SettingsInv'
<1> SUFFICES ASSUME SettingsInv, [S!Next]_S!vars PROVE SettingsInv'
  OBVIOUS
<1>1. CASE S!Load
  <2> USE NoneIsNoBinding DEF S!LoadResults, S!Valid
  <2>1. S!Read(file) \in S!Valid
    BY ReadIsValid
  <2>2. PICK b \in {S!Read(file), Default} :
          /\ inUse' = b /\ draft' = b
          /\ unread' = IF b = S!Read(file) THEN None ELSE S!Read(file)
    BY <1>1 DEF S!Load
  <2> QED
    BY <1>1, <2>1, <2>2 DEF S!Load, SettingsInv, S!TypeOK, S!Usable, SaveInv,
       S!diskVars, S!saveVars, S!Read
<1>2. CASE S!Edit
  BY <1>2, EditSettings
<1>3. CASE S!SaveResult
  BY <1>3, NoneIsNoBinding
     DEF S!SaveResult, SettingsInv, S!TypeOK, S!Usable, SaveInv, S!Valid,
         S!diskVars, S!editVars, S!Read
<1>4. CASE S!Saver
  BY <1>4, SaverSettings
<1>5. CASE S!Close
  BY <1>5 DEF S!Close, SettingsInv, S!TypeOK, S!Usable, SaveInv, S!diskVars,
     S!saveVars, S!editVars
<1>6. CASE S!Restart \/ S!Kill
  BY <1>6, StartAgainSettings DEF S!Restart, S!Kill
<1>7. CASE UNCHANGED S!vars
  BY <1>7 DEF S!vars, S!diskVars, S!saveVars, S!editVars, SettingsInv, S!TypeOK,
     S!Usable, SaveInv,
              S!Validate, S!Read
<1> QED
  BY <1>1, <1>2, <1>3, <1>4, <1>5, <1>6, <1>7 DEF S!Next

(* The inductive invariant of the settings.                                *)
THEOREM SettingsInvariant ==
  ASSUME S!SettingsAssumption
  PROVE  S!Spec => []SettingsInv
<1> QED
  BY InitSettings, NextSettings, PTL DEF S!Spec

(* Every variable of the settings keeps its type.                          *)
THEOREM SettingsTypeOK ==
  ASSUME S!SettingsAssumption
  PROVE  S!Spec => []S!TypeOK
<1>1. SettingsInv => S!TypeOK
  BY DEF SettingsInv
<1> QED
  BY <1>1, SettingsInvariant, PTL

(* Whichever saves are interrupted or fail, the file holds the bindings in *)
(* use, the ones being saved, or what this start could not read of it.     *)
THEOREM SettingsRestartKeepsBindings ==
  ASSUME S!SettingsAssumption
  PROVE  S!Spec => []RestartKeepsBindings
<1>1. S!Read(file) = Read(file)
  BY DEF Read, S!Read, Valid, S!Valid, Bindings, S!Bindings, Validate, S!Validate
<1>2. SettingsInv => RestartKeepsBindings
  BY <1>1 DEF SettingsInv, SaveInv, RestartKeepsBindings
<1> QED
  BY <1>2, SettingsInvariant, PTL

(* No key ever serves two actions.                                         *)
THEOREM SettingsUsable ==
  ASSUME S!SettingsAssumption
  PROVE  S!Spec => []S!Usable
<1>1. SettingsInv => S!Usable
  BY DEF SettingsInv
<1> QED
  BY <1>1, SettingsInvariant, PTL
=============================================================================
