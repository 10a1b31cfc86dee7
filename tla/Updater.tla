------------------------------ MODULE Updater ------------------------------
(***************************************************************************)
(* The client's self-update: update/client_updater.cpp, which runs in the  *)
(* starting client, update/updater.cpp, the program it is replaced by, and *)
(* update/https_fetch.h, which both use.                                   *)
(*                                                                         *)
(* An actor is one start of the client by the user and what becomes of it: *)
(* the client, then perhaps the updater, then the new client, one after    *)
(* the other. A release stands for its file, so two contents are equal if  *)
(* they have the same checksum. Files are replaced by rename, each of      *)
(* which is a step; anything may fail, and any process may be killed.      *)
(***************************************************************************)
EXTENDS Naturals, Sequences

CONSTANTS
  Clients,      (* Starts of the client by the user.                       *)
  Releases,     (* Versions that may be published, as their parts.         *)
  First,        (* The one installed to begin with.                        *)
  None,         (* No file, no content.                                    *)
  Bundle,       (* Whether the client is an .app directory (macOS) or a    *)
                (* single file (Linux).                                    *)
  MaxRedirects  (* kMaximumRedirects.                                      *)

ASSUME UpdaterAssumption ==
  /\ Releases \subseteq Seq(Nat) /\ First \in Releases
  /\ None \notin Releases
  /\ Bundle \in BOOLEAN /\ MaxRedirects \in Nat

VARIABLES
  pc,          (* Per client: where it is.                                 *)
  version,     (* Per client: the release the process was started from.    *)
  wanted,      (* Per client: the release the manifest named.              *)
  url,         (* Per client: where FetchHttps sends its next request.     *)
  redirects,   (* Per client: redirects followed by this FetchHttps.       *)
  content,     (* Per client: what was downloaded.                         *)
  temporary,   (* Per client: its file in the temporary directory.         *)
  target,      (* The installed client.                                    *)
  backup,      (* The file beside it with ".update.bak".                   *)
  latest,      (* The release the manifest names.                          *)
  trouble,     (* The clients with a call of their own that has failed     *)
               (* (history).                                               *)
  overlapped   (* A client was started while another one was checking for  *)
               (* an update or being updated (history).                    *)

fetchVars  == <<url, redirects>>
clientVars == <<pc, version, wanted, fetchVars, content, temporary>>
fileVars   == <<target, backup>>
vars       == <<clientVars, fileVars, latest, trouble, overlapped>>

Updating == {"artifact", "verify", "prepare", "unlink", "aside", "install",
             "rollback", "tidy", "exec"}
Busy == {"manifest", "check"} \cup Updating

Init ==
  /\ pc = [c \in Clients |-> "off"]
  /\ version = [c \in Clients |-> None] /\ wanted = [c \in Clients |-> None]
  /\ url = [c \in Clients |-> "none"]
  /\ redirects = [c \in Clients |-> 0]
  /\ content = [c \in Clients |-> None]
  /\ temporary = [c \in Clients |-> None]
  /\ target = First /\ backup = None
  /\ latest = First
  /\ trouble = {} /\ overlapped = FALSE

Goes(c, from, to) == pc[c] = from /\ pc' = [pc EXCEPT ![c] = to]
Fails(c) == trouble' = trouble \cup {c}

-----------------------------------------------------------------------------
(* Versions.                                                               *)

Part(v, i) == IF i <= Len(v) THEN v[i] ELSE 0

(* Mutant: the parts are compared as std::vector compares them, so that a  *)
(* longer version comes after the one it begins with. *)
IsNewerLexicographic(candidate, current) ==
  /\ candidate # << >> /\ current # << >>
  /\ \E i \in 1..Len(candidate) :
       /\ i > Len(current) \/ candidate[i] > Part(current, i)
       /\ \A j \in 1..(i - 1) : j <= Len(current) /\ candidate[j] = current[j]

(* A version that could not be parsed has no parts and is never compared.  *)
IsNewer(candidate, current) ==
  /\ candidate # << >> /\ current # << >>
  /\ \E i \in 1..Len(candidate) :
       /\ Part(candidate, i) > Part(current, i)
       /\ \A j \in 1..(i - 1) : Part(candidate, j) = Part(current, j)

(* The release workflow moves the manifest on; a version is never lowered. *)
Publish ==
  /\ \E r \in Releases \ {latest} :
       ~IsNewer(latest, r) /\ latest' = r
  /\ UNCHANGED <<clientVars, fileVars, trouble, overlapped>>

-----------------------------------------------------------------------------
(* FetchHttps.                                                             *)

ParseHttpsUrl(u) == u = "https"

BeginFetch(c, u) ==
  /\ url' = [url EXCEPT ![c] = u]
  /\ redirects' = [redirects EXCEPT ![c] = 0]

EndFetch(c) == BeginFetch(c, "none")

(* One more round of the loop, at the location the server named.           *)
Redirect(c) ==
  /\ pc[c] \in {"manifest", "artifact"}
  /\ redirects[c] < MaxRedirects
  /\ \E u \in {"https", "http"} :
       ParseHttpsUrl(u) /\ url' = [url EXCEPT ![c] = u]
  /\ redirects' = [redirects EXCEPT ![c] = @ + 1]
  /\ UNCHANGED <<pc, version, wanted, content, temporary, fileVars, latest,
                 trouble, overlapped>>

(* No answer, an error status, one redirect too many, or to another scheme. *)
FetchFails(c) ==
  /\ \/ Goes(c, "manifest", "running")
     \/ Goes(c, "artifact", "failed")
  /\ EndFetch(c) /\ Fails(c)
  /\ UNCHANGED <<version, wanted, content, temporary, fileVars, latest,
                 overlapped>>

-----------------------------------------------------------------------------
(* The client: main and CheckAndStart.                                     *)

Start(c) ==
  /\ Goes(c, "off", "manifest")
  /\ target # None
  /\ version' = [version EXCEPT ![c] = target]
  /\ BeginFetch(c, "https")
  /\ overlapped' = (overlapped \/ \E d \in Clients \ {c} : pc[d] \in Busy)
  /\ UNCHANGED <<wanted, content, temporary, fileVars, latest, trouble>>

ReadManifest(c) ==
  /\ Goes(c, "manifest", "check")
  /\ wanted' = [wanted EXCEPT ![c] = latest]
  /\ EndFetch(c)
  /\ UNCHANGED <<version, content, temporary, fileVars, latest, trouble,
                 overlapped>>

(* Nothing newer, a manifest that is of no use, or no updater to start.    *)
SkipUpdate(c) ==
  /\ Goes(c, "check", "running")
  /\ UNCHANGED <<version, wanted, fetchVars, content, temporary, fileVars,
                 latest, trouble, overlapped>>

(* The client exits; the updater it has forked takes over.                 *)
StartUpdater(c) ==
  /\ Goes(c, "check", "artifact")
  /\ IsNewer(wanted[c], version[c])
  /\ \E u \in {"none", "http", "https"} : ParseHttpsUrl(u) /\ BeginFetch(c, u)
  /\ UNCHANGED <<version, wanted, content, temporary, fileVars, latest, trouble,
                 overlapped>>

-----------------------------------------------------------------------------
(* The updater: main.                                                      *)

(* What arrives is the release, or something else.                         *)
Download(c) ==
  /\ Goes(c, "artifact", "verify")
  /\ \E r \in Releases : content' = [content EXCEPT ![c] = r]
  /\ EndFetch(c)
  /\ UNCHANGED <<version, wanted, temporary, fileVars, latest, trouble,
                 overlapped>>

(* Mutant: the checksum is not compared. *)
VerifyNothing(c) ==
  /\ Goes(c, "verify", "prepare")
  /\ UNCHANGED <<version, wanted, fetchVars, content, temporary, fileVars,
                 latest, trouble, overlapped>>

Verify(c) ==
  /\ Goes(c, "verify", IF content[c] = wanted[c] THEN "prepare" ELSE "failed")
  /\ IF content[c] = wanted[c] THEN UNCHANGED trouble ELSE Fails(c)
  /\ UNCHANGED <<version, wanted, fetchVars, content, temporary, fileVars,
                 latest, overlapped>>

(* The temporary file, made executable or, for a bundle, unpacked; after a *)
(* failure nothing of it is left.                                          *)
Prepare(c) ==
  /\ \/ /\ Goes(c, "prepare", "unlink")
        /\ temporary' = [temporary EXCEPT ![c] = content[c]]
        /\ UNCHANGED trouble
     \/ /\ Goes(c, "prepare", "failed") /\ Fails(c)
        /\ UNCHANGED temporary
  /\ UNCHANGED <<version, wanted, fetchVars, content, fileVars, latest,
                 overlapped>>

(* std::filesystem::remove, its result ignored: it may fail, and does so   *)
(* for a directory with something in it, which a bundle always is.         *)
RemoveBackup == UNCHANGED backup \/ (~Bundle /\ backup' = None)

Unlink(c) ==
  /\ Goes(c, "unlink", "aside")
  /\ RemoveBackup
  /\ UNCHANGED <<version, wanted, fetchVars, content, temporary, target, latest,
                 trouble, overlapped>>

(* Mutant: what has the name already is in the way. *)
MayRenameToVacant(from, to) == from # None /\ to = None

(* A file may be renamed over another one, a directory may not.            *)
MayRename(from, to) == from # None /\ (Bundle => to = None)

(* A rename that could have been made and was not is a failed call.        *)
RenameFails(c, from, to) ==
  IF MayRename(from, to) THEN Fails(c) ELSE UNCHANGED trouble

Aside(c) ==
  /\ \/ /\ Goes(c, "aside", "install")
        /\ MayRename(target, backup)
        /\ backup' = target /\ target' = None
        /\ UNCHANGED <<temporary, trouble>>
     \/ /\ Goes(c, "aside", "failed")
        /\ temporary' = [temporary EXCEPT ![c] = None]
        /\ RenameFails(c, target, backup)
        /\ UNCHANGED fileVars
  /\ UNCHANGED <<version, wanted, fetchVars, content, latest, overlapped>>

Install(c) ==
  /\ \/ /\ Goes(c, "install", "tidy")
        /\ MayRename(temporary[c], target)
        /\ target' = temporary[c]
        /\ temporary' = [temporary EXCEPT ![c] = None]
        /\ UNCHANGED trouble
     \/ /\ Goes(c, "install", "rollback")
        /\ RenameFails(c, temporary[c], target)
        /\ UNCHANGED <<target, temporary>>
  /\ UNCHANGED <<version, wanted, fetchVars, content, backup, latest, overlapped>>

(* Mutant: the new client cannot be put in place and the old one is left   *)
(* where it is removed next.                                               *)
RollbackRemoving(c) ==
  /\ Goes(c, "rollback", "failed")
  /\ backup' = None
  /\ UNCHANGED <<version, wanted, fetchVars, content, temporary, target, latest,
                 trouble, overlapped>>

Rollback(c) ==
  /\ Goes(c, "rollback", "failed")
  /\ \/ /\ MayRename(backup, target)
        /\ target' = backup /\ backup' = None
     \/ UNCHANGED fileVars
  /\ temporary' = [temporary EXCEPT ![c] = IF Bundle THEN None ELSE @]
  /\ UNCHANGED <<version, wanted, fetchVars, content, latest, trouble, overlapped>>

Tidy(c) ==
  /\ Goes(c, "tidy", "exec")
  /\ RemoveBackup
  /\ UNCHANGED <<version, wanted, fetchVars, content, temporary, target, latest,
                 trouble, overlapped>>

(* The new client begins like any other, if it can be executed.            *)
Exec(c) ==
  /\ \/ /\ target # None
        /\ Goes(c, "exec", "manifest")
        /\ version' = [version EXCEPT ![c] = target]
        /\ BeginFetch(c, "https") /\ UNCHANGED trouble
     \/ /\ Goes(c, "exec", "failed")
        /\ IF target # None THEN Fails(c) ELSE UNCHANGED trouble
        /\ UNCHANGED <<version, fetchVars>>
  /\ UNCHANGED <<wanted, content, temporary, fileVars, latest, overlapped>>

(* A client or an updater is killed.                                       *)
Kill(c) ==
  /\ pc[c] \notin {"off", "gone"}
  /\ pc' = [pc EXCEPT ![c] = "gone"]
  /\ EndFetch(c)
  /\ UNCHANGED <<version, wanted, content, temporary, fileVars, latest, trouble,
                 overlapped>>

Client(c) ==
  \/ Redirect(c) \/ FetchFails(c)
  \/ Start(c) \/ ReadManifest(c) \/ SkipUpdate(c) \/ StartUpdater(c)
  \/ Download(c) \/ Verify(c) \/ Prepare(c) \/ Unlink(c) \/ Aside(c)
  \/ Install(c) \/ Rollback(c) \/ Tidy(c) \/ Exec(c) \/ Kill(c)

Next == Publish \/ \E c \in Clients : Client(c)

Spec == Init /\ [][Next]_vars

-----------------------------------------------------------------------------
(* Properties.                                                             *)

(* A client in the hands of an updater that is about to install it, or     *)
(* could not.                                                              *)
Holds(c) ==
  pc[c] \in {"install", "rollback", "failed", "gone"} /\ temporary[c] # None

(* Wherever an updater is killed and whichever call fails, a whole client  *)
(* is left under its own name or the backup's (updater.cpp:125-135). If    *)
(* the user has started the client again meanwhile, one updater may remove *)
(* the other's backup: of a single file, no more may then be left than     *)
(* what an updater holds in the temporary directory, even once it has      *)
(* failed or was killed; of a bundle, nothing is ever lost.                *)
CopyRemains ==
  \/ target # None \/ backup # None
  \/ overlapped /\ ~Bundle /\ \E c \in Clients : Holds(c)

(* Every request goes to an HTTPS address, redirects included              *)
(* (https_fetch.h:76-78), and what is installed has the checksum of the    *)
(* release the installing updater was started for.                         *)
Trusted ==
  \A c \in Clients :
    /\ pc[c] \in {"manifest", "artifact"} => url[c] = "https"
    /\ pc[c] \in {"unlink", "aside", "install"} => temporary[c] = wanted[c]

(* v comes before w: where they first differ, a missing part being zero, v *)
(* has the lower part.                                                     *)
Older(v, w) ==
  LET part(u, i) == IF i \in DOMAIN u THEN u[i] ELSE 0
      differ     == {i \in DOMAIN v \cup DOMAIN w : part(v, i) # part(w, i)}
  IN  \E i \in differ : part(v, i) < part(w, i) /\ \A j \in differ : i <= j

(* An update never replaces a client by an older or equal one, however the *)
(* manifest moves on while an updater downloads and however the versions   *)
(* are written (client_updater.cpp:49-64), unless two overlap.             *)
NoDowngrade ==
  ~overlapped /\ target # None /\ backup # None => Older(backup, target)

(* Unless two overlap, an updater gives up only over a failed call of its  *)
(* own: what an earlier one has left, wherever it was killed or failed, is *)
(* never in the way of a single file (updater.cpp:125-126). Nothing but an *)
(* old backup is ever in the way of a bundle (updater.cpp:100-102).        *)
Installs ==
  ~overlapped =>
    \A c \in Clients :
      pc[c] = "failed" => c \in trouble \/ (Bundle /\ backup # None)

(* client-updates.md:12-14: "downloads the AppImage over HTTPS, checks its *)
(* SHA-256, replaces the current AppImage atomically": whoever starts the  *)
(* client finds the old one or the new one.                                *)
ReplacedAtomically == target # None
-----------------------------------------------------------------------------
(* What the properties rest on, proved in FilesProofs.                     *)

TypeOK ==
  /\ pc \in [Clients -> Busy \cup {"off", "running", "failed", "gone"}]
  /\ version \in [Clients -> Releases \cup {None}]
  /\ wanted \in [Clients -> Releases \cup {None}]
  /\ url \in [Clients -> {"none", "https"}]
  /\ redirects \in [Clients -> 0..MaxRedirects]
  /\ content \in [Clients -> Releases \cup {None}]
  /\ temporary \in [Clients -> Releases \cup {None}]
  /\ target \in Releases \cup {None} /\ backup \in Releases \cup {None}
  /\ latest \in Releases
  /\ trouble \subseteq Clients /\ overlapped \in BOOLEAN

(* What an updater has in hand at each of its steps.                       *)
InHand ==
  \A c \in Clients :
    /\ pc[c] \in {"manifest", "artifact"} => url[c] = "https"
    /\ pc[c] \in Updating \cup {"check"} => wanted[c] # None
    /\ pc[c] \in Updating => IsNewer(wanted[c], version[c])
    /\ pc[c] = "prepare" => content[c] = wanted[c]
    /\ pc[c] \in {"unlink", "aside", "install"} => temporary[c] = wanted[c]

(* While the client's name is vacant there is a backup, which nothing      *)
(* removes of a bundle, or an updater that holds a single file.            *)
Vacant ==
  target = None => IF Bundle THEN backup # None ELSE \E c \in Clients : Holds(c)

(* While no two overlap, only the one that is busy moves files.            *)
Sole ==
  ~overlapped =>
    \A c, d \in Clients : pc[c] \in Busy /\ pc[d] \in Busy => c = d

(* The remains of an update of a bundle, which block every later one.      *)
Blocked == Bundle /\ target # None /\ backup # None

(* The client that the busy one was started from is under its own name     *)
(* until it is taken aside, and beside it until the new one is installed.  *)
Files(c) ==
  /\ pc[c] \in {"manifest", "check", "artifact", "verify", "prepare", "unlink",
               "aside"} => target # None /\ target = version[c]
  /\ pc[c] \in {"install", "rollback"} => target = None /\ backup = version[c]
  /\ pc[c] \in {"tidy", "exec"} => target # None
  /\ pc[c] = "rollback" => c \in trouble
  /\ pc[c] = "failed" => c \in trouble \/ Blocked

Kept ==
  /\ target # None \/ backup # None
  /\ target # None /\ backup # None => IsNewer(target, backup)

Alone == ~overlapped => Kept /\ \A c \in Clients : Files(c)

IndInv == InHand /\ Vacant /\ Sole /\ Alone
=============================================================================
