------------------------------ MODULE Settings ------------------------------
(***************************************************************************)
(* The key bindings of the client: platform/settings_store.cpp, the        *)
(* InputBindings of game/input/input.cpp and what the main loop of         *)
(* app/application_runtime.cpp does about them.                            *)
(*                                                                         *)
(* The main thread loads the file once, lets the player edit a draft and   *)
(* hands the draft to a thread that writes it to a temporary file and      *)
(* renames that over the old one. Every call to the file system is a step  *)
(* that may fail, and the client may be killed at any of them.             *)
(***************************************************************************)
EXTENDS KeyBindings

CONSTANTS
  None,      (* No file, no save, no action.                               *)
  Garbage    (* A file that is not a whole settings document.              *)

ASSUME SettingsAssumption ==
  /\ Default \in Valid
  /\ None \notin Bindings \cup Actions \cup {Garbage}
  /\ Garbage \notin Bindings

VARIABLES
  temporary,   (* The file beside it, with ".tmp".                         *)
  saver,       (* Where the thread of settingsSaveFuture is.               *)
  saved,       (* What it returns.                                         *)
  draft,       (* settingsDraft.                                           *)
  capture,     (* captureAction.                                           *)
  touched      (* The actions the player has rebound since the screen was  *)
               (* opened (history).                                        *)

diskVars == <<file, temporary>>
saveVars == <<saver, saved, pending>>
editVars == <<draft, capture, touched>>
vars == <<diskVars, saveVars, editVars, screen, inUse, unread>>

(* The file of an earlier run, perhaps edited by hand since.               *)
Init ==
  /\ file \in Bindings \cup {None, Garbage}
  /\ temporary = None
  /\ screen = "loading"
  /\ saver = "idle" /\ saved = FALSE /\ pending = None
  /\ inUse = Default /\ draft = Default /\ unread = None
  /\ capture = None /\ touched = {}

-----------------------------------------------------------------------------
(* settingsLoadFuture is ready.                                            *)

Load ==
  /\ screen = "loading" /\ screen' = "menu"
  /\ \E b \in LoadResults(file) :
       /\ inUse' = b /\ draft' = b
       /\ unread' = IF b = Read(file) THEN None ELSE Read(file)
  /\ UNCHANGED <<diskVars, saveVars, capture, touched>>

-----------------------------------------------------------------------------
(* The settings screen.                                                    *)

Open ==
  /\ screen = "menu" /\ screen' = "settings"
  /\ draft' = inUse /\ capture' = None /\ touched' = {}
  /\ UNCHANGED <<diskVars, saveVars, inUse, unread>>

Select(a) ==
  /\ screen = "settings" /\ capture' = a
  /\ UNCHANGED <<diskVars, saveVars, screen, inUse, unread, draft, touched>>

(* InputBindings::Rebind: the old bindings stay if the new ones are bad.   *)
Rebind(a, k) ==
  LET candidate == [draft EXCEPT ![a] = k]
  IN  IF Validate(candidate) THEN candidate ELSE draft

PressKey(k) ==
  /\ screen = "settings" /\ capture # None
  /\ draft' = Rebind(capture, k)
  /\ IF draft'[capture] = k
     THEN capture' = None /\ touched' = touched \cup {capture}
     ELSE UNCHANGED <<capture, touched>>
  /\ UNCHANGED <<diskVars, saveVars, screen, inUse, unread>>

(* beginSettingsSave. *)
BeginSave(bindings) ==
  /\ pending' = bindings
  /\ saver = "idle" /\ saver' = "clean" /\ saved' = FALSE

Save ==
  /\ screen = "settings"
  /\ BeginSave(draft)
  /\ UNCHANGED <<diskVars, editVars, screen, inUse, unread>>

ResetDefaults ==
  /\ screen = "settings"
  /\ draft' = Default /\ capture' = None /\ touched' = Actions
  /\ BeginSave(Default)
  /\ UNCHANGED <<diskVars, screen, inUse, unread>>

Back ==
  /\ screen = "settings" /\ screen' = "menu"
  /\ capture' = None
  /\ UNCHANGED <<diskVars, saveVars, inUse, unread, draft, touched>>

(* settingsSaveFuture is ready, whatever the screen.                       *)
SaveResult ==
  /\ saver = "done" /\ screen # "closing"
  /\ inUse' = IF saved THEN pending ELSE inUse
  /\ saver' = "idle" /\ pending' = None
  /\ UNCHANGED <<diskVars, editVars, saved, screen, unread>>

-----------------------------------------------------------------------------
(* SettingsStore::Save, in its thread.                                     *)

SaverGoes(from, to) ==
  /\ saver = from /\ saver' = to
  /\ UNCHANGED <<pending, editVars, screen, inUse>>

(* The directory is made and what an interrupted save left is removed.     *)
Clean ==
  /\ SaverGoes("clean", "open")
  /\ temporary' \in {None, temporary}
  /\ UNCHANGED <<file, saved, unread>>

(* Mutant: the old file is opened and written over. *)
OverwriteFile ==
  /\ SaverGoes("open", "write")
  /\ temporary' = Garbage /\ file' = Garbage
  /\ UNCHANGED <<saved, unread>>

OpenTemporary ==
  /\ SaverGoes("open", "write")
  /\ temporary' = Garbage
  /\ UNCHANGED <<file, saved, unread>>

Write ==
  /\ SaverGoes("write", "replace")
  /\ temporary' = pending
  /\ UNCHANGED <<file, saved, unread>>

AtomicReplace ==
  /\ SaverGoes("replace", "done")
  /\ file' = temporary /\ temporary' = None
  /\ saved' = TRUE /\ unread' = None

(* Any of them fails; what was written is removed if it can be.            *)
SaveFails ==
  /\ \/ /\ SaverGoes("clean", "done") \/ SaverGoes("open", "done")
        /\ UNCHANGED temporary
     \/ /\ SaverGoes("write", "done") \/ SaverGoes("replace", "done")
        /\ temporary' \in {None, temporary}
  /\ UNCHANGED <<file, saved, unread>>

-----------------------------------------------------------------------------
(* The end of a run of the client.                                         *)

Close ==
  /\ screen # "closing" /\ screen' = "closing"
  /\ UNCHANGED <<diskVars, saveVars, editVars, inUse, unread>>

(* A client starts with nothing but the files.                             *)
StartAgain ==
  /\ screen' = "loading"
  /\ saver' = "idle" /\ saved' = FALSE /\ pending' = None
  /\ inUse' = Default /\ draft' = Default /\ unread' = None
  /\ capture' = None /\ touched' = {}
  /\ UNCHANGED diskVars

(* The future's destructor waits for the thread before Run returns.        *)
Restart ==
  /\ screen = "closing" /\ saver \in {"idle", "done"}
  /\ StartAgain

(* The process is killed, and started again.                               *)
Kill == StartAgain

Edit  == \/ Open \/ Save \/ ResetDefaults \/ Back
         \/ \E a \in Actions : Select(a)
         \/ \E k \in Keys : PressKey(k)
Saver == Clean \/ OpenTemporary \/ Write \/ AtomicReplace \/ SaveFails
Next  == Load \/ Edit \/ SaveResult \/ Saver \/ Close \/ Restart \/ Kill

Spec == Init /\ [][Next]_vars

-----------------------------------------------------------------------------
(* Properties.                                                             *)

TypeOK ==
  /\ file \in Bindings \cup {None, Garbage}
  /\ temporary \in Bindings \cup {None, Garbage}
  /\ saver \in {"idle", "clean", "open", "write", "replace", "done"}
  /\ saved \in BOOLEAN
  /\ screen \in {"loading", "menu", "settings", "closing"}
  /\ inUse \in Bindings /\ draft \in Bindings
  /\ pending \in Bindings \cup {None} /\ unread \in Bindings \cup {None}
  /\ capture \in Actions \cup {None}
  /\ touched \subseteq Actions

(* Whatever the file holds and the player presses, no key ever serves two  *)
(* actions in a match, nor in the draft that is about to be saved.         *)
Usable == Validate(inUse) /\ Validate(draft)

(* The draft differs from the bindings in use only where the player has    *)
(* changed it, so that saving it takes back nothing that was saved before. *)
(* 0003-client-gameplay-architecture.md:427: "Смена binding применяется в  *)
(* следующем input frame и переживает restart" (a changed binding applies  *)
(* from the next input frame on and survives a restart).                   *)
DraftKeepsSaved ==
  screen = "settings" /\ pending = None =>
    \A a \in Actions \ touched : draft[a] = inUse[a]
=============================================================================
