---------------------------- MODULE KeyBindings ----------------------------
(***************************************************************************)
(* What a key may do, and what a player is promised about it: the          *)
(* InputBindings of game/input/input.cpp, what SettingsStore::Load makes   *)
(* of the file, and the part of the client's state that shows whether a    *)
(* change is kept. Module Settings says how it changes.                    *)
(***************************************************************************)
CONSTANTS
  Actions,   (* What a key may be bound to.                                *)
  Keys,      (* InputCode.                                                 *)
  Default    (* InputBindings::Defaults.                                   *)

VARIABLES
  file,        (* The settings file.                                       *)
  screen,      (* "loading" until settingsLoaded; "closing" once the       *)
               (* window is closed.                                        *)
  inUse,       (* inputBindings.                                           *)
  pending,     (* pendingBindings.                                         *)
  unread       (* The bindings of a file that was there when the client    *)
               (* started, but could not be opened or read (history).      *)

Bindings == [Actions -> Keys]

(* InputBindings::Validate: no key serves two actions.                     *)
Validate(b) == \A x, y \in Actions : b[x] = b[y] => x = y
Valid == {b \in Bindings : Validate(b)}

(* What a file says; a document that ParseSettings rejects counts as none. *)
Read(f) == IF f \in Valid THEN f ELSE Default

(* SettingsStore::Load: a file that cannot be opened, or not be read to    *)
(* its end, gives the defaults, and is left as it is.                      *)
LoadResults(f) == {Read(f), Default}

(* Wherever a save is interrupted and whichever of its calls fails, the    *)
(* file holds the bindings in use, or those that are being saved, and      *)
(* never less (settings_store.cpp:163-186). A start that cannot read its   *)
(* file uses the defaults; the file then goes on holding what the player   *)
(* had until a save has replaced it as a whole.                            *)
RestartKeepsBindings ==
  screen \in {"menu", "settings"} => Read(file) \in {inUse, pending, unread}
=============================================================================
