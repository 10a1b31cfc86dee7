----------------------------- MODULE ClientLoop -----------------------------
(***************************************************************************)
(* What the client's main loop promises about its screens, the futures it  *)
(* polls and the QuicClient they share. Module ClientApp says how they     *)
(* change.                                                                 *)
(***************************************************************************)
CONSTANT
  None         (* No account, no object, no future.                        *)

VARIABLES
  screen,
  future,         (* Per future: None, "running" or its result.            *)
  network,        (* The QuicClient.                                       *)
  borrowed,       (* The one that the thread of connectFuture uses.        *)
  controller,     (* The one the MatchController refers to.                *)
  queueOf,        (* The account the thread of queueFuture has acted for.  *)
  accepted        (* Accounts whose match this process has accepted, and   *)
                  (* has neither seen replaced by a new one nor forgotten  *)
                  (* by clearing its cleanup flag for another account      *)
                  (* (history).                                            *)

(* No thread and no controller is left with a QuicClient that has been     *)
(* destroyed or replaced (application_runtime.cpp:190-192, 272-276), as    *)
(* 0003-client-gameplay-architecture.md:160-161 demands of screens.        *)
NoDangling ==
  /\ future["connect"] = "running" => borrowed # None /\ borrowed = network
  /\ controller # None => controller = network

(* The futures a screen's buttons and polls assign.                        *)
Assigns(s) == CASE s = "Login" -> {"auth"}
                [] s = "Ready" -> {"queue", "logout"}
                [] s \in {"Result", "Waiting"} -> {"queue"}
                [] s = "QueuePending" -> {"connect"}
                [] OTHER -> {}

(* The loop never assigns a future whose thread still runs, which would    *)
(* block it (client-flow.md:14-15: "render loop raylib не блокируется").   *)
NeverBlocks == \A f \in Assigns(screen) : future[f] # "running"

(* A match that was accepted, and has ended or failed since, is never      *)
(* taken for a new one (application_runtime.cpp:263-264, "every exit path  *)
(* must clear the matched Gateway entry before another join"), whichever   *)
(* calls were lost, sessions lost and accounts logged in meanwhile: when   *)
(* the loop finds a match in a result, it is not one it has accepted. Only *)
(* what this process has forgotten is excepted: all at a restart, and the  *)
(* others' matches when one account's request has cleared its flag.        *)
NoStaleMatch ==
  screen = "QueuePending" /\ future["queue"] = "matched" => queueOf \notin accepted
=============================================================================
