--------------------------- MODULE CommandStream ---------------------------
(***************************************************************************)
(* What the player is promised about one-shot actions: commands are        *)
(* carried out by the room in the order in which they were issued, each    *)
(* once, none skipped; the client learns of it later, and has at most      *)
(* Window commands it does not know the fate of.                           *)
(***************************************************************************)
EXTENDS Naturals

CONSTANT Window

VARIABLES
  issued,    (* Commands 1..issued were issued by the player.              *)
  done,      (* Commands 1..done were carried out.                         *)
  known      (* Commands 1..known are known to be done.                    *)

vars == <<issued, done, known>>

Init == issued = 0 /\ done = 0 /\ known = 0

Issue ==
  /\ issued' \in Nat /\ issued' > issued /\ issued' - known <= Window
  /\ UNCHANGED <<done, known>>

CarryOut ==
  /\ done' \in Nat /\ done' > done /\ done' <= issued
  /\ UNCHANGED <<issued, known>>

Learn ==
  /\ known' \in Nat /\ known' > known /\ known' <= done
  /\ UNCHANGED <<issued, done>>

Next == Issue \/ CarryOut \/ Learn

Spec == Init /\ [][Next]_vars
=============================================================================
