------------------------------- MODULE Duel -------------------------------
(***************************************************************************)
(* What the rest of the match server relies on when it runs a Room: the    *)
(* snapshot's clock, status and result. Which blow ends the duel, and      *)
(* when, is left open. Match steps this abstraction; Room implements it.   *)
(***************************************************************************)
EXTENDS Naturals

CONSTANTS
  Players,             (* The two participants.                            *)
  NoPlayer,            (* The empty WinnerID of a running or drawn duel.   *)
  CountdownTicks,      (* Ruleset.CountdownTicks.                          *)
  MatchDurationTicks   (* Ruleset.MatchDurationTicks.                      *)

VARIABLE room          (* The authoritative Room, as its Snapshot shows it. *)

Statuses  == {"countdown", "active", "finished"}
Snapshots == [tick : Nat, status : Statuses, winner : Players \cup {NoPlayer},
              reason : {"none", "ko", "time_limit"}]

InitialRoom ==
  [tick |-> 0, status |-> "countdown", winner |-> NoPlayer, reason |-> "none"]

Countdown(r) ==
  [r EXCEPT !.tick = @ + 1,
            !.status = IF r.tick + 1 >= CountdownTicks THEN "active" ELSE @]

Ended(r, w, why) ==
  [tick |-> r.tick + 1, status |-> "finished", winner |-> w, reason |-> why]

TimeIsUp(r) == (r.tick + 1) - CountdownTicks >= MatchDurationTicks

(* Every state in which one Room.Step may leave the Room r.                *)
Steps(r) ==
  CASE r.status = "finished"  -> {r}
    [] r.status = "countdown" -> {Countdown(r)}
    [] OTHER ->
         {Ended(r, w, "ko") : w \in Players \cup {NoPlayer}}
         \cup IF TimeIsUp(r)
              THEN {Ended(r, w, "time_limit") : w \in Players \cup {NoPlayer}}
              ELSE {[r EXCEPT !.tick = @ + 1]}

(* A duel on its own.                                                      *)
DuelSpec == room = InitialRoom /\ [][room' \in Steps(room)]_room
=============================================================================
