----------------------------- MODULE MCPlayback -----------------------------
(* Three ticks in an arena two steps wide, for what is predicted and shown. *)
EXTENDS Playback

MCBothWays == {-1, 1}
MCStill == {0}
=============================================================================
