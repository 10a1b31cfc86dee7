---------------------------- MODULE MCClientApp ----------------------------
(* One player with two accounts.                                           *)
EXTENDS ClientApp

CONSTANTS alice, bob

MCAccounts == {alice, bob}
=============================================================================
