----------------------------- MODULE MCUpdater -----------------------------
(* Two starts of the client, one behind the other or at once, and four     *)
(* releases, two of which differ only in how their version is written.     *)
EXTENDS Updater, TLC

CONSTANTS c1, c2

MCClients  == {c1, c2}
Symmetry   == Permutations(MCClients)
MCReleases == {<<1>>, <<1, 0>>, <<1, 1>>, <<2>>}
MCFirst    == <<1>>
=============================================================================
