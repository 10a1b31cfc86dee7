------------------------------- MODULE MCRoom -------------------------------
(* Short duels in small arenas for TLC. Axes outside -1..1 are what a      *)
(* client may send.                                                        *)
EXTENDS Room

West      == -1
SideMoves == {<<0, 0>>, <<-2, 0>>, <<1, 0>>}
=============================================================================
