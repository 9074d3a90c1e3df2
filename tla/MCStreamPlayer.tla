--------------------------- MODULE MCStreamPlayer ---------------------------
(* Two request threads and the timer over a small number of players.       *)
EXTENDS StreamPlayer, TLC

CONSTANTS c1, c2, timer

MCClients == {c1, c2}
Symmetry  == Permutations(MCClients)
=============================================================================
