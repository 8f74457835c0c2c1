---------------------------- MODULE MCGameServer ----------------------------
EXTENDS GameServer, TLC

Symmetry == Permutations(Clients)
=============================================================================
