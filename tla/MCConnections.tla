--------------------------- MODULE MCConnections ----------------------------
(* Small instances of Connections.                                         *)
EXTENDS Connections, TLC

CONSTANTS c1, c2, c3, fd1, fd2, fd3

MCConns == {c1, c2, c3}
MCFds == {fd1, fd2, fd3}

Symmetry == Permutations(MCConns) \cup Permutations(MCFds)
=============================================================================
