---------------------------- MODULE MCSocketOut -----------------------------
(* Small instances of SocketOut.                                           *)
EXTENDS SocketOut, TLC

CONSTANTS s1, s2

MCSenders1 == {s1}
MCSenders2 == {s1, s2}

(* One chunk, a long chunk, and lists of two chunks.                       *)
MCMessages == {<<1>>, <<3>>, <<1, 2>>, <<2, 1>>}

Symmetry == Permutations({s1, s2})
=============================================================================
