------------------------------ MODULE MCServer ------------------------------
(* Small instances of Server.                                              *)
EXTENDS Server

CONSTANTS c1, c2, c3

MCConns3 == {c1, c2, c3}
=============================================================================
