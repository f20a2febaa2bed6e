------------------------------ MODULE MCProxy -------------------------------
(* A "maxqueue" that the longest request exceeds, and one that none does,  *)
(* like the default.                                                       *)
EXTENDS Proxy

MCQueues == {1, 3}
=============================================================================
