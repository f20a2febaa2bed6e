----------------------------- MODULE MCBalancer -----------------------------
(***************************************************************************)
(* Balancer with model values for requests and backends.                   *)
(***************************************************************************)
EXTENDS Balancer, TLC

CONSTANTS
    r1, r2, r3,
    b1, b2, b3

MCRequests1 == {r1}
MCRequests2 == {r1, r2}
MCRequests3 == {r1, r2, r3}
MCBackends2 == {b1, b2}
MCBackends3 == {b1, b2, b3}

(* Requests are interchangeable, and so are backends.                      *)
Symmetry == Permutations(Requests) \cup Permutations(Backends)
=============================================================================
