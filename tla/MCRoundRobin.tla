---------------------------- MODULE MCRoundRobin ----------------------------
(* Two backends and two requests with three attempts each.                 *)
EXTENDS RoundRobin, TLC

CONSTANTS r1, r2

MCReqs == {r1, r2}
MCWeight == 1 :> 1 @@ 2 :> 2
MCMul == 0 :> 1 @@ 1 :> 1 @@ 2 :> 2 @@ 3 :> 2
=============================================================================
