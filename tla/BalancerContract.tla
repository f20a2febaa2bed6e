-------------------------- MODULE BalancerContract --------------------------
(***************************************************************************)
(* What the balancer module promises the client of each request, whatever  *)
(* backends it tries in between: everything that reaches the client comes  *)
(* from one attempt, and the request ends once, with a verdict that agrees *)
(* with what the client has been told.                                     *)
(***************************************************************************)
EXTENDS Naturals

CONSTANTS
    Requests,
    Attempts    \* the attempts a request may make

VARIABLES
    voice,      \* the attempt the client hears, 0 while it has heard none
    gone,       \* the client no longer receives anything
    verdict     \* how the request ended, "none" while it has not

vars == <<voice, gone, verdict>>

Verdicts == {"none", "ok", "rethrown", "incomplete", "refused", "exhausted"}

Init ==
    /\ voice = [r \in Requests |-> 0]
    /\ gone = [r \in Requests |-> FALSE]
    /\ verdict = [r \in Requests |-> "none"]

(* An attempt may start to speak only to a client that is there and has    *)
(* heard no other attempt.                                                 *)
MaySpeak(r, a) == a = voice[r] \/ (voice[r] = 0 /\ ~gone[r])

(* A request that ends without an answer (no attempt authorised or left)   *)
(* has told a client that is still there nothing, so that its caller can   *)
(* send an error instead; one that ends as incomplete has told it some.    *)
Agrees(a, g, v) ==
    /\ v \in {"refused", "exhausted"} => a = 0 \/ g
    /\ v = "incomplete" => a # 0 \/ g

Serve(r, a, g, v) ==
    /\ verdict[r] = "none"
    /\ gone[r] => g
    /\ MaySpeak(r, a)
    /\ Agrees(a, g, v)
    /\ voice' = [voice EXCEPT ![r] = a]
    /\ gone' = [gone EXCEPT ![r] = g]
    /\ verdict' = [verdict EXCEPT ![r] = v]

Next ==
    \E r \in Requests, a \in 0 .. Attempts, g \in BOOLEAN, v \in Verdicts :
        Serve(r, a, g, v)

Spec == Init /\ [][Next]_vars
=============================================================================
