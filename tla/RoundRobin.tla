----------------------------- MODULE RoundRobin -----------------------------
(***************************************************************************)
(* How the balancer's requests choose among backends: TConnIterator        *)
(* (modules/balancer/iterator.h) over the two round robin policies, "rr"   *)
(* (rrobin.cpp) and "srr" (smartrr.cpp).                                   *)
(*                                                                         *)
(* Both policies name the backend of least weight and make it heavier: by  *)
(* its configured weight, or by a step that depends on how its requests    *)
(* have ended.  A request asks again while it is given a backend that it   *)
(* has tried; it does not yield meanwhile.  Weights are kept relative to   *)
(* the least one, since only their order is ever used.  The code has       *)
(* doubles; here the configured weights are positive multiples of a unit,  *)
(* and sums are exact.                                                     *)
(***************************************************************************)
EXTENDS Naturals, Sequences, FiniteSets

CONSTANTS
    Reqs,      \* requests that may be in the balancer at once
    N,         \* BackEnds_->Size(); a backend is its place in memory
    Attempts,  \* the configured number of attempts
    Weight,    \* the configured weight of each backend
    Mul,       \* what srr multiplies its step by, per state (1, 2, 8, 64)
    Window     \* requests srr judges a backend by (10)

BackEnds == 1..N
None == 0

ASSUME SizeAssumption == N \in Nat \ {0} /\ Attempts \in Nat /\ Window \in Nat
ASSUME WeightAssumption == Weight \in [BackEnds -> Nat \ {0}]
ASSUME MulAssumption == Mul \in [0..3 -> Nat \ {0}]
ASSUME ReqsAssumption == None \notin Reqs /\ IsFiniteSet(Reqs)

VARIABLES
    policy,    \* "rr" or "srr"
    weight,    \* Weight_ of each backend, less the least of them
    state,     \* State_ of each backend; 4 for any value beyond 3
    complete,  \* CntComplete_
    fail,      \* CntFail_
    tried,     \* Attempts_ of each request's iterator
    at,        \* the backend a request is at, or None
    asking,    \* the request inside TConnIterator::Next, or None
    step,      \* what a backend's weight last grew by
    named,     \* named[b][d]: times b was named since d was last named
    well       \* a backend that from now on answers every request, or None

counts == <<complete, fail>>
vars == <<policy, weight, state, counts, tried, at, asking, step, named, well>>

(* srr does not initialise State_: it has any value.                       *)
Init ==
    /\ policy \in {"rr", "srr"}
    /\ weight = [b \in BackEnds |-> IF policy = "rr" THEN Weight[b] ELSE 1]
    /\ state \in [BackEnds -> IF policy = "rr" THEN {0} ELSE 0..4]
    /\ complete = [b \in BackEnds |-> 0]
    /\ fail = [b \in BackEnds |-> 0]
    /\ tried = [r \in Reqs |-> <<>>]
    /\ at = [r \in Reqs |-> None]
    /\ asking = None
    /\ step = weight
    /\ named = [b \in BackEnds |-> [d \in BackEnds |-> 0]]
    /\ well = None

-----------------------------------------------------------------------------
(* TBackEnd::Compare and Servers_.Begin(): b comes before all others.      *)
First(b) ==
    \A d \in BackEnds : weight[b] < weight[d] \/ (weight[b] = weight[d] /\ b <= d)

(* Mutant of Judged: a window that ends without a verdict is not closed,   *)
(* and the failures in it are never forgotten.                             *)
JudgedForEver(b) ==
    CASE state[b] = 0 -> fail[b] > 0
      [] state[b] = 1 -> complete[b] + fail[b] > Window
                         /\ (fail[b] > complete[b] \/ fail[b] = 0)
      [] state[b] = 2 -> complete[b] + fail[b] > Window
      [] state[b] = 3 -> complete[b] > 0
      [] OTHER -> FALSE

(* UpdateState: the counters say enough about b to judge it ...            *)
Judged(b) ==
    CASE state[b] = 0 -> fail[b] > 0
      [] state[b] \in {1, 2} -> complete[b] + fail[b] > Window
      [] state[b] = 3 -> complete[b] > 0
      [] OTHER -> FALSE

(* ... and this is its state then.                                         *)
Verdict(b) ==
    CASE state[b] = 0 -> 1
      [] state[b] = 1 -> IF fail[b] > complete[b] THEN 2 ELSE IF fail[b] = 0 THEN 0 ELSE 1
      [] state[b] = 2 -> IF complete[b] = 0 THEN 3 ELSE IF complete[b] > fail[b] THEN 1 ELSE 2
      [] OTHER -> 2

NewState(b) == IF policy = "srr" /\ Judged(b) THEN Verdict(b) ELSE state[b]

(* Mutant of Growth: a backend that does not answer has no weight.         *)
GrowthUnlessDead(b) ==
    IF policy = "rr" THEN Weight[b]
    ELSE CASE NewState(b) = 3 -> 0 [] NewState(b) = 4 -> 1 [] OTHER -> Mul[NewState(b)]

(* IncUsageCount: what is added to the weight.                             *)
Growth(b) ==
    IF policy = "rr" THEN Weight[b]
    ELSE IF NewState(b) = 4 THEN 1 ELSE Mul[NewState(b)]

Rebased(w, m) == [d \in BackEnds |-> w[d] - m]

(* DoNext: the first backend is taken out of the tree, made heavier and    *)
(* put back.                                                               *)
DoNext(b) ==
    /\ First(b)
    /\ LET w == [weight EXCEPT ![b] = @ + Growth(b)]
       IN  \E m \in {w[d] : d \in BackEnds} :
              /\ \A d \in BackEnds : m <= w[d]
              /\ weight' = Rebased(w, m)
    /\ step' = [step EXCEPT ![b] = Growth(b)]
    /\ state' = [state EXCEPT ![b] = NewState(b)]
    /\ IF policy = "srr" /\ Judged(b)
       THEN /\ complete' = [complete EXCEPT ![b] = 0]
            /\ fail' = [fail EXCEPT ![b] = 0]
       ELSE UNCHANGED counts
    /\ named' = [c \in BackEnds |-> [d \in BackEnds |->
                    IF d = b THEN 0 ELSE IF c = b THEN named[c][d] + 1 ELSE named[c][d]]]

AlreadyHave(r, b) == \E i \in 1..Len(tried[r]) : tried[r][i] = b

(* Mutant of AsksAgain: whether any backend is left is not looked at.      *)
AsksUntilNew(r, b) == AlreadyHave(r, b)

(* The condition of the loop in TConnIterator::Next.                       *)
AsksAgain(r, b) == AlreadyHave(r, b) /\ Len(tried[r]) < N

(* One round of that loop: the request goes round, or to the backend.      *)
Ask(r, b) ==
    /\ asking = r
    /\ DoNext(b)
    /\ IF AsksAgain(r, b)
       THEN UNCHANGED <<asking, tried, at>>
       ELSE /\ tried' = [tried EXCEPT ![r] = Append(@, b)]
            /\ at' = [at EXCEPT ![r] = b]
            /\ asking' = None
    /\ UNCHANGED <<policy, well>>

(* A request comes to the balancer, which has attempts.                    *)
Begin(r) ==
    /\ asking = None
    /\ at[r] = None
    /\ Attempts > 0
    /\ asking' = r
    /\ UNCHANGED <<policy, weight, state, counts, tried, at, step, named, well>>

(* The counters stop where UpdateState cannot tell any more: in states 1   *)
(* and 2 it looks at both, and the requests at b may end before it looks.  *)
Cap == Window + Cardinality(Reqs)
CompleteCap(b) == CASE state[b] \in {1, 2} -> Cap [] state[b] = 3 -> 1 [] OTHER -> 0
FailCap(b) == CASE state[b] \in {1, 2} -> Cap [] state[b] = 0 -> 1 [] OTHER -> 0
Counted(n, cap) == IF n < cap THEN n + 1 ELSE n

(* The request leaves the balancer, and its iterator is gone.              *)
Leaves(r) ==
    /\ at' = [at EXCEPT ![r] = None]
    /\ tried' = [tried EXCEPT ![r] = <<>>]
    /\ UNCHANGED asking

(* OnCompleteRequest; rr only counts for its statistics.                   *)
Complete(r, b) ==
    /\ asking = None
    /\ at[r] = b
    /\ complete' = IF policy = "srr" THEN [complete EXCEPT ![b] = Counted(@, CompleteCap(b))] ELSE complete
    /\ Leaves(r)
    /\ UNCHANGED <<policy, weight, state, fail, step, named, well>>

(* OnFailRequest; the request tries again if it has attempts left and may  *)
(* (the arbiter, and whether the client has heard: see Balancer).          *)
Fail(r, b) ==
    /\ asking = None
    /\ at[r] = b
    /\ well # b
    /\ fail' = IF policy = "srr" THEN [fail EXCEPT ![b] = Counted(@, FailCap(b))] ELSE fail
    /\ \/ Leaves(r)
       \/ /\ Len(tried[r]) < Attempts
          /\ at' = [at EXCEPT ![r] = None]
          /\ asking' = r
          /\ UNCHANGED tried
    /\ UNCHANGED <<policy, weight, state, complete, step, named, well>>

(* An error that is not the backend's: neither is called.                  *)
Drop(r, b) ==
    /\ asking = None
    /\ at[r] = b
    /\ well # b
    /\ Leaves(r)
    /\ UNCHANGED <<policy, weight, state, counts, step, named, well>>

(* The environment: whatever ailed b has passed, at a moment when no       *)
(* request is out.                                                         *)
GetsWell(b) ==
    /\ asking = None
    /\ \A r \in Reqs : at[r] = None
    /\ well = None
    /\ policy = "srr"
    /\ well' = b
    /\ UNCHANGED <<policy, weight, state, counts, tried, at, asking, step, named>>

Next ==
    \/ \E b \in BackEnds : GetsWell(b)
    \/ \E r \in Reqs :
           \/ Begin(r)
           \/ \E b \in BackEnds : Ask(r, b) \/ Complete(r, b) \/ Fail(r, b) \/ Drop(r, b)

Spec == Init /\ [][Next]_vars

(* Requests keep coming, or attempts ending: no request has to.            *)
FairSpec == Spec /\ WF_vars(Next)

-----------------------------------------------------------------------------
TypeOK ==
    /\ policy \in {"rr", "srr"}
    /\ weight \in [BackEnds -> Nat]
    /\ state \in [BackEnds -> 0..4]
    /\ complete \in [BackEnds -> Nat]
    /\ fail \in [BackEnds -> Nat]
    /\ tried \in [Reqs -> Seq(BackEnds)]
    /\ at \in [Reqs -> BackEnds \cup {None}]
    /\ asking \in Reqs \cup {None}
    /\ step \in [BackEnds -> Nat \ {0}]
    /\ named \in [BackEnds -> [BackEnds -> Nat]]
    /\ well \in BackEnds \cup {None}

(* Bounded overtaking: between two turns of a backend no other one has     *)
(* more turns than the first one's last step of weight, and one.  Nothing  *)
(* in DoNext looks at the number of turns.                                 *)
Turns == \A b, d \in BackEnds : named[b][d] <= step[d] + 1

(* The loop of TConnIterator::Next, in which no other coroutine runs,      *)
(* always ends, also when a request has been at every backend.             *)
AskingEnds == \A r \in Reqs : asking = r ~> asking # r

(* A backend that srr has set back, and that answers all its requests from *)
(* some time on, gets its full share again.                                *)
Recovers == \A b \in BackEnds : well = b ~> [](state[b] \in {0, 4})
=============================================================================
