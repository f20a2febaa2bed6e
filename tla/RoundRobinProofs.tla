--------------------------- MODULE RoundRobinProofs -------------------------
(***************************************************************************)
(* Proofs about RoundRobin, for any number of backends and requests, any   *)
(* positive whole weights and multipliers.                                 *)
(***************************************************************************)
EXTENDS RoundRobin, FiniteSetTheorems, TLAPS

(* The weight a backend had when it was last named was the least, and      *)
(* every turn of another one since has made that one heavier by one or     *)
(* more.                                                                   *)
Lag ==
    \A b, d \in BackEnds :
        /\ named[b][b] = 0
        /\ b # d => weight[d] + named[b][d] <= weight[b] + step[d]

IInv == TypeOK /\ Lag /\ Turns

LEMMA NewStateType ==
    ASSUME TypeOK, NEW b \in BackEnds
    PROVE  NewState(b) \in 0..4
  <1>1. Verdict(b) \in 0..3
    BY DEF Verdict
  <1> QED
    BY <1>1, SMTT(60) DEF NewState, TypeOK

LEMMA GrowthType ==
    ASSUME TypeOK, NEW b \in BackEnds
    PROVE  Growth(b) \in Nat \ {0}
  BY NewStateType, WeightAssumption, MulAssumption DEF Growth

(* What DoNext does to the weights: b is heavier by its growth and all are *)
(* lighter by the same.                                                    *)
LEMMA DoNextWeights ==
    ASSUME TypeOK, NEW b \in BackEnds, DoNext(b)
    PROVE  \E m \in Nat : \A d \in BackEnds :
               /\ m <= IF d = b THEN weight[b] + Growth(b) ELSE weight[d]
               /\ weight'[d] + m = IF d = b THEN weight[b] + Growth(b) ELSE weight[d]
  <1> DEFINE w == [weight EXCEPT ![b] = @ + Growth(b)]
  <1>0. weight \in [BackEnds -> Nat] /\ Growth(b) \in Nat
    BY GrowthType, SMTT(60) DEF TypeOK
  <1>1. w \in [BackEnds -> Nat] /\ \A d \in BackEnds :
            w[d] = IF d = b THEN weight[b] + Growth(b) ELSE weight[d]
    BY <1>0
  <1>2. PICK m \in {w[d] : d \in BackEnds} :
            (\A d \in BackEnds : m <= w[d]) /\ weight' = Rebased(w, m)
    BY DEF DoNext
  <1> HIDE DEF w
  <1>3. m \in Nat
    BY <1>1, <1>2
  <1>4. \A d \in BackEnds : weight'[d] + m = w[d]
    BY <1>1, <1>2, <1>3 DEF Rebased
  <1> QED
    BY <1>1, <1>2, <1>3, <1>4

LEMMA DoNextType ==
    ASSUME TypeOK, NEW b \in BackEnds, DoNext(b)
    PROVE  /\ weight' \in [BackEnds -> Nat]
           /\ step' \in [BackEnds -> Nat \ {0}]
           /\ state' \in [BackEnds -> 0..4]
           /\ complete' \in [BackEnds -> Nat] /\ fail' \in [BackEnds -> Nat]
           /\ named' \in [BackEnds -> [BackEnds -> Nat]]
  <1>1. weight' \in [BackEnds -> Nat]
    <2> DEFINE w == [weight EXCEPT ![b] = @ + Growth(b)]
    <2>0. weight \in [BackEnds -> Nat] /\ Growth(b) \in Nat
      BY GrowthType, SMTT(60) DEF TypeOK
    <2>1. w \in [BackEnds -> Nat]
      BY <2>0
    <2>2. PICK m \in {w[d] : d \in BackEnds} :
              (\A d \in BackEnds : m <= w[d]) /\ weight' = Rebased(w, m)
      BY DEF DoNext
    <2> HIDE DEF w
    <2> QED
      BY <2>1, <2>2 DEF Rebased
  <1>2. step' \in [BackEnds -> Nat \ {0}]
    BY GrowthType, Zenon DEF DoNext, TypeOK
  <1>3. state' \in [BackEnds -> 0..4]
    BY NewStateType, Zenon DEF DoNext, TypeOK
  <1>4. complete' \in [BackEnds -> Nat] /\ fail' \in [BackEnds -> Nat]
    <2>1. \/ complete' = [complete EXCEPT ![b] = 0] /\ fail' = [fail EXCEPT ![b] = 0]
          \/ complete' = complete /\ fail' = fail
      BY DEF DoNext, counts
    <2>2. complete \in [BackEnds -> Nat] /\ fail \in [BackEnds -> Nat]
      BY SMTT(60) DEF TypeOK
    <2>3. complete' \in [BackEnds -> Nat]
      BY <2>1, <2>2
    <2>4. fail' \in [BackEnds -> Nat]
      BY <2>1, <2>2
    <2> QED
      BY <2>3, <2>4
  <1>5. named' \in [BackEnds -> [BackEnds -> Nat]]
    <2>1. named' = [c \in BackEnds |-> [d \in BackEnds |->
                     IF d = b THEN 0 ELSE IF c = b THEN named[c][d] + 1 ELSE named[c][d]]]
      BY DEF DoNext
    <2>2. \A c, d \in BackEnds : named[c][d] \in Nat
      BY DEF TypeOK
    <2> QED
      BY <2>1, <2>2
  <1> QED
    BY <1>1, <1>2, <1>3, <1>4, <1>5

(* Naming a backend keeps the lag, and the turns, within their bounds.     *)
LEMMA DoNextTurns ==
    ASSUME TypeOK, Lag, Turns, NEW b \in BackEnds, DoNext(b)
    PROVE  Lag' /\ Turns'
  <1>1. PICK m \in Nat : \A d \in BackEnds :
            weight'[d] + m = IF d = b THEN weight[b] + Growth(b) ELSE weight[d]
    BY DoNextWeights
  <1>2. Growth(b) \in Nat \ {0}
    BY GrowthType
  <1>3. \A d \in BackEnds : weight[b] <= weight[d]
    <2>1. First(b)
      BY DEF DoNext
    <2>2. \A d \in BackEnds : weight[d] \in Nat
      BY DEF TypeOK
    <2> QED
      BY <2>1, <2>2 DEF First
  <1>4. /\ \A d \in BackEnds : step'[d] = IF d = b THEN Growth(b) ELSE step[d]
        /\ \A c, d \in BackEnds : named'[c][d] =
               IF d = b THEN 0 ELSE IF c = b THEN named[c][d] + 1 ELSE named[c][d]
    BY DEF DoNext, TypeOK
  <1>5. weight' \in [BackEnds -> Nat] /\ step' \in [BackEnds -> Nat \ {0}]
    BY DoNextType
  <1>6. ASSUME NEW c \in BackEnds, NEW d \in BackEnds
        PROVE  named'[c][c] = 0 /\ (c # d => weight'[d] + named'[c][d] <= weight'[c] + step'[d])
    <2>1. weight[c] \in Nat /\ weight[d] \in Nat /\ weight'[c] \in Nat /\ weight'[d] \in Nat
      BY <1>5 DEF TypeOK
    <2>2. named[c][d] \in Nat /\ step[d] \in Nat
      BY DEF TypeOK
    <2>3. named'[c][c] = 0
      BY <1>4 DEF Lag
    <2>4. CASE d = b
      BY <1>1, <1>2, <1>3, <1>4, <2>1, <2>3, <2>4
    <2>5. CASE d # b /\ c = b
      <3>1. weight[d] + named[c][d] <= weight[c] + step[d]
        BY <2>5 DEF Lag
      <3>2. weight'[c] + m = weight[c] + Growth(b) /\ weight'[d] + m = weight[d]
        BY <1>1, <2>5
      <3>3. named'[c][d] = named[c][d] + 1 /\ step'[d] = step[d]
        BY <1>4, <2>5
      <3>4. weight'[d] + named'[c][d] <= weight'[c] + step'[d]
        BY <1>1, <1>2, <2>1, <2>2, <3>1, <3>2, <3>3
      <3> QED
        BY <2>3, <3>4
    <2>6. CASE d # b /\ c # b
      BY <1>1, <1>4, <2>1, <2>2, <2>3, <2>6 DEF Lag
    <2> QED
      BY <2>4, <2>5, <2>6
  <1>7. ASSUME NEW c \in BackEnds, NEW d \in BackEnds
        PROVE  named'[c][d] <= step'[d] + 1
    <2>1. named[c][d] \in Nat /\ step[d] \in Nat /\ weight[b] \in Nat /\ weight[d] \in Nat
      BY DEF TypeOK
    <2>2. CASE d = b
      BY <1>2, <1>4, <2>2
    <2>3. CASE d # b /\ c = b
      <3>1. weight[d] + named[b][d] <= weight[b] + step[d]
        BY <2>3 DEF Lag
      <3> QED
        BY <1>3, <1>4, <2>1, <2>3, <3>1
    <2>4. CASE d # b /\ c # b
      BY <1>4, <2>4 DEF Turns
    <2> QED
      BY <2>2, <2>3, <2>4
  <1> QED
    BY <1>6, <1>7 DEF Lag, Turns

(* The inductive invariant holds in every state.                           *)
THEOREM Invariance == Spec => []IInv
  <1>1. Init => IInv
    <2> SUFFICES ASSUME Init PROVE IInv
      OBVIOUS
    <2>1. weight \in [BackEnds -> Nat \ {0}] /\ step = weight
      BY WeightAssumption DEF Init
    <2>2. state \in [BackEnds -> 0..4]
      BY DEF Init
    <2>3. TypeOK
      BY <2>1, <2>2 DEF Init, TypeOK
    <2>4. Lag /\ Turns
      BY <2>1 DEF Init, Lag, Turns
    <2> QED
      BY <2>3, <2>4 DEF IInv
  <1>2. IInv /\ [Next]_vars => IInv'
    <2> SUFFICES ASSUME IInv, [Next]_vars PROVE IInv'
      OBVIOUS
    <2>0. TypeOK /\ Lag /\ Turns
      BY DEF IInv
    <2>1. ASSUME NEW r \in Reqs, NEW b \in BackEnds, Ask(r, b) PROVE IInv'
      <3>1. DoNext(b) /\ policy' = policy /\ well' = well
        BY <2>1 DEF Ask
      <3>2. Lag' /\ Turns'
        BY <2>0, <3>1, DoNextTurns
      <3>3. tried' \in [Reqs -> Seq(BackEnds)]
        <4>1. tried' = tried \/ tried' = [tried EXCEPT ![r] = Append(@, b)]
          BY <2>1 DEF Ask
        <4>2. Append(tried[r], b) \in Seq(BackEnds)
          BY <2>0 DEF TypeOK
        <4> QED
          BY <2>0, <4>1, <4>2, Zenon DEF TypeOK
      <3>4. at' \in [Reqs -> BackEnds \cup {None}] /\ asking' \in Reqs \cup {None}
        BY <2>0, <2>1, ZenonT(60) DEF Ask, TypeOK
      <3>5. TypeOK'
        BY <2>0, <3>1, <3>3, <3>4, DoNextType, Zenon DEF TypeOK
      <3> QED
        BY <3>2, <3>5 DEF IInv
    <2>2. ASSUME NEW r \in Reqs, NEW b \in BackEnds,
                 Begin(r) \/ Complete(r, b) \/ Fail(r, b) \/ Drop(r, b)
          PROVE  IInv'
      <3>1. UNCHANGED <<policy, weight, state, step, named, well>>
        BY <2>2 DEF Begin, Complete, Fail, Drop
      <3>2. complete' \in [BackEnds -> Nat]
        <4>1. complete' = complete \/ complete' = [complete EXCEPT ![b] = Counted(@, CompleteCap(b))]
          BY <2>2 DEF Begin, Complete, Fail, Drop, counts
        <4>2. Counted(complete[b], CompleteCap(b)) \in Nat
          BY <2>0, SMTT(60) DEF TypeOK, Counted
        <4> QED
          BY <2>0, <4>1, <4>2, Zenon DEF TypeOK
      <3>3. fail' \in [BackEnds -> Nat]
        <4>1. fail' = fail \/ fail' = [fail EXCEPT ![b] = Counted(@, FailCap(b))]
          BY <2>2 DEF Begin, Complete, Fail, Drop, counts
        <4>2. Counted(fail[b], FailCap(b)) \in Nat
          BY <2>0, SMTT(60) DEF TypeOK, Counted
        <4> QED
          BY <2>0, <4>1, <4>2, Zenon DEF TypeOK
      <3>4. tried' \in [Reqs -> Seq(BackEnds)]
        <4>1. tried' = tried \/ tried' = [tried EXCEPT ![r] = <<>>]
          BY <2>2 DEF Begin, Complete, Fail, Drop, Leaves
        <4>2. tried \in [Reqs -> Seq(BackEnds)] /\ <<>> \in Seq(BackEnds)
          BY <2>0 DEF TypeOK
        <4> QED
          BY <4>1, <4>2, Zenon
      <3>5. at' \in [Reqs -> BackEnds \cup {None}] /\ asking' \in Reqs \cup {None}
        BY <2>0, <2>2 DEF Begin, Complete, Fail, Drop, Leaves, TypeOK
      <3> QED
        BY <2>0, <3>1, <3>2, <3>3, <3>4, <3>5, Zenon DEF IInv, TypeOK, Lag, Turns
    <2>3. CASE UNCHANGED vars
      BY <2>0, <2>3 DEF IInv, TypeOK, Lag, Turns, vars, counts
    <2>4. ASSUME NEW b \in BackEnds, GetsWell(b) PROVE IInv'
      BY <2>0, <2>4, SMTT(60) DEF GetsWell, counts, IInv, TypeOK, Lag, Turns
    <2>5. 1 \in BackEnds
      BY SizeAssumption DEF BackEnds
    <2> QED
      BY <2>1, <2>2, <2>3, <2>4, <2>5 DEF Next
  <1> QED
    BY <1>1, <1>2, PTL DEF Spec

(* Every variable keeps to its type; in particular no weight is negative.  *)
THEOREM TypeCorrect == Spec => []TypeOK
  <1>1. IInv => TypeOK
    BY DEF IInv
  <1> QED
    BY <1>1, Invariance, PTL

(* Overtaking is bounded under both policies, whatever state srr found in  *)
(* the memory of a backend and however its requests end.                   *)
THEOREM OvertakingBounded == Spec => []Turns
  <1>1. IInv => Turns
    BY DEF IInv
  <1> QED
    BY <1>1, Invariance, PTL

-----------------------------------------------------------------------------
(* The loop of TConnIterator::Next.                                        *)

(* The backends that a request has not been to.                            *)
Untried(r) == {b \in BackEnds : ~AlreadyHave(r, b)}

(* Fewer attempts than backends leave a backend out.                       *)
LEMMA SomeUntried ==
    ASSUME TypeOK, NEW r \in Reqs, Len(tried[r]) < N
    PROVE  Untried(r) # {}
  <1> SUFFICES ASSUME Untried(r) = {} PROVE FALSE
    OBVIOUS
  <1> DEFINE n == Len(tried[r])
  <1>1. n \in Nat /\ tried[r] \in [1..n -> BackEnds] /\ N \in Nat \ {0}
    BY SizeAssumption DEF TypeOK
  <1>2. \A b \in BackEnds : \E i \in 1..n : tried[r][i] = b
    BY DEF Untried, AlreadyHave
  <1>3. ExistsSurjection(1..n, BackEnds)
    BY <1>1, <1>2 DEF ExistsSurjection, Surjection
  <1>4. Cardinality(BackEnds) <= n
    BY <1>1, <1>3, FS_SurjCardinalityBound
  <1>5. Cardinality(BackEnds) = N
    BY <1>1, FS_Interval DEF BackEnds
  <1> QED
    BY <1>1, <1>4, <1>5

(* While a request goes round the loop, some backend is untried, the same  *)
(* ones stay so, and each round is one more turn of some backend since the *)
(* last turn of each of them; none can have more turns than Turns allows.  *)
RoundCounts ==
    \A r \in Reqs : asking = r /\ asking' = r =>
        /\ Untried(r) # {} /\ Untried(r)' = Untried(r)
        /\ \E b \in BackEnds \ Untried(r) : \A u \in Untried(r) :
               /\ step'[u] = step[u]
               /\ named'[b][u] = named[b][u] + 1
               /\ \A c \in BackEnds \ {b} : named'[c][u] = named[c][u]
               /\ named'[b][u] <= step[u] + 1

LoopIsBounded == [][RoundCounts]_vars

(* The loop of TConnIterator::Next goes round a bounded number of times:   *)
(* each round uses up one of the turns that the backends can have before   *)
(* an untried one has its own, and that one ends the loop.                 *)
THEOREM RoundsAreBounded == Spec => LoopIsBounded
  <1>1. IInv /\ IInv' /\ [Next]_vars => [RoundCounts]_vars
    <2> SUFFICES ASSUME IInv, IInv', Next, NEW r \in Reqs, asking = r, asking' = r
                 PROVE  /\ Untried(r) # {} /\ Untried(r)' = Untried(r)
                        /\ \E b \in BackEnds \ Untried(r) : \A u \in Untried(r) :
                               /\ step'[u] = step[u]
                               /\ named'[b][u] = named[b][u] + 1
                               /\ \A c \in BackEnds \ {b} : named'[c][u] = named[c][u]
                               /\ named'[b][u] <= step[u] + 1
      BY Zenon DEF RoundCounts
    <2>1. r # None
      BY ReqsAssumption
    <2>2. PICK b \in BackEnds : Ask(r, b)
      BY <2>1 DEF Next, Begin, Complete, Fail, Drop, GetsWell, Ask
    <2>3. DoNext(b) /\ AsksAgain(r, b) /\ tried' = tried
      BY <2>1, <2>2 DEF Ask
    <2>4. TypeOK /\ Turns' /\ Len(tried[r]) < N /\ b \notin Untried(r)
      BY <2>3 DEF IInv, AsksAgain, Untried
    <2>5. Untried(r) # {}
      BY <2>4, SomeUntried
    <2>6. Untried(r)' = Untried(r)
      BY <2>3 DEF Untried, AlreadyHave
    <2>7. ASSUME NEW u \in Untried(r)
          PROVE  /\ step'[u] = step[u]
                 /\ named'[b][u] = named[b][u] + 1
                 /\ \A c \in BackEnds \ {b} : named'[c][u] = named[c][u]
                 /\ named'[b][u] <= step[u] + 1
      <3>1. u \in BackEnds /\ u # b
        BY <2>4 DEF Untried
      <3>2. step'[u] = step[u]
        BY <2>3, <2>4, <3>1 DEF DoNext, TypeOK
      <3>3. \A c \in BackEnds : named'[c][u] = IF c = b THEN named[c][u] + 1 ELSE named[c][u]
        BY <2>3, <3>1 DEF DoNext
      <3>4. named'[b][u] <= step'[u] + 1
        BY <2>4, <3>1 DEF Turns
      <3> QED
        BY <3>2, <3>3, <3>4
    <2> QED
      BY <2>4, <2>5, <2>6, <2>7
  <1> QED
    BY <1>1, Invariance, PTL DEF Spec, LoopIsBounded
=============================================================================
