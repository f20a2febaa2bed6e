--------------------------- MODULE BalancerProofs ---------------------------
(***************************************************************************)
(* Proofs about the balancer's retry loop, for any number of requests,     *)
(* backends, attempts and chunks.                                          *)
(*                                                                         *)
(* The invariant is split along the groups of variables: a step changes    *)
(* the input of a request by Rewind or DoRecv, its loop by BeginAttempt or *)
(* Leave, and so on, whichever action of Next it belongs to (lemmas        *)
(* InputStep, LoopStep, ...), so that each part is proved on its own.      *)
(***************************************************************************)
EXTENDS Balancer, FiniteSetTheorems, TLAPS

-----------------------------------------------------------------------------
(* The inductive invariant.                                                *)

ArbiterType == arbiter \in Arbiters /\ FailRate \in Nat /\ Enabled \in BOOLEAN

StatType ==
    /\ Succ \in [Backends -> Nat]
    /\ Fail \in [Backends -> Nat]
    /\ Incomplete \in Nat
    /\ completed \in Nat

LoopType ==
    /\ verdict \in [Requests -> Verdicts]
    /\ running \in [Requests -> BOOLEAN]
    /\ attempts \in [Requests -> 0 .. Attempts]
    /\ tried \in [Requests -> Seq(Backends)]
    /\ retries \in Nat

InputType ==
    /\ Old \in [Requests -> Seq(Nat)]
    /\ Tmp \in [Requests -> Seq(Nat)]
    /\ arrived \in [Requests -> Nat]
    /\ seen \in [Requests -> Seq(Nat)]

OutputType ==
    /\ Written \in [Requests -> Nat]
    /\ gone \in [Requests -> BOOLEAN]
    /\ heard \in [Requests -> Seq(Nat)]

(* Where a request is: before its first attempt, inside an attempt, or     *)
(* done; and its attempts add up.                                          *)
LoopShape ==
    \A r \in Requests :
        /\ Len(tried[r]) + attempts[r] = Attempts
        /\ running[r] => verdict[r] = "none" /\ tried[r] # <<>>
        /\ verdict[r] = "none" /\ ~running[r] => tried[r] = <<>>

FreshInv ==
    \A r \in Requests : \A i, j \in DOMAIN tried[r] :
        i < j /\ j <= Cardinality(Backends) => tried[r][i] # tried[r][j]

(* Tmp_ holds what the attempt has read, and Old_ is given out whole, so   *)
(* one of the two is empty: that is why Rewind may append one to the       *)
(* other.                                                                  *)
ReplayInv ==
    \A r \in Requests :
        /\ seen[r] \o Old[r] = Body(arrived[r])
        /\ Tmp[r] = seen[r]
        /\ Old[r] = <<>> \/ Tmp[r] = <<>>

(* A client that is still there has heard the current attempt only, and    *)
(* has heard it exactly if the output has counted something.               *)
Voiced(r) ==
    /\ \A i, j \in DOMAIN heard[r] : heard[r][i] = heard[r][j]
    /\ \A i \in DOMAIN heard[r] : heard[r][i] \in 1 .. Attempts
    /\ ~gone[r] /\ heard[r] # <<>> =>
           /\ Written[r] > 0
           /\ \A i \in DOMAIN heard[r] : heard[r][i] = Len(tried[r])
    /\ ~gone[r] /\ Written[r] > 0 => heard[r] # <<>>
    /\ tried[r] = <<>> => heard[r] = <<>> /\ Written[r] = 0 /\ ~gone[r]

VoiceInv == \A r \in Requests : Voiced(r)

(* The additive arbiter's rate pays for the retries that the successes do  *)
(* not.                                                                    *)
BudgetInv ==
    arbiter = "additive" =>
        /\ retries * FailSummand <= FailRate + completed * SuccSummand
        /\ retries > 0 =>
               retries * FailSummand < AlarmValue + completed * SuccSummand

TypeInv == ArbiterType /\ StatType /\ LoopType /\ InputType /\ OutputType

IInv ==
    /\ TypeInv
    /\ LoopShape
    /\ FreshInv
    /\ ReplayInv
    /\ VoiceInv
    /\ BudgetInv
    /\ Hysteresis

-----------------------------------------------------------------------------
(* Appending nothing, in front or behind, changes nothing.                 *)
LEMMA ConcatEmpty ==
    ASSUME NEW S, NEW s \in Seq(S)
    PROVE  s \o <<>> = s /\ <<>> \o s = s
OBVIOUS

-----------------------------------------------------------------------------
(* What a step does to each group of variables.                            *)

(* A step changes a request's input as Rewind or DoRecv does.              *)
LEMMA InputStep ==
    ASSUME [Next]_vars
    PROVE  \/ \E r \in Requests : Rewind(r)
           \/ \E r \in Requests : DoRecv(r)
           \/ UNCHANGED inputVars
<1>1. ASSUME NEW r \in Requests, LoopHead(r) PROVE Rewind(r) \/ UNCHANGED inputVars
  BY <1>1 DEF LoopHead, BeginAttempt, Leave, inputVars
<1>2. ASSUME NEW r \in Requests, NEW e \in Errors, Catch(r, e)
      PROVE  Rewind(r) \/ UNCHANGED inputVars
  BY <1>1, <1>2 DEF Catch, Rethrow, FailOver, Leave
<1>3. QED
  BY <1>1, <1>2 DEF Next, vars, DoRun, DoSend, ClientGone, Complete, Leave, Throw, SendThrows

(* A step changes a request's loop as BeginAttempt or Leave does.          *)
LEMMA LoopStep ==
    ASSUME [Next]_vars
    PROVE  \/ \E r \in Requests : LoopHead(r) /\ DoRun(r)
           \/ \E r \in Requests : running[r] /\ LoopHead(r)
           \/ \E r \in Requests, v \in Verdicts \ {"none"} : running[r] /\ Leave(r, v)
           \/ UNCHANGED loopVars
<1>1. ASSUME NEW r \in Requests, NEW e \in Errors, running[r], Catch(r, e)
      PROVE  \/ LoopHead(r)
             \/ \E v \in Verdicts \ {"none"} : Leave(r, v)
  BY <1>1 DEF Catch, Rethrow, FailOver, Verdicts
<1>2. ASSUME NEW r \in Requests, Complete(r)
      PROVE  running[r] /\ \E v \in Verdicts \ {"none"} : Leave(r, v)
  BY <1>2 DEF Complete, Verdicts
<1>3. QED
  BY Zenon, <1>1, <1>2 DEF Next, vars, DoRun, DoRecv, DoSend, ClientGone, Throw, SendThrows

(* A step registers with the arbiter a success, or a failure that the      *)
(* arbiter may authorise a retry after, or nothing.                        *)
LEMMA ArbiterStep ==
    ASSUME LoopShape, [Next]_vars
    PROVE  \/ UNCHANGED <<arbiterVars, retries, completed>>
           \/ RegisterSucc /\ completed' = completed + 1 /\ retries' = retries
           \/ /\ RegisterFail
              /\ completed' = completed
              /\ \/ retries' = retries
                 \/ retries' = retries + 1 /\ Authorize(FailRate', Enabled')
<1>1. ASSUME NEW r \in Requests, DoRun(r)
      PROVE  UNCHANGED <<arbiterVars, retries, completed>>
  <2>1. tried[r] = <<>>
    BY <1>1 DEF DoRun, LoopShape
  <2>2. QED
    BY <1>1, <2>1 DEF DoRun, LoopHead, BeginAttempt, Leave, statVars
<1>2. ASSUME NEW r \in Requests, NEW e \in Errors, Rethrow(r, e)
      PROVE  UNCHANGED <<arbiterVars, retries, completed>>
  BY <1>2 DEF Rethrow, Leave, statVars
<1>3. ASSUME NEW r \in Requests, NEW e \in Errors, FailOver(r, e)
      PROVE  /\ RegisterFail
             /\ completed' = completed
             /\ \/ retries' = retries
                \/ retries' = retries + 1 /\ Authorize(FailRate', Enabled')
  BY <1>3 DEF FailOver, LoopHead, BeginAttempt, Leave
<1>4. ASSUME NEW r \in Requests, Complete(r)
      PROVE  RegisterSucc /\ completed' = completed + 1 /\ retries' = retries
  BY <1>4 DEF Complete, Leave
<1>5. ASSUME NEW r \in Requests, DoRecv(r) \/ DoSend(r) \/ ClientGone(r)
      PROVE  UNCHANGED <<arbiterVars, retries, completed>>
  BY Zenon, <1>5 DEF DoRecv, DoSend, ClientGone, loopVars, statVars
<1>6. QED
  BY <1>1, <1>2, <1>3, <1>4, <1>5
     DEF Next, vars, loopVars, statVars, Throw, SendThrows, Catch

-----------------------------------------------------------------------------
(* The parts of the invariant.                                             *)

(* The initial state satisfies it.                                         *)
LEMMA InitIInv == Init => IInv
<1> SUFFICES ASSUME Init PROVE IInv
  OBVIOUS
<1>1. TypeInv
  BY AttemptsAssumption
     DEF Init, TypeInv, ArbiterType, StatType, LoopType, InputType, OutputType, Verdicts
<1>2. LoopShape /\ FreshInv /\ VoiceInv
  BY AttemptsAssumption DEF Init, LoopShape, FreshInv, VoiceInv, Voiced
<1>3. ReplayInv
  BY DEF Init, ReplayInv, Body
<1>4. BudgetInv /\ Hysteresis
  BY ArbiterAssumption DEF Init, BudgetInv, Hysteresis
<1>5. QED
  BY <1>1, <1>2, <1>3, <1>4 DEF IInv

(* The arbiter's part: types, budget and hysteresis.                       *)
LEMMA ArbiterInv ==
    ASSUME IInv, [Next]_vars
    PROVE  ArbiterType' /\ BudgetInv' /\ Hysteresis'
<1> USE DEF Arbiters
<1>1. ArbiterType /\ BudgetInv /\ Hysteresis /\ LoopShape /\ retries \in Nat /\ completed \in Nat
  BY DEF IInv, TypeInv, LoopType, StatType
<1>2. CASE UNCHANGED <<arbiterVars, retries, completed>>
  BY <1>1, <1>2 DEF ArbiterType, BudgetInv, Hysteresis, arbiterVars
<1>3. CASE RegisterSucc /\ completed' = completed + 1 /\ retries' = retries
  <2>1. arbiter' = arbiter /\ FailRate' \in Nat
    BY <1>1, <1>3, ArbiterAssumption DEF RegisterSucc, ArbiterType, MeanAfter
  <2>2. Enabled' \in BOOLEAN
    BY <1>1, <1>3, Zenon DEF RegisterSucc, ArbiterType
  <2>3. ASSUME arbiter = "watermark"
        PROVE  FailRate' <= FailRate /\ Enabled' = (Enabled \/ FailRate' < LoWatermark)
    BY <1>1, <1>3, <2>3 DEF RegisterSucc, ArbiterType, MeanAfter
  <2>4. Hysteresis'
    <3> SUFFICES ASSUME arbiter = "watermark"
                 PROVE  /\ Enabled' => FailRate' <= HiWatermark
                        /\ ~Enabled' => FailRate' >= LoWatermark
      BY <2>1 DEF Hysteresis
    <3>1. CASE Enabled
      <4>1. Enabled'
        BY <2>3, <3>1, Zenon
      <4>2. FailRate <= HiWatermark
        BY <1>1, <3>1, Zenon DEF Hysteresis
      <4>3. FailRate' <= HiWatermark
        BY <1>1, <2>1, <2>3, <4>2, ArbiterAssumption DEF ArbiterType
      <4>4. QED
        BY <4>1, <4>3
    <3>2. CASE ~Enabled
      <4>1. Enabled' <=> FailRate' < LoWatermark
        BY <2>3, <3>2, Zenon
      <4>2. /\ FailRate' < LoWatermark => FailRate' <= HiWatermark
            /\ ~(FailRate' < LoWatermark) => FailRate' >= LoWatermark
        BY <2>1, ArbiterAssumption
      <4>3. QED
        BY <4>1, <4>2, Zenon
    <3>3. QED
      BY <1>1, <3>1, <3>2 DEF ArbiterType
  <2>5. BudgetInv'
    BY <1>1, <1>3, ArbiterAssumption DEF RegisterSucc, ArbiterType, BudgetInv, AlarmValue
  <2>6. QED
    BY <1>1, <2>1, <2>2, <2>4, <2>5 DEF ArbiterType
<1>4. CASE /\ RegisterFail
           /\ completed' = completed
           /\ \/ retries' = retries
              \/ retries' = retries + 1 /\ Authorize(FailRate', Enabled')
  <2>1. arbiter' = arbiter /\ FailRate' \in Nat
    BY <1>1, <1>4, ArbiterAssumption DEF RegisterFail, ArbiterType, MeanAfter
  <2>2. Enabled' \in BOOLEAN
    BY <1>1, <1>4, Zenon DEF RegisterFail, ArbiterType
  <2>3. ASSUME arbiter = "watermark"
        PROVE  FailRate' >= FailRate /\ Enabled' = (Enabled /\ ~(FailRate' > HiWatermark))
    BY <1>1, <1>4, <2>3, ArbiterAssumption DEF RegisterFail, ArbiterType, MeanAfter
  <2>4. Hysteresis'
    <3> SUFFICES ASSUME arbiter = "watermark"
                 PROVE  /\ Enabled' => FailRate' <= HiWatermark
                        /\ ~Enabled' => FailRate' >= LoWatermark
      BY <2>1 DEF Hysteresis
    <3>1. CASE Enabled
      <4>1. Enabled' <=> ~(FailRate' > HiWatermark)
        BY <2>3, <3>1, Zenon
      <4>2. /\ ~(FailRate' > HiWatermark) => FailRate' <= HiWatermark
            /\ FailRate' > HiWatermark => FailRate' >= LoWatermark
        BY <2>1, ArbiterAssumption
      <4>3. QED
        BY <4>1, <4>2, Zenon
    <3>2. CASE ~Enabled
      BY <1>1, <2>1, <2>3, <3>2, ArbiterAssumption DEF Hysteresis, ArbiterType
    <3>3. QED
      BY <1>1, <3>1, <3>2 DEF ArbiterType
  <2>5. BudgetInv'
    BY <1>1, <1>4, ArbiterAssumption DEF RegisterFail, ArbiterType, BudgetInv, AlarmValue, Authorize
  <2>6. QED
    BY <1>1, <2>1, <2>2, <2>4, <2>5 DEF ArbiterType
<1>5. QED
  BY <1>1, <1>2, <1>3, <1>4, ArbiterStep

(* The input's part: types and replay.                                     *)
LEMMA InputInv ==
    ASSUME IInv, [Next]_vars
    PROVE  InputType' /\ ReplayInv'
<1>1. InputType /\ ReplayInv
  BY DEF IInv, TypeInv
<1>2. ASSUME NEW r \in Requests, Rewind(r) PROVE InputType' /\ ReplayInv'
  <2>1. InputType'
    BY <1>1, <1>2 DEF Rewind, InputType
  <2>2. Old[r] \o Tmp[r] = seen[r] \o Old[r]
    <3>1. Old[r] \in Seq(Nat) /\ Tmp[r] \in Seq(Nat) /\ Tmp[r] = seen[r]
      BY <1>1 DEF InputType, ReplayInv
    <3>2. CASE Old[r] = <<>>
      BY <3>1, <3>2, ConcatEmpty
    <3>3. CASE Tmp[r] = <<>>
      BY <3>1, <3>3, ConcatEmpty
    <3>4. QED
      BY Zenon, <1>1, <3>2, <3>3 DEF ReplayInv
  <2>3. <<>> \o (Old[r] \o Tmp[r]) = Body(arrived[r])
    BY <1>1, <2>2, ConcatEmpty DEF InputType, ReplayInv
  <2>4. ReplayInv'
    BY Zenon, <1>1, <1>2, <2>3 DEF Rewind, InputType, ReplayInv
  <2>5. QED
    BY <2>1, <2>4
<1>3. ASSUME NEW r \in Requests, DoRecv(r) PROVE InputType' /\ ReplayInv'
  <2> DEFINE n == arrived[r]
  <2>1. Old[r] \in Seq(Nat) /\ Tmp[r] \in Seq(Nat) /\ seen[r] \in Seq(Nat) /\ n \in Nat
    BY <1>1 DEF InputType
  <2>2. CASE Old[r] = <<>>
    <3>1. /\ Tmp' = [Tmp EXCEPT ![r] = Append(@, n + 1)]
          /\ seen' = [seen EXCEPT ![r] = Append(@, n + 1)]
          /\ arrived' = [arrived EXCEPT ![r] = @ + 1]
          /\ Old' = Old
      BY <1>3, <2>2 DEF DoRecv
    <3>2. InputType'
      BY <1>1, <2>1, <3>1 DEF InputType
    <3>3. seen[r] = Body(n)
      BY Zenon, <1>1, <2>1, <2>2, ConcatEmpty DEF ReplayInv
    <3>4. Append(seen[r], n + 1) = Body(n + 1)
      BY <2>1, <3>3 DEF Body
    <3>5. Append(seen[r], n + 1) \o <<>> = Body(n + 1)
      BY <2>1, <3>4, ConcatEmpty
    <3>6. QED
      BY Zenon, <1>1, <2>2, <3>1, <3>2, <3>5 DEF InputType, ReplayInv
  <2>3. CASE Old[r] # <<>>
    <3>1. /\ Tmp' = [Tmp EXCEPT ![r] = @ \o Old[r]]
          /\ seen' = [seen EXCEPT ![r] = @ \o Old[r]]
          /\ Old' = [Old EXCEPT ![r] = <<>>]
          /\ arrived' = arrived
      BY Zenon, <1>3, <2>3 DEF DoRecv
    <3>2. InputType'
      BY <1>1, <2>1, <3>1 DEF InputType
    <3>3. seen[r] \o Old[r] \in Seq(Nat)
      BY <2>1
    <3>4. (seen[r] \o Old[r]) \o <<>> = Body(n)
      BY Zenon, <1>1, <3>3, ConcatEmpty DEF ReplayInv
    <3>5. QED
      BY Zenon, <1>1, <3>1, <3>2, <3>4 DEF InputType, ReplayInv
  <2>4. QED
    BY <2>2, <2>3
<1>4. CASE UNCHANGED inputVars
  BY Zenon, <1>1, <1>4 DEF inputVars, InputType, ReplayInv, Body
<1>5. QED
  BY <1>2, <1>3, <1>4, InputStep

(* What Append does to a sequence's length and elements.                   *)
LEMMA AppendLemma ==
    ASSUME NEW S, NEW s \in Seq(S), NEW e \in S
    PROVE  /\ Append(s, e) \in Seq(S)
           /\ Append(s, e) # <<>>
           /\ Len(Append(s, e)) = Len(s) + 1
           /\ DOMAIN Append(s, e) = 1 .. Len(s) + 1
           /\ \A i \in 1 .. Len(s) : Append(s, e)[i] = s[i]
           /\ Append(s, e)[Len(s) + 1] = e
OBVIOUS

(* An attempt begins: the iterator gains one backend, which is a new one   *)
(* as long as there are any.                                               *)
LEMMA BeginStep ==
    ASSUME LoopType, NEW r \in Requests, BeginAttempt(r)
    PROVE  \E b \in Backends :
               /\ tried' = [tried EXCEPT ![r] = Append(@, b)]
               /\ Len(tried[r]) < Cardinality(Backends) =>
                      \A i \in DOMAIN tried[r] : tried[r][i] # b
BY Zenon DEF BeginAttempt, NextBackend, AlreadyHave

(* The loop's part: types, the sum of attempts and the fresh backends.     *)
LEMMA LoopInv ==
    ASSUME IInv, [Next]_vars
    PROVE  LoopType' /\ LoopShape' /\ FreshInv'
<1>1. LoopType /\ LoopShape /\ FreshInv
  BY DEF IInv, TypeInv
<1>2. ASSUME NEW r \in Requests, NEW v \in Verdicts \ {"none"}, Leave(r, v),
             running[r] \/ attempts[r] = 0
      PROVE  LoopType' /\ LoopShape' /\ FreshInv'
  <2>1. LoopType'
    BY <1>1, <1>2 DEF LoopType, Leave
  <2>2. LoopShape' /\ FreshInv'
    BY <1>1, <1>2 DEF LoopType, LoopShape, FreshInv, Leave
  <2>3. QED
    BY <2>1, <2>2
<1>3. ASSUME NEW r \in Requests, BeginAttempt(r), verdict[r] = "none"
      PROVE  LoopType' /\ LoopShape' /\ FreshInv'
  <2>1. PICK b \in Backends :
            /\ tried' = [tried EXCEPT ![r] = Append(@, b)]
            /\ Len(tried[r]) < Cardinality(Backends) =>
                   \A i \in DOMAIN tried[r] : tried[r][i] # b
    BY <1>1, <1>3, BeginStep
  <2>2. /\ tried[r] \in Seq(Backends)
        /\ attempts[r] \in 0 .. Attempts
    BY <1>1 DEF LoopType
  <2>3. tried'[r] = Append(tried[r], b) /\ \A q \in Requests \ {r} : tried'[q] = tried[q]
    BY <1>1, <2>1 DEF LoopType
  <2>4. tried' \in [Requests -> Seq(Backends)]
    BY <1>1, <2>1, <2>2 DEF LoopType
  <2>5. LoopType'
    BY <1>1, <1>3, <2>2, <2>4, AttemptsAssumption DEF LoopType, BeginAttempt
  <2>6. Len(tried'[r]) = Len(tried[r]) + 1 /\ tried'[r] # <<>>
    BY <2>2, <2>3, AppendLemma
  <2>7. LoopShape'
    BY SMTT(30), <1>1, <1>3, <2>2, <2>3, <2>6, AttemptsAssumption DEF LoopType, LoopShape, BeginAttempt
  <2>8. ASSUME NEW i \in DOMAIN tried'[r], NEW j \in DOMAIN tried'[r],
               i < j, j <= Cardinality(Backends)
        PROVE  tried'[r][i] # tried'[r][j]
    <3>1. i \in 1 .. Len(tried[r]) + 1 /\ j \in 1 .. Len(tried[r]) + 1 /\ Len(tried[r]) \in Nat
      BY <2>2, <2>3, AppendLemma
    <3>2. i \in 1 .. Len(tried[r]) /\ tried'[r][i] = tried[r][i]
      BY <2>2, <2>3, <2>8, <3>1, AppendLemma
    <3>3. CASE j = Len(tried[r]) + 1
      <4>1. Len(tried[r]) < Cardinality(Backends)
        BY <2>8, <3>1, <3>3, FS_CardinalityType, BackendsAssumption
      <4>2. QED
        BY <2>1, <2>2, <2>3, <3>2, <3>3, <4>1, AppendLemma
    <3>4. CASE j # Len(tried[r]) + 1
      <4>1. j \in 1 .. Len(tried[r]) /\ tried'[r][j] = tried[r][j]
        BY SMTT(30), <2>2, <2>3, <3>1, <3>4, AppendLemma
      <4>2. QED
        BY <1>1, <2>2, <2>8, <3>2, <4>1 DEF FreshInv
    <3>5. QED
      BY <3>3, <3>4
  <2>9. FreshInv'
    <3>1. SUFFICES ASSUME NEW q \in Requests,
                          NEW i \in DOMAIN tried'[q], NEW j \in DOMAIN tried'[q],
                          i < j, j <= Cardinality(Backends)
                   PROVE  tried'[q][i] # tried'[q][j]
      BY DEF FreshInv
    <3>2. CASE q = r
      BY <2>8, <3>1, <3>2
    <3>3. CASE q # r
      <4>1. tried'[q] = tried[q]
        BY <2>3, <3>3
      <4>2. QED
        BY <1>1, <3>1, <4>1 DEF FreshInv
    <3>4. QED
      BY <3>2, <3>3
  <2>10. QED
    BY <2>5, <2>7, <2>9
<1>4. ASSUME NEW r \in Requests, LoopHead(r), verdict[r] = "none"
      PROVE  LoopType' /\ LoopShape' /\ FreshInv'
  BY <1>2, <1>3, <1>4 DEF LoopHead, Verdicts
<1>5. CASE UNCHANGED loopVars
  BY <1>1, <1>5 DEF loopVars, LoopType, LoopShape, FreshInv
<1>6. QED
  BY <1>1, <1>2, <1>4, <1>5, LoopStep DEF DoRun, LoopShape

(* Counting one more for some backend.                                     *)
LEMMA CountLemma ==
    ASSUME NEW f \in [Backends -> Nat], NEW b
    PROVE  [f EXCEPT ![b] = @ + 1] \in [Backends -> Nat]
<1>1. CASE b \in Backends
  BY <1>1
<1>2. CASE b \notin Backends
  BY Zenon, <1>2
<1>3. QED
  BY <1>1, <1>2

(* The counters keep their types.                                          *)
LEMMA StatInv ==
    ASSUME IInv, [Next]_vars
    PROVE  StatType'
<1>1. StatType
  BY DEF IInv, TypeInv
<1>2. CASE UNCHANGED statVars
  BY <1>1, <1>2 DEF StatType, statVars
<1>3. ASSUME NEW r \in Requests, Complete(r) PROVE StatType'
  <2>1. /\ Succ' = [Succ EXCEPT ![Current(r)] = @ + 1]
        /\ completed' = completed + 1
        /\ UNCHANGED <<Fail, Incomplete>>
    BY <1>3 DEF Complete
  <2>2. QED
    BY <1>1, <2>1, CountLemma DEF StatType
<1>4. ASSUME NEW r \in Requests, NEW e \in Errors, FailOver(r, e) PROVE StatType'
  <2>1. /\ Fail' = [Fail EXCEPT ![Current(r)] = @ + 1]
        /\ UNCHANGED <<Succ, completed>>
        /\ Incomplete' \in {Incomplete, Incomplete + 1}
    BY <1>4 DEF FailOver
  <2>2. QED
    BY <1>1, <2>1, CountLemma DEF StatType
<1>5. QED
  BY Zenon, <1>2, <1>3, <1>4
     DEF Next, vars, DoRun, DoRecv, DoSend, ClientGone, Throw, SendThrows, Catch, Rethrow

(* The client hears a chunk more of the current attempt.                   *)
LEMMA HearMore ==
    ASSUME TypeInv, LoopShape, NEW r \in Requests, running[r], ~gone[r], Voiced(r)
    PROVE  LET h == Append(heard[r], Len(tried[r]))
           IN  /\ h \in Seq(Nat)
               /\ h # <<>>
               /\ \A i \in DOMAIN h : h[i] = Len(tried[r])
               /\ Len(tried[r]) \in 1 .. Attempts
<1> DEFINE n == Len(tried[r])
           h == Append(heard[r], n)
<1>1. heard[r] \in Seq(Nat) /\ tried[r] \in Seq(Backends) /\ attempts[r] \in 0 .. Attempts
  BY DEF TypeInv, OutputType, LoopType
<1>2. n \in Nat /\ tried[r] # <<>> /\ n + attempts[r] = Attempts
  BY <1>1 DEF LoopShape
<1>3. n \in 1 .. Attempts
  BY <1>1, <1>2, AttemptsAssumption
<1>4. \A i \in 1 .. Len(heard[r]) : heard[r][i] = n
  BY <1>1 DEF Voiced
<1>5. \A i \in DOMAIN h : h[i] = n
  BY <1>1, <1>2, <1>4, AppendLemma
<1>6. h \in Seq(Nat) /\ h # <<>>
  BY SMTT(30), <1>1, <1>2, AppendLemma
<1>7. QED
  BY <1>3, <1>5, <1>6

(* The output's part, for the request that moves.  What it needs of the    *)
(* loop: the attempts grow only while nothing was counted, unless the      *)
(* client goes at the same time.                                           *)
LEMMA MoveVoiced ==
    ASSUME TypeInv, TypeInv', LoopShape, VoiceInv, NEW r \in Requests,
           \A q \in Requests \ {r} :
               /\ tried'[q] = tried[q] /\ heard'[q] = heard[q]
               /\ gone'[q] = gone[q] /\ Written'[q] = Written[q],
           Voiced(r)'
    PROVE  VoiceInv'
<1> SUFFICES ASSUME NEW q \in Requests, q # r PROVE Voiced(q)'
  BY DEF VoiceInv
<1>1. tried'[q] = tried[q] /\ heard'[q] = heard[q] /\ gone'[q] = gone[q] /\ Written'[q] = Written[q]
  OBVIOUS
<1>2. Voiced(q)
  BY DEF VoiceInv
<1>3. QED
  BY <1>1, <1>2 DEF Voiced

(* What the loop does to the backends tried.                               *)
LEMMA TriedStep ==
    ASSUME LoopType, NEW r \in Requests,
           LoopHead(r) \/ \E v \in Verdicts : Leave(r, v)
    PROVE  /\ \A q \in Requests \ {r} : tried'[q] = tried[q]
           /\ tried'[r] = tried[r] \/ tried'[r] # <<>>
<1>1. CASE BeginAttempt(r)
  <2>1. PICK b \in Backends : tried' = [tried EXCEPT ![r] = Append(@, b)]
    BY <1>1, BeginStep
  <2>2. tried[r] \in Seq(Backends)
    BY DEF LoopType
  <2>3. tried'[r] = Append(tried[r], b)
    BY <2>1 DEF LoopType
  <2>4. \A q \in Requests \ {r} : tried'[q] = tried[q]
    BY <2>1 DEF LoopType
  <2>5. Append(tried[r], b) # <<>>
    BY <2>2
  <2>6. QED
    BY Zenon, <2>3, <2>4, <2>5
<1>2. CASE tried' = tried
  BY <1>2
<1>3. QED
  BY <1>1, <1>2 DEF LoopHead, Leave

(* The same for a request whose attempt threw: it is tried again only if   *)
(* nothing was counted.                                                    *)
LEMMA CatchStep ==
    ASSUME LoopType, NEW r \in Requests, NEW e \in Errors, Catch(r, e)
    PROVE  /\ \A q \in Requests \ {r} : tried'[q] = tried[q]
           /\ tried'[r] = tried[r] \/ (tried'[r] # <<>> /\ Written[r] = 0)
<1>1. CASE \E v \in Verdicts : Leave(r, v)
  BY <1>1 DEF Leave
<1>2. CASE LoopHead(r) /\ Written[r] = 0
  BY <1>2, TriedStep
<1>3. QED
  BY <1>1, <1>2 DEF Catch, Rethrow, FailOver, Verdicts

(* The output keeps its types.                                             *)
LEMMA OutputTypeInv ==
    ASSUME IInv, [Next]_vars
    PROVE  OutputType'
<1>1. OutputType /\ LoopType
  BY DEF IInv, TypeInv
<1>2. CASE UNCHANGED outputVars
  BY <1>1, <1>2 DEF OutputType, outputVars
<1>3. ASSUME NEW r \in Requests, \/ heard' = heard
                                 \/ heard' = [heard EXCEPT ![r] = Append(@, Len(tried[r]))]
      PROVE  heard' \in [Requests -> Seq(Nat)]
  <2>1. heard[r] \in Seq(Nat) /\ Len(tried[r]) \in Nat
    BY <1>1 DEF OutputType, LoopType
  <2>2. Append(heard[r], Len(tried[r])) \in Seq(Nat)
    BY <2>1
  <2>3. QED
    BY Zenon, <1>1, <1>3, <2>2 DEF OutputType
<1>4. ASSUME NEW r \in Requests, DoSend(r) PROVE OutputType'
  BY <1>1, <1>3, <1>4 DEF OutputType, DoSend
<1>5. ASSUME NEW r \in Requests, ClientGone(r) PROVE OutputType'
  BY <1>1, <1>5 DEF OutputType, ClientGone
<1>6. ASSUME NEW r \in Requests, NEW e \in Errors, SendThrows(r, e) PROVE OutputType'
  BY <1>1, <1>3, <1>6 DEF OutputType, SendThrows
<1>7. QED
  BY Zenon, <1>2, <1>4, <1>5, <1>6 DEF Next, vars, DoRun, DoRecv, Complete, Throw

(* A client hears one attempt.                                             *)
LEMMA OutputInv ==
    ASSUME IInv, TypeInv', [Next]_vars
    PROVE  VoiceInv'
<1> USE DEF IInv
<1>1. TypeInv /\ LoopType /\ OutputType /\ LoopShape /\ VoiceInv
  BY DEF TypeInv
<1>2. CASE UNCHANGED <<outputVars, tried>>
  BY SMTT(30), <1>1, <1>2 DEF outputVars, VoiceInv, Voiced
<1>3. ASSUME NEW r \in Requests, DoRun(r) PROVE VoiceInv'
  <2>1. Voiced(r)'
    <3>1. UNCHANGED outputVars /\ tried[r] = <<>>
      BY <1>1, <1>3 DEF DoRun, LoopShape
    <3>2. heard[r] = <<>> /\ Written[r] = 0 /\ ~gone[r]
      BY SMTT(30), <1>1, <3>1 DEF VoiceInv, Voiced
    <3>3. QED
      BY <3>1, <3>2 DEF outputVars, Voiced
  <2>2. \A q \in Requests \ {r} : tried'[q] = tried[q]
    BY <1>1, <1>3, TriedStep DEF DoRun
  <2>3. QED
    BY ZenonT(60), <1>1, <1>3, <2>1, <2>2, MoveVoiced DEF DoRun, outputVars
<1>4. ASSUME NEW r \in Requests, DoSend(r) PROVE VoiceInv'
  <2>1. Voiced(r)
    BY <1>1 DEF VoiceInv
  <2>2. running[r] /\ tried' = tried /\ gone' = gone /\ Written'[r] = Written[r] + 1
    BY <1>1, <1>4 DEF DoSend, OutputType, loopVars
  <2>3. tried[r] # <<>> /\ Written[r] \in Nat
    BY <1>1, <2>2 DEF LoopShape, OutputType
  <2>4. ASSUME gone[r] PROVE Voiced(r)'
    BY SMTT(30), <1>4, <2>1, <2>2, <2>3, <2>4 DEF DoSend, Voiced
  <2>5. ASSUME ~gone[r] PROVE Voiced(r)'
    <3>1. heard'[r] = Append(heard[r], Len(tried[r]))
      BY <1>1, <1>4, <2>5 DEF DoSend, OutputType
    <3>2. /\ heard'[r] # <<>>
          /\ \A i \in DOMAIN heard'[r] : heard'[r][i] = Len(tried[r])
          /\ Len(tried[r]) \in 1 .. Attempts
      BY <1>1, <2>1, <2>2, <2>5, <3>1, HearMore
    <3>3. QED
      BY <2>2, <2>3, <3>2 DEF Voiced
  <2>6. Voiced(r)'
    BY <2>4, <2>5
  <2>7. \A q \in Requests \ {r} : heard'[q] = heard[q] /\ Written'[q] = Written[q]
    BY <1>1, <1>4 DEF DoSend, OutputType
  <2>8. QED
    BY <1>1, <2>2, <2>6, <2>7, MoveVoiced
<1>5. ASSUME NEW r \in Requests, ClientGone(r) PROVE VoiceInv'
  <2>1. Voiced(r) /\ tried[r] # <<>>
    BY <1>1, <1>5 DEF VoiceInv, LoopShape, ClientGone
  <2>2. gone'[r] /\ heard' = heard /\ tried' = tried /\ Written' = Written
    BY SMTT(30), <1>1, <1>5 DEF ClientGone, OutputType, loopVars
  <2>3. Voiced(r)'
    BY <2>1, <2>2 DEF Voiced
  <2>4. \A q \in Requests \ {r} : gone'[q] = gone[q]
    BY <1>1, <1>5 DEF ClientGone, OutputType
  <2>5. QED
    BY SMTT(30), <1>1, <2>2, <2>3, <2>4, MoveVoiced
<1>6. ASSUME NEW r \in Requests, NEW e \in Errors, Throw(r, e) PROVE VoiceInv'
  <2>1. Voiced(r) /\ Written[r] \in Nat
    BY <1>1 DEF VoiceInv, OutputType
  <2>2. heard' = heard /\ gone' = gone /\ Written' = Written
    BY <1>6 DEF Throw, outputVars
  <2>3. /\ \A q \in Requests \ {r} : tried'[q] = tried[q]
        /\ tried'[r] = tried[r] \/ (tried'[r] # <<>> /\ Written[r] = 0)
    BY SMTT(30), <1>1, <1>6, CatchStep DEF Throw
  <2>4. Voiced(r)'
    BY SMTT(30), <2>1, <2>2, <2>3 DEF Voiced
  <2>5. QED
    BY <1>1, <2>2, <2>3, <2>4, MoveVoiced
<1>7. ASSUME NEW r \in Requests, NEW e \in Errors, SendThrows(r, e) PROVE VoiceInv'
  <2>1. Voiced(r) /\ running[r] /\ tried[r] # <<>>
    BY <1>1, <1>7 DEF VoiceInv, LoopShape, SendThrows
  <2>2. gone'[r] /\ Written' = Written
    BY <1>1, <1>7 DEF SendThrows, OutputType
  <2>3. /\ \A q \in Requests \ {r} : tried'[q] = tried[q]
        /\ tried'[r] # <<>>
    BY <1>1, <1>7, <2>1, CatchStep DEF SendThrows
  <2>4. /\ \A i, j \in DOMAIN heard'[r] : heard'[r][i] = heard'[r][j]
        /\ \A i \in DOMAIN heard'[r] : heard'[r][i] \in 1 .. Attempts
    <3>1. CASE heard' = heard
      BY <2>1, <3>1 DEF Voiced
    <3>2. CASE ~gone[r] /\ heard' = [heard EXCEPT ![r] = Append(@, Len(tried[r]))]
      <4>1. heard'[r] = Append(heard[r], Len(tried[r]))
        BY <1>1, <3>2 DEF OutputType
      <4>2. QED
        BY <1>1, <2>1, <3>2, <4>1, HearMore
    <3>3. QED
      BY SMTT(30), <1>7, <3>1, <3>2 DEF SendThrows
  <2>5. Voiced(r)'
    BY <2>2, <2>3, <2>4 DEF Voiced
  <2>6. \A q \in Requests \ {r} : heard'[q] = heard[q] /\ gone'[q] = gone[q]
    BY <1>1, <1>7 DEF SendThrows, OutputType
  <2>7. QED
    BY SMTT(30), <1>1, <2>2, <2>3, <2>5, <2>6, MoveVoiced
<1>8. ASSUME NEW r \in Requests, DoRecv(r) \/ Complete(r) PROVE VoiceInv'
  BY Zenon, <1>2, <1>8 DEF DoRecv, Complete, Leave, loopVars
<1>9. QED
  BY <1>2, <1>3, <1>4, <1>5, <1>6, <1>7, <1>8 DEF Next, vars, loopVars

-----------------------------------------------------------------------------
(* Every step keeps the invariant.                                         *)
LEMMA NextIInv == IInv /\ [Next]_vars => IInv'
<1> SUFFICES ASSUME IInv, [Next]_vars PROVE IInv'
  OBVIOUS
<1>1. TypeInv'
  BY ArbiterInv, StatInv, LoopInv, InputInv, OutputTypeInv DEF TypeInv
<1>2. VoiceInv'
  BY <1>1, OutputInv
<1>3. QED
  BY <1>1, <1>2, ArbiterInv, LoopInv, InputInv DEF IInv

(* The inductive invariant holds of every state the retry loop reaches.    *)
THEOREM BalancerInvariance == Spec => []IInv
BY InitIInv, NextIInv, PTL DEF Spec

(* Type correctness of the retry loop, its arbiter and its streams.        *)
THEOREM BalancerTypes == Spec => []TypeOK
<1>1. IInv => TypeOK
  BY DEF IInv, TypeInv, ArbiterType, StatType, LoopType, InputType, OutputType, TypeOK
<1>2. QED
  BY <1>1, BalancerInvariance, PTL

(* TRewindAbleInput replays the whole request to every attempt.            *)
THEOREM RequestReplayed == Spec => []FullReplay
<1>1. IInv => FullReplay
  BY Zenon DEF IInv, ReplayInv, FullReplay
<1>2. QED
  BY <1>1, BalancerInvariance, PTL

(* What reaches a client comes from one attempt.                           *)
THEOREM OneVoiceOnly == Spec => []OneVoice
<1>1. IInv => OneVoice
  BY ZenonT(60) DEF IInv, VoiceInv, Voiced, OneVoice
<1>2. QED
  BY <1>1, BalancerInvariance, PTL

(* TConnIterator tries fresh backends first, and stays within its array if *)
(* the configured number of attempts does.                                 *)
THEOREM BackendsFresh == Spec => []FreshBackends
<1>1. IInv => FreshBackends
  <2> SUFFICES ASSUME IInv, NEW r \in Requests PROVE Len(tried[r]) <= Slots
    BY DEF IInv, FreshInv, FreshBackends
  <2>1. tried[r] \in Seq(Backends) /\ attempts[r] \in 0 .. Attempts
    BY DEF IInv, TypeInv, LoopType
  <2>2. Len(tried[r]) + attempts[r] = Attempts
    BY DEF IInv, LoopShape
  <2>3. QED
    BY SMTT(60), <2>1, <2>2, AttemptsAssumption
<1>2. QED
  BY <1>1, BalancerInvariance, PTL

(* The additive arbiter bounds the retries by the successes.               *)
THEOREM RetriesBudgeted == Spec => []RetryBudget
<1>1. IInv => RetryBudget
  BY DEF IInv, BudgetInv, RetryBudget
<1>2. QED
  BY <1>1, BalancerInvariance, PTL

(* The watermark arbiter keeps its hysteresis.                             *)
THEOREM WatermarkHysteresis == Spec => []Hysteresis
<1>1. IInv => Hysteresis
  BY DEF IInv
<1>2. QED
  BY <1>1, BalancerInvariance, PTL

-----------------------------------------------------------------------------
(* The retry loop implements BalancerContract.                             *)

(* A step of request r that the contract allows, seen through the mapping. *)
LEMMA ServeStep ==
    ASSUME IInv, IInv', NEW r \in Requests, verdict[r] = "none",
           gone[r] => gone'[r],
           Voice(r)' = Voice(r) \/ (Voice(r) = 0 /\ ~gone[r]),
           verdict'[r] \in {"refused", "exhausted"} => Voice(r)' = 0 \/ gone'[r],
           verdict'[r] = "incomplete" => Voice(r)' # 0 \/ gone'[r],
           \A q \in Requests \ {r} :
               /\ verdict'[q] = verdict[q]
               /\ gone'[q] = gone[q]
               /\ heard'[q] = heard[q]
    PROVE  Contract!Next
<1>1. Voice(r)' \in 0 .. Attempts
  <2>1. heard'[r] \in Seq(Nat) /\ Voiced(r)'
    BY DEF IInv, TypeInv, OutputType, VoiceInv
  <2>2. QED
    BY SMTT(30), <2>1, AttemptsAssumption DEF Voice, Voiced
<1>2. /\ verdict'[r] \in Contract!Verdicts
      /\ gone'[r] \in BOOLEAN
  BY DEF IInv, TypeInv, LoopType, OutputType, Verdicts, Contract!Verdicts
<1>3. \A q \in Requests \ {r} : Voice(q)' = Voice(q)
  BY DEF Voice
<1>4. [q \in Requests |-> Voice(q)]' = [[q \in Requests |-> Voice(q)] EXCEPT ![r] = Voice(r)']
  BY Zenon, <1>3
<1>5. /\ gone' = [gone EXCEPT ![r] = gone'[r]]
      /\ verdict' = [verdict EXCEPT ![r] = verdict'[r]]
  BY ZenonT(30) DEF IInv, TypeInv, LoopType, OutputType
<1>6. Contract!Serve(r, Voice(r)', gone'[r], verdict'[r])
  BY SMTT(30), <1>4, <1>5 DEF Contract!Serve, Contract!MaySpeak, Contract!Agrees
<1>7. QED
  BY SMTT(30), <1>1, <1>2, <1>6 DEF Contract!Next

(* The verdict on a request whose attempt threw agrees with the count.     *)
LEMMA CatchVerdict ==
    ASSUME LoopType, NEW r \in Requests, NEW e \in Errors, Catch(r, e), verdict[r] = "none"
    PROVE  /\ \A q \in Requests \ {r} : verdict'[q] = verdict[q]
           /\ verdict'[r] \in {"refused", "exhausted"} => Written[r] = 0
           /\ verdict'[r] = "incomplete" => Written[r] > 0
<1>1. ASSUME NEW v \in Verdicts, Leave(r, v)
      PROVE  verdict'[r] = v /\ \A q \in Requests \ {r} : verdict'[q] = verdict[q]
  BY <1>1 DEF Leave, LoopType
<1>2. CASE Rethrow(r, e)
  BY <1>1, <1>2 DEF Rethrow, Verdicts
<1>3. CASE Written[r] > 0 /\ Leave(r, "incomplete")
  BY <1>1, <1>3 DEF Verdicts
<1>4. CASE Written[r] = 0 /\ Leave(r, "refused")
  BY SMTT(30), <1>1, <1>4 DEF Verdicts
<1>5. CASE Written[r] = 0 /\ LoopHead(r)
  <2>1. CASE verdict' = verdict
    BY <2>1
  <2>2. CASE Leave(r, "exhausted")
    BY <1>1, <1>5, <2>2 DEF Verdicts
  <2>3. QED
    BY <1>5, <2>1, <2>2 DEF LoopHead, BeginAttempt
<1>6. QED
  BY <1>2, <1>3, <1>4, <1>5 DEF Catch, FailOver

(* What the client of a running request has heard, in terms of the count.  *)
LEMMA VoiceFacts ==
    ASSUME IInv, NEW r \in Requests, running[r]
    PROVE  /\ Written[r] = 0 /\ ~gone[r] => Voice(r) = 0
           /\ Written[r] > 0 /\ ~gone[r] => Voice(r) # 0
           /\ ~gone[r] => Voice(r) \in {0, Len(tried[r])}
           /\ verdict[r] = "none"
<1>1. heard[r] \in Seq(Nat) /\ Voiced(r) /\ Written[r] \in Nat
  BY DEF IInv, TypeInv, OutputType, VoiceInv
<1>2. ASSUME heard[r] # <<>>
      PROVE  /\ Len(heard[r]) \in DOMAIN heard[r]
             /\ Voice(r) = heard[r][Len(heard[r])]
             /\ Voice(r) \in 1 .. Attempts
  BY <1>1, <1>2 DEF Voiced, Voice
<1>3. verdict[r] = "none"
  BY DEF IInv, LoopShape
<1>4. CASE heard[r] = <<>>
  BY SMTT(30), <1>1, <1>3, <1>4 DEF Voice, Voiced
<1>5. CASE heard[r] # <<>>
  BY SMTT(30), <1>1, <1>2, <1>3, <1>5, AttemptsAssumption DEF Voiced
<1>6. QED
  BY <1>4, <1>5

(* The client hears a chunk more of the current attempt, as the mapping    *)
(* sees it.                                                                *)
LEMMA VoiceMore ==
    ASSUME IInv, NEW r \in Requests, running[r], ~gone[r],
           heard' = [heard EXCEPT ![r] = Append(@, Len(tried[r]))]
    PROVE  /\ Voice(r)' = Len(tried[r])
           /\ Voice(r)' = Voice(r) \/ Voice(r) = 0
           /\ \A q \in Requests \ {r} : heard'[q] = heard[q]
<1>1. heard \in [Requests -> Seq(Nat)] /\ heard[r] \in Seq(Nat) /\ Len(tried[r]) \in Nat
  BY DEF IInv, TypeInv, OutputType, LoopType
<1>2. heard'[r] = Append(heard[r], Len(tried[r])) /\ \A q \in Requests \ {r} : heard'[q] = heard[q]
  BY <1>1
<1>3. Voice(r)' = Len(tried[r])
  BY <1>1, <1>2, AppendLemma DEF Voice
<1>4. QED
  BY <1>2, <1>3, VoiceFacts

(* Every step maps to a step of the contract or leaves it as it is.        *)
LEMMA ContractStep == IInv /\ IInv' /\ [Next]_vars => [Contract!Next]_(Contract!vars)
<1> SUFFICES ASSUME IInv, IInv', [Next]_vars PROVE [Contract!Next]_(Contract!vars)
  OBVIOUS
<1>1. LoopType /\ OutputType /\ VoiceInv /\ LoopShape
  BY DEF IInv, TypeInv
<1>2. CASE UNCHANGED <<heard, gone, verdict>>
  BY SMTT(30), <1>2 DEF Contract!vars, Voice
<1>3. ASSUME NEW r \in Requests, DoRun(r) PROVE [Contract!Next]_(Contract!vars)
  <2>1. UNCHANGED outputVars /\ verdict[r] = "none" /\ tried[r] = <<>>
    BY <1>1, <1>3 DEF DoRun, LoopShape
  <2>2. heard[r] = <<>> /\ heard' = heard /\ gone' = gone
    BY <1>1, <2>1 DEF VoiceInv, Voiced, outputVars
  <2>3. CASE verdict' = verdict
    BY <1>2, <2>2, <2>3
  <2>4. CASE Leave(r, "exhausted")
    <3>1. /\ verdict'[r] = "exhausted"
          /\ \A q \in Requests \ {r} : verdict'[q] = verdict[q]
      BY <1>1, <2>4 DEF Leave, LoopType
    <3>2. Voice(r) = 0 /\ Voice(r)' = 0
      BY SMTT(30), <2>2 DEF Voice
    <3>3. Contract!Next
      BY <2>1, <2>2, <3>1, <3>2, ServeStep
    <3>4. QED
      BY <3>3
  <2>5. QED
    BY SMTT(30), <1>3, <2>3, <2>4 DEF DoRun, LoopHead, BeginAttempt
<1>4. ASSUME NEW r \in Requests, DoSend(r) PROVE [Contract!Next]_(Contract!vars)
  <2>1. running[r] /\ gone' = gone /\ verdict' = verdict
    BY <1>4 DEF DoSend, loopVars
  <2>2. CASE gone[r]
    BY SMTT(30), <1>2, <1>4, <2>1, <2>2 DEF DoSend
  <2>3. CASE ~gone[r]
    <3>1. heard' = [heard EXCEPT ![r] = Append(@, Len(tried[r]))]
      BY <1>4, <2>3 DEF DoSend
    <3>2. verdict[r] = "none"
      BY SMTT(30), <2>1, VoiceFacts
    <3>3. Contract!Next
      BY Zenon, <2>1, <2>3, <3>1, <3>2, VoiceMore, ServeStep
    <3>4. QED
      BY <3>3
  <2>4. QED
    BY Zenon, <2>2, <2>3
<1>5. ASSUME NEW r \in Requests, ClientGone(r) PROVE [Contract!Next]_(Contract!vars)
  <2>1. /\ running[r] /\ heard' = heard /\ verdict' = verdict /\ gone'[r]
        /\ \A q \in Requests \ {r} : gone'[q] = gone[q]
    BY <1>1, <1>5 DEF ClientGone, loopVars, OutputType
  <2>2. verdict[r] = "none" /\ Voice(r)' = Voice(r)
    BY <2>1, VoiceFacts DEF Voice
  <2>3. Contract!Next
    BY <2>1, <2>2, ServeStep
  <2>4. QED
    BY <2>3
<1>6. ASSUME NEW r \in Requests, Complete(r) PROVE [Contract!Next]_(Contract!vars)
  <2>1. /\ running[r] /\ heard' = heard /\ gone' = gone /\ verdict'[r] = "ok"
        /\ \A q \in Requests \ {r} : verdict'[q] = verdict[q]
    BY SMTT(30), <1>1, <1>6 DEF Complete, Leave, outputVars, LoopType
  <2>2. verdict[r] = "none" /\ Voice(r)' = Voice(r)
    BY <2>1, VoiceFacts DEF Voice
  <2>3. Contract!Next
    BY <2>1, <2>2, ServeStep
  <2>4. QED
    BY <2>3
<1>7. ASSUME NEW r \in Requests, NEW e \in Errors, Throw(r, e)
      PROVE  [Contract!Next]_(Contract!vars)
  <2>1. running[r] /\ heard' = heard /\ gone' = gone /\ Catch(r, e)
    BY <1>7 DEF Throw, outputVars
  <2>2. Voice(r)' = Voice(r)
    BY <2>1 DEF Voice
  <2>3. verdict[r] = "none"
    BY SMTT(30), <2>1, VoiceFacts
  <2>4. /\ verdict'[r] \in {"refused", "exhausted"} => Voice(r)' = 0 \/ gone'[r]
        /\ verdict'[r] = "incomplete" => Voice(r)' # 0 \/ gone'[r]
        /\ \A q \in Requests \ {r} : verdict'[q] = verdict[q]
    <3>1. /\ \A q \in Requests \ {r} : verdict'[q] = verdict[q]
          /\ verdict'[r] \in {"refused", "exhausted"} => Written[r] = 0
          /\ verdict'[r] = "incomplete" => Written[r] > 0
      BY Zenon, <1>1, <1>7, <2>1, <2>3, CatchVerdict
    <3>2. /\ Written[r] = 0 /\ ~gone[r] => Voice(r) = 0
          /\ Written[r] > 0 /\ ~gone[r] => Voice(r) # 0
      BY Zenon, <2>1, VoiceFacts
    <3>3. QED
      BY <2>1, <2>2, <3>1, <3>2
  <2>5. Contract!Next
    BY <2>1, <2>2, <2>3, <2>4, ServeStep
  <2>6. QED
    BY <2>5
<1>8. ASSUME NEW r \in Requests, NEW e \in Errors, SendThrows(r, e)
      PROVE  [Contract!Next]_(Contract!vars)
  <2>1. /\ running[r] /\ gone'[r] /\ Catch(r, e)
        /\ \A q \in Requests \ {r} : gone'[q] = gone[q]
    BY <1>1, <1>8 DEF SendThrows, OutputType
  <2>2. verdict[r] = "none"
    BY <2>1, VoiceFacts
  <2>3. /\ Voice(r)' = Voice(r) \/ (Voice(r) = 0 /\ ~gone[r])
        /\ \A q \in Requests \ {r} : heard'[q] = heard[q]
    <3>1. CASE heard' = heard
      BY SMTT(30), <3>1 DEF Voice
    <3>2. CASE ~gone[r] /\ heard' = [heard EXCEPT ![r] = Append(@, Len(tried[r]))]
      BY ZenonT(30), <2>1, <3>2, VoiceMore
    <3>3. QED
      BY <1>8, <3>1, <3>2 DEF SendThrows
  <2>4. \A q \in Requests \ {r} : verdict'[q] = verdict[q]
    BY SMTT(30), <1>1, <2>1, <2>2, CatchVerdict
  <2>5. Contract!Next
    BY <2>1, <2>2, <2>3, <2>4, ServeStep
  <2>6. QED
    BY <2>5
<1>9. ASSUME NEW r \in Requests, DoRecv(r) PROVE [Contract!Next]_(Contract!vars)
  BY <1>2, <1>9 DEF DoRecv, loopVars, outputVars
<1>10. QED
  BY <1>2, <1>3, <1>4, <1>5, <1>6, <1>7, <1>8, <1>9 DEF Next, vars, loopVars, outputVars

(* The retry loop implements the contract: one voice per client, one       *)
(* verdict per request, and no verdict that contradicts what the client    *)
(* was told.                                                               *)
THEOREM ContractImplemented == Spec => KeepsContract
<1>1. Init => Contract!Init
  BY DEF Init, Contract!Init, Voice
<1>2. QED
  BY <1>1, ContractStep, BalancerInvariance, PTL DEF Spec, KeepsContract, Contract!Spec

-----------------------------------------------------------------------------
(* Every attempt is charged once.  A step of a request r opens an attempt, *)
(* settles one, or both; the counters and the sets of ChargedOnce move by  *)
(* one element each, and stay finite however many requests there are.      *)

(* The attempts made on backend b, and the requests cut short.             *)
Made(b) == UNION {{<<r, i>> : i \in On(r, b)} : r \in Requests}

CutShort == {r \in Requests : verdict[r] = "incomplete"}

(* The account after request r settles an attempt, and after it also makes  *)
(* attempt x: n charges before, U unsettled and M made.                    *)
Balanced(U, M, n, r, x) ==
    /\ IsFiniteSet(U \ {r}) /\ IsFiniteSet((U \ {r}) \cup {r}) /\ IsFiniteSet(M \cup {x})
    /\ (IF r \in U THEN n + 1 ELSE n) + Cardinality(U \ {r}) = Cardinality(M)
    /\ (IF r \in U THEN n + 1 ELSE n) + Cardinality((U \ {r}) \cup {r})
           = Cardinality(M \cup {x})

(* The arithmetic of one step.  The old attempt of r, if it was open, is   *)
(* charged (n counts the charges); if the step makes a new one (x), r is   *)
(* open again.                                                             *)
LEMMA OneCharge ==
    ASSUME NEW U, IsFiniteSet(U), NEW M, IsFiniteSet(M),
           NEW n \in Nat, n + Cardinality(U) = Cardinality(M),
           NEW r, NEW x, x \notin M
    PROVE  Balanced(U, M, n, r, x)
<1>1. Cardinality(U) \in Nat /\ Cardinality(M) \in Nat
  BY FS_CardinalityType
<1>2. /\ IsFiniteSet(U \ {r})
      /\ Cardinality(U \ {r}) = IF r \in U THEN Cardinality(U) - 1 ELSE Cardinality(U)
  BY FS_RemoveElement
<1>3. /\ IsFiniteSet((U \ {r}) \cup {r})
      /\ Cardinality((U \ {r}) \cup {r}) = Cardinality(U \ {r}) + 1
  BY <1>2, FS_AddElement
<1>4. IsFiniteSet(M \cup {x}) /\ Cardinality(M \cup {x}) = Cardinality(M) + 1
  BY FS_AddElement
<1>5. QED
  BY <1>1, <1>2, <1>3, <1>4 DEF Balanced

(* An attempt made on b.                                                   *)
LEMMA MadeElement ==
    ASSUME NEW b
    PROVE  \A x : x \in Made(b) <=>
               \E r \in Requests : \E i \in DOMAIN tried[r] : tried[r][i] = b /\ x = <<r, i>>
BY DEF Made, On

(* A request that leaves its attempt charged is no longer open.            *)
LEMMA LeaveSets ==
    ASSUME LoopType, NEW r \in Requests, NEW v \in Verdicts \ {"rethrown"}, Leave(r, v),
           NEW b
    PROVE  /\ Unsettled(b)' = Unsettled(b) \ {r}
           /\ Made(b)' = Made(b)
<1>1. /\ tried' = tried
      /\ running' = [running EXCEPT ![r] = FALSE]
      /\ verdict' = [verdict EXCEPT ![r] = v]
  BY DEF Leave
<1>2. /\ \A q \in Requests \ {r} : running'[q] = running[q] /\ verdict'[q] = verdict[q]
      /\ ~running'[r] /\ verdict'[r] # "rethrown"
  BY <1>1 DEF LoopType
<1>3. QED
  BY <1>1, <1>2 DEF Unsettled, Made, On, Current

(* A request whose error is passed on stays open.                          *)
LEMMA RethrowSets ==
    ASSUME LoopType, NEW r \in Requests, running[r], Leave(r, "rethrown"), NEW b
    PROVE  /\ Unsettled(b)' = Unsettled(b)
           /\ Made(b)' = Made(b)
<1>1. /\ tried' = tried
      /\ running' = [running EXCEPT ![r] = FALSE]
      /\ verdict' = [verdict EXCEPT ![r] = "rethrown"]
  BY DEF Leave
<1>2. /\ \A q \in Requests \ {r} : running'[q] = running[q] /\ verdict'[q] = verdict[q]
      /\ ~running'[r] /\ verdict'[r] = "rethrown"
  BY <1>1 DEF LoopType
<1>3. QED
  BY <1>1, <1>2 DEF Unsettled, Made, On, Current

(* What a new attempt of r on c does to the account of b.                  *)
Begun(b, r, c) ==
    /\ <<r, Len(tried[r]) + 1>> \notin Made(b)
    /\ Unsettled(b)' = (Unsettled(b) \ {r}) \cup (IF b = c THEN {r} ELSE {})
    /\ Made(b)' = Made(b) \cup (IF b = c THEN {<<r, Len(tried[r]) + 1>>} ELSE {})

(* A new attempt of r, on the backend c.                                   *)
LEMMA BeginSets ==
    ASSUME LoopType, NEW r \in Requests, BeginAttempt(r), NEW c \in Backends,
           tried' = [tried EXCEPT ![r] = Append(@, c)], NEW b
    PROVE  Begun(b, r, c)
<1> DEFINE n == Len(tried[r])
<1>1. tried[r] \in Seq(Backends) /\ n \in Nat /\ DOMAIN tried[r] = 1 .. n
  BY DEF LoopType
<1>2. /\ tried'[r] = Append(tried[r], c)
      /\ \A q \in Requests \ {r} : tried'[q] = tried[q]
  BY SMTT(30) DEF LoopType
<1>3. /\ DOMAIN tried'[r] = 1 .. n + 1 /\ Len(tried'[r]) = n + 1
      /\ \A i \in 1 .. n : tried'[r][i] = tried[r][i]
      /\ tried'[r][n + 1] = c
  <2> DEFINE old == tried[r]
             new == Append(old, c)
  <2>1. old \in Seq(Backends) /\ Len(old) = n
    BY <1>1
  <2> HIDE DEF old, n
  <2>2. /\ Len(new) = n + 1 /\ DOMAIN new = 1 .. n + 1
        /\ \A i \in 1 .. n : new[i] = old[i]
        /\ new[n + 1] = c
    BY <2>1, AppendLemma
  <2> HIDE DEF new
  <2>3. tried'[r] = new
    BY <1>2 DEF new, old
  <2>4. QED
    BY <2>2, <2>3 DEF old
<1>4. /\ verdict' = verdict
      /\ running'[r] = TRUE
      /\ \A q \in Requests \ {r} : running'[q] = running[q]
  BY DEF BeginAttempt, LoopType
<1>5. <<r, n + 1>> \notin Made(b)
  <2> SUFFICES ASSUME <<r, n + 1>> \in Made(b)
               PROVE  FALSE
    OBVIOUS
  <2>1. PICK q \in Requests : \E i \in DOMAIN tried[q] : <<r, n + 1>> = <<q, i>>
    BY MadeElement
  <2>2. n + 1 \in DOMAIN tried[r]
    BY <2>1
  <2>3. QED
    BY <1>1, <2>2
<1>6. Unsettled(b)' = (Unsettled(b) \ {r}) \cup (IF b = c THEN {r} ELSE {})
  <2>1. Current(r)' = c
    BY <1>3 DEF Current
  <2>2. \A q \in Requests \ {r} : Current(q)' = Current(q)
    BY <1>2 DEF Current
  <2>3. QED
    BY <1>4, <2>1, <2>2 DEF Unsettled
<1>7. ASSUME NEW x
      PROVE  x \in Made(b)' <=> x \in Made(b) \/ (b = c /\ x = <<r, n + 1>>)
  <2>1. x \in Made(b)' <=>
            \E q \in Requests : \E i \in DOMAIN tried'[q] : tried'[q][i] = b /\ x = <<q, i>>
    BY DEF Made, On
  <2>2. x \in Made(b) <=>
            \E q \in Requests : \E i \in DOMAIN tried[q] : tried[q][i] = b /\ x = <<q, i>>
    BY MadeElement
  <2>3. ASSUME x \in Made(b)
        PROVE  x \in Made(b)'
    <3>1. PICK q \in Requests : \E i \in DOMAIN tried[q] : tried[q][i] = b /\ x = <<q, i>>
      BY <2>2, <2>3
    <3>2. PICK i \in DOMAIN tried[q] : tried[q][i] = b /\ x = <<q, i>>
      BY <3>1
    <3>3. i \in DOMAIN tried'[q] /\ tried'[q][i] = b
      BY <1>1, <1>2, <1>3, <3>2
    <3>4. QED
      BY <2>1, <3>2, <3>3
  <2>4. ASSUME b = c, x = <<r, n + 1>>
        PROVE  x \in Made(b)'
    <3>1. n + 1 \in DOMAIN tried'[r] /\ tried'[r][n + 1] = b
      BY <1>1, <1>3, <2>4
    <3>2. QED
      BY <2>1, <2>4, <3>1
  <2>5. ASSUME x \in Made(b)'
        PROVE  x \in Made(b) \/ (b = c /\ x = <<r, n + 1>>)
    <3>1. PICK q \in Requests : \E i \in DOMAIN tried'[q] : tried'[q][i] = b /\ x = <<q, i>>
      BY <2>1, <2>5
    <3>2. PICK i \in DOMAIN tried'[q] : tried'[q][i] = b /\ x = <<q, i>>
      BY <3>1
    <3>3. CASE q = r /\ i = n + 1
      BY <1>3, <3>2, <3>3
    <3>4. CASE ~ (q = r /\ i = n + 1)
      <4>1. i \in DOMAIN tried[q] /\ tried[q][i] = b
        BY <1>1, <1>2, <1>3, <3>2, <3>4
      <4>2. QED
        BY <2>2, <3>2, <4>1
    <3>5. QED
      BY <3>3, <3>4
  <2>6. QED
    BY <2>3, <2>4, <2>5
<1>8. Made(b)' = Made(b) \cup (IF b = c THEN {<<r, n + 1>>} ELSE {})
  <2> DEFINE P == Made(b)'
             Q == Made(b)
  <2>1. \A x : x \in P <=> x \in Q \/ (b = c /\ x = <<r, n + 1>>)
    BY <1>7
  <2> HIDE DEF P, Q
  <2>2. P = Q \cup (IF b = c THEN {<<r, n + 1>>} ELSE {})
    BY <2>1
  <2>3. QED
    BY <2>2 DEF P, Q
<1>9. QED
  BY <1>5, <1>6, <1>8 DEF Begun

(* What a step does to the loop and the counters of its request.           *)
LEMMA ChargeStep ==
    ASSUME IInv, [Next]_vars
    PROVE  \/ UNCHANGED <<verdict, running, tried, Succ, Fail, Incomplete>>
           \/ \E r \in Requests :
                  running[r] /\ Leave(r, "rethrown") /\ UNCHANGED <<Succ, Fail, Incomplete>>
           \/ \E r \in Requests :
                  /\ verdict[r] = "none" /\ ~running[r]
                  /\ Leave(r, "exhausted") \/ BeginAttempt(r)
                  /\ UNCHANGED <<Succ, Fail, Incomplete>>
           \/ \E r \in Requests :
                  /\ running[r]
                  /\ \/ Succ' = [Succ EXCEPT ![Current(r)] = @ + 1] /\ UNCHANGED Fail
                     \/ Fail' = [Fail EXCEPT ![Current(r)] = @ + 1] /\ UNCHANGED Succ
                  /\ \/ /\ \/ \E v \in {"ok", "refused", "exhausted"} : Leave(r, v)
                           \/ BeginAttempt(r)
                        /\ UNCHANGED Incomplete
                     \/ Leave(r, "incomplete") /\ Incomplete' = Incomplete + 1
<1> DEFINE Quiet == UNCHANGED <<verdict, running, tried, Succ, Fail, Incomplete>>
           Passed(r) == /\ running[r] /\ Leave(r, "rethrown")
                        /\ UNCHANGED <<Succ, Fail, Incomplete>>
           First(r) == /\ verdict[r] = "none" /\ ~running[r]
                       /\ Leave(r, "exhausted") \/ BeginAttempt(r)
                       /\ UNCHANGED <<Succ, Fail, Incomplete>>
           Charged(r) ==
               /\ running[r]
               /\ \/ Succ' = [Succ EXCEPT ![Current(r)] = @ + 1] /\ UNCHANGED Fail
                  \/ Fail' = [Fail EXCEPT ![Current(r)] = @ + 1] /\ UNCHANGED Succ
               /\ \/ /\ \/ \E v \in {"ok", "refused", "exhausted"} : Leave(r, v)
                        \/ BeginAttempt(r)
                     /\ UNCHANGED Incomplete
                  \/ Leave(r, "incomplete") /\ Incomplete' = Incomplete + 1
<1>1. ASSUME NEW r \in Requests, DoRun(r)
      PROVE  First(r)
  BY <1>1 DEF DoRun, LoopHead, statVars
<1>2. ASSUME NEW r \in Requests, DoRecv(r) \/ DoSend(r) \/ ClientGone(r)
      PROVE  Quiet
  BY Zenon, <1>2 DEF DoRecv, DoSend, ClientGone, loopVars, statVars
<1>3. ASSUME NEW r \in Requests, Complete(r)
      PROVE  Charged(r)
  BY <1>3 DEF Complete
<1>4. ASSUME NEW r \in Requests, NEW e \in Errors, running[r], Rethrow(r, e)
      PROVE  Passed(r)
  BY <1>4 DEF Rethrow, statVars
<1>5. ASSUME NEW r \in Requests, NEW e \in Errors, running[r], FailOver(r, e)
      PROVE  Charged(r)
  BY <1>5 DEF FailOver, LoopHead
<1>6. UNCHANGED vars => Quiet
  BY DEF vars, loopVars, statVars
<1>7. Quiet \/ \E r \in Requests : Passed(r) \/ First(r) \/ Charged(r)
  <2> HIDE DEF Quiet, Passed, First, Charged
  <2>1. QED
    BY SMTT(30), <1>1, <1>2, <1>3, <1>4, <1>5, <1>6 DEF Next, Throw, SendThrows, Catch
<1>8. QED
  BY Zenon, <1>7

(* The charges of the backends.                                            *)
BackendCharge(b) ==
    /\ IsFiniteSet(Unsettled(b))
    /\ IsFiniteSet(Made(b))
    /\ Succ[b] + Fail[b] + Cardinality(Unsettled(b)) = Cardinality(Made(b))

(* Every step keeps the account of every backend.                          *)
LEMMA BackendChargeStep ==
    ASSUME IInv, [Next]_vars, NEW b \in Backends, BackendCharge(b)
    PROVE  BackendCharge(b)'
<1>1. LoopType /\ LoopShape /\ Succ[b] \in Nat /\ Fail[b] \in Nat
      /\ Succ \in [Backends -> Nat] /\ Fail \in [Backends -> Nat]
  BY SMTT(30) DEF IInv, TypeInv, StatType
<1>2. CASE UNCHANGED <<verdict, running, tried, Succ, Fail, Incomplete>>
  <2>1. Unsettled(b)' = Unsettled(b) /\ Made(b)' = Made(b)
    BY SMTT(30), <1>2 DEF Unsettled, Current, Made, On
  <2>2. QED
    BY <1>2, <2>1 DEF BackendCharge
<1>3. ASSUME NEW r \in Requests,
             running[r], Leave(r, "rethrown"), UNCHANGED <<Succ, Fail, Incomplete>>
      PROVE  BackendCharge(b)'
  <2>1. Unsettled(b)' = Unsettled(b) /\ Made(b)' = Made(b)
    BY <1>1, <1>3, RethrowSets
  <2>2. QED
    BY <1>3, <2>1 DEF BackendCharge
<1>4. ASSUME NEW r \in Requests,
             \/ \E v \in Verdicts \ {"rethrown"} : Leave(r, v)
             \/ BeginAttempt(r),
             Succ'[b] + Fail'[b]
                 = (IF r \in Unsettled(b) THEN Succ[b] + Fail[b] + 1 ELSE Succ[b] + Fail[b])
      PROVE  BackendCharge(b)'
  <2> DEFINE n == Succ[b] + Fail[b]
             U == Unsettled(b)
             m == IF r \in U THEN n + 1 ELSE n
             M == Made(b)
             x == <<r, Len(tried[r]) + 1>>
  <2>1. n \in Nat /\ IsFiniteSet(U) /\ IsFiniteSet(M) /\ n + Cardinality(U) = Cardinality(M)
    BY SMTT(30), <1>1 DEF BackendCharge
  <2>2. ASSUME NEW v \in Verdicts \ {"rethrown"}, Leave(r, v)
        PROVE  BackendCharge(b)'
    <3>1. Unsettled(b)' = U \ {r} /\ Made(b)' = M
      BY <1>1, <2>2, LeaveSets
    <3>2. PICK y : y \notin M
      <4>1. PICK z : z = M
        OBVIOUS
      <4>2. {w \in z : w \notin w} \notin z
        OBVIOUS
      <4>3. QED
        BY <4>1, <4>2
    <3>3. IsFiniteSet(U \ {r}) /\ m + Cardinality(U \ {r}) = Cardinality(M)
      <4> HIDE DEF n, U, M
      <4>1. Balanced(U, M, n, r, y)
        BY Zenon, <2>1, <3>2, OneCharge
      <4>2. QED
        BY <4>1 DEF Balanced
    <3>4. Succ'[b] + Fail'[b] = m
      BY <1>4
    <3>5. QED
      BY <2>1, <3>1, <3>3, <3>4 DEF BackendCharge
  <2>3. ASSUME BeginAttempt(r)
        PROVE  BackendCharge(b)'
    <3>1. PICK c \in Backends : tried' = [tried EXCEPT ![r] = Append(@, c)]
      BY <1>1, <2>3, BeginStep
    <3>2. /\ x \notin M
          /\ Unsettled(b)' = (U \ {r}) \cup (IF b = c THEN {r} ELSE {})
          /\ Made(b)' = M \cup (IF b = c THEN {x} ELSE {})
      <4>1. LoopType
        BY <1>1
      <4>2. Begun(b, r, c)
        BY Zenon, <2>3, <3>1, <4>1, BeginSets
      <4>3. QED
        BY <4>2 DEF Begun
    <3>3. /\ IsFiniteSet(U \ {r}) /\ IsFiniteSet((U \ {r}) \cup {r})
          /\ IsFiniteSet(M \cup {x})
          /\ m + Cardinality(U \ {r}) = Cardinality(M)
          /\ m + Cardinality((U \ {r}) \cup {r}) = Cardinality(M \cup {x})
      <4> HIDE DEF n, U, M, x
      <4>1. Balanced(U, M, n, r, x)
        BY Zenon, <2>1, <3>2, OneCharge
      <4>2. QED
        BY <4>1 DEF Balanced
    <3>4. Succ'[b] + Fail'[b] = m
      BY SMTT(30), <1>4
    <3>5. CASE b = c
      <4>1. Unsettled(b)' = (U \ {r}) \cup {r} /\ Made(b)' = M \cup {x}
        BY SMTT(30), <3>2, <3>5
      <4> HIDE DEF U, M, x, m
      <4>2. QED
        BY <3>3, <3>4, <4>1 DEF BackendCharge
    <3>6. CASE b # c
      <4>1. Unsettled(b)' = U \ {r} /\ Made(b)' = M
        BY <3>2, <3>6
      <4> HIDE DEF U, M, x, m
      <4>2. QED
        BY <2>1, <3>3, <3>4, <4>1 DEF BackendCharge
    <3>7. QED
      BY <3>5, <3>6
  <2>4. QED
    BY <1>4, <2>2, <2>3
<1>5. ASSUME NEW r \in Requests,
             verdict[r] = "none", ~running[r],
             Leave(r, "exhausted") \/ BeginAttempt(r),
             UNCHANGED <<Succ, Fail, Incomplete>>
      PROVE  BackendCharge(b)'
  <2>1. r \notin Unsettled(b)
    BY <1>5 DEF Unsettled
  <2>2. QED
    BY <1>4, <1>5, <2>1 DEF Verdicts
<1>6. ASSUME NEW r \in Requests,
             running[r],
             \/ Succ' = [Succ EXCEPT ![Current(r)] = @ + 1] /\ UNCHANGED Fail
             \/ Fail' = [Fail EXCEPT ![Current(r)] = @ + 1] /\ UNCHANGED Succ,
             \/ \E v \in Verdicts \ {"rethrown"} : Leave(r, v)
             \/ BeginAttempt(r)
      PROVE  BackendCharge(b)'
  <2>1. r \in Unsettled(b) <=> Current(r) = b
    BY <1>6 DEF Unsettled
  <2>2. Succ'[b] + Fail'[b]
            = (IF Current(r) = b THEN Succ[b] + Fail[b] + 1 ELSE Succ[b] + Fail[b])
    <3>1. PICK c : c = Current(r)
      OBVIOUS
    <3>2. \/ Succ' = [Succ EXCEPT ![c] = @ + 1] /\ Fail' = Fail
          \/ Fail' = [Fail EXCEPT ![c] = @ + 1] /\ Succ' = Succ
      BY <1>6, <3>1
    <3>3. Succ'[b] + Fail'[b] = (IF c = b THEN Succ[b] + Fail[b] + 1 ELSE Succ[b] + Fail[b])
      BY SMTT(30), <1>1, <3>2
    <3>4. QED
      BY <3>1, <3>3
  <2>3. QED
    BY SMTT(30), <1>4, <1>6, <2>1, <2>2
<1>7. QED
  BY <1>2, <1>3, <1>5, <1>6, ChargeStep DEF Verdicts

(* Incomplete_ counts the requests cut short.                              *)
LEMMA CutShortStep ==
    ASSUME IInv, [Next]_vars, IsFiniteSet(CutShort), Incomplete = Cardinality(CutShort)
    PROVE  IsFiniteSet(CutShort') /\ Incomplete' = Cardinality(CutShort')
<1>1. LoopType /\ LoopShape
  BY DEF IInv, TypeInv
<1>2. CASE Incomplete' = Incomplete /\ CutShort' = CutShort
  BY <1>2
<1>3. ASSUME NEW r \in Requests, running[r], Leave(r, "incomplete"),
             Incomplete' = Incomplete + 1
      PROVE  IsFiniteSet(CutShort') /\ Incomplete' = Cardinality(CutShort')
  <2>1. r \notin CutShort
    BY <1>1, <1>3 DEF LoopShape, CutShort
  <2>2. CutShort' = CutShort \cup {r}
    BY SMTT(30), <1>1, <1>3 DEF Leave, LoopType, CutShort
  <2> HIDE DEF CutShort
  <2>3. QED
    BY <1>3, <2>1, <2>2, FS_AddElement
<1>4. ASSUME NEW r \in Requests, running[r] \/ (verdict[r] = "none"),
             \/ BeginAttempt(r)
             \/ \E v \in {"ok", "refused", "exhausted", "rethrown"} : Leave(r, v)
      PROVE  CutShort' = CutShort
  <2>1. CASE BeginAttempt(r)
    BY <2>1 DEF BeginAttempt, CutShort
  <2>2. ASSUME NEW v \in {"ok", "refused", "exhausted", "rethrown"}, Leave(r, v)
        PROVE  CutShort' = CutShort
    <3>1. verdict[r] = "none"
      BY <1>1, <1>4 DEF LoopShape
    <3>2. verdict' = [verdict EXCEPT ![r] = v]
      BY <2>2 DEF Leave
    <3>3. \A q \in Requests : verdict'[q] = "incomplete" <=> verdict[q] = "incomplete"
      BY <1>1, <3>1, <3>2 DEF LoopType
    <3>4. QED
      BY <3>3 DEF CutShort
  <2>3. QED
    BY <1>4, <2>1, <2>2
<1>5. CASE UNCHANGED <<verdict, running, tried, Succ, Fail, Incomplete>>
  BY <1>2, <1>5 DEF CutShort
<1>6. QED
  BY <1>2, <1>3, <1>4, <1>5, ChargeStep

(* Every attempt is charged to its backend once, whatever the requests     *)
(* interleave: as completed, as failed, or not at all; and Incomplete_     *)
(* counts the requests cut short.                                          *)
THEOREM AttemptsChargedOnce == Spec => []ChargedOnce
<1> DEFINE CInv == /\ \A b \in Backends : BackendCharge(b)
                   /\ IsFiniteSet(CutShort) /\ Incomplete = Cardinality(CutShort)
<1>1. Init => CInv
  <2> SUFFICES ASSUME Init
               PROVE  CInv
    OBVIOUS
  <2>1. CutShort = {}
    BY DEF Init, CutShort
  <2>2. ASSUME NEW b \in Backends
        PROVE  BackendCharge(b)
    <3>1. Unsettled(b) = {}
      BY SMTT(30) DEF Init, Unsettled
    <3>2. Made(b) = {}
      BY DEF Init, Made, On
    <3>3. QED
      BY <3>1, <3>2, FS_EmptySet DEF Init, BackendCharge
  <2>3. QED
    BY <2>1, <2>2, FS_EmptySet DEF Init
<1>2. CInv /\ IInv /\ [Next]_vars => CInv'
  BY SMTT(30), BackendChargeStep, CutShortStep
<1>3. CInv => ChargedOnce
  BY DEF BackendCharge, ChargedOnce, Made, CutShort
<1>4. QED
  <2> HIDE DEF CInv
  <2>1. QED
    BY <1>1, <1>2, <1>3, BalancerInvariance, PTL DEF Spec
=============================================================================
