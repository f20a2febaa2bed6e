------------------------------ MODULE Balancer ------------------------------
(***************************************************************************)
(* The balancer module: the retry loop of DoRun, the TConnIterator that    *)
(* picks a backend for each attempt, the arbiter that authorises another   *)
(* attempt, the TRewindAbleInput that replays the request to it and the    *)
(* TCountOutput that tells whether the client has been answered.           *)
(*                                                                         *)
(* Each request runs in a coroutine of its own and all of them share the   *)
(* arbiter and the backends' counters.  A coroutine is switched out only   *)
(* inside IModule::Run, when it waits for the backend or for the client,   *)
(* so the whole way from the return of one Run to the call of the next     *)
(* (the handler, the arbiter, Rewind and Next) is a single step.           *)
(***************************************************************************)
EXTENDS Integers, Sequences, FiniteSets

CONSTANTS
    Requests,       \* the requests the module serves
    Backends,       \* the configured backends
    Attempts,       \* Attempts_, the "attempts" key of the configuration
    Slots,          \* the length of TConnIterator::Attempts_ (16)
    MaxBody,        \* bound: chunks of a request
    MaxAnswer,      \* bound: chunks an attempt sends
    Unit,           \* 1.0 in the arbiter's units
    SuccSummand,    \* SuccSummand_ of the additive arbiter, in units
    FailSummand,    \* FailSummand_ of the additive arbiter, in units
    LoWatermark,    \* LoWatermark_ of the watermark arbiter, in units
    HiWatermark     \* HiWatermark_ of the watermark arbiter, in units

(* Nothing in the code keeps "attempts" within the iterator's array: that  *)
(* it is so is an assumption on the configuration.                         *)
ASSUME AttemptsAssumption ==
    /\ Slots \in Nat
    /\ Attempts \in 0 .. Slots

ASSUME BackendsAssumption == IsFiniteSet(Backends) /\ Backends # {}

ASSUME BoundsAssumption == MaxBody \in Nat /\ MaxAnswer \in Nat

(* The watermark arbiter refuses a configuration with lo > hi; the others  *)
(* are what the summands mean.                                             *)
ASSUME ArbiterAssumption ==
    /\ Unit \in Nat \ {0}
    /\ SuccSummand \in 1 .. Unit
    /\ FailSummand \in Nat \ {0}
    /\ LoWatermark \in 0 .. Unit
    /\ HiWatermark \in LoWatermark .. Unit

(* The unit is fine enough for 1 / SuccSummand_ to be whole.               *)
ASSUME UnitAssumption == (Unit * Unit) % SuccSummand = 0

VARIABLES
    arbiter,        \* the kind of arbiter that is configured
    FailRate,       \* FailRate_ of that arbiter, in units
    Enabled,        \* Enabled_ of the watermark arbiter
    Succ,           \* requests each backend completed (OnCompleteRequest)
    Fail,           \* requests each backend failed (OnFailRequest)
    Incomplete,     \* Incomplete_
    completed,      \* successes registered with the arbiter
    verdict,        \* how DoRun left, "none" before
    running,        \* the request is inside an attempt's Run
    attempts,       \* the loop's counter: attempts left
    tried,          \* Attempts_[0 .. Cur_ - 1] of the request's iterator
    Old,            \* Old_ of the rewindable input
    Tmp,            \* Tmp_ of the rewindable input
    arrived,        \* chunks read from the client so far
    seen,           \* what the current attempt has read
    Written,        \* Written_ of the counting output
    gone,           \* the client's socket has failed
    heard,          \* for each chunk that reached the client, its attempt
    retries         \* attempts made after a failed one, by all requests

arbiterVars == <<arbiter, FailRate, Enabled>>
loopVars == <<verdict, running, attempts, tried, retries>>
inputVars == <<Old, Tmp, arrived, seen>>
outputVars == <<Written, gone, heard>>
statVars == <<Succ, Fail, Incomplete, completed>>

vars == <<arbiterVars, loopVars, inputVars, outputVars, statVars>>

-----------------------------------------------------------------------------
(* What an attempt may throw: an HTTP error other than 5xx, a 5xx, EPIPE,  *)
(* or anything else (another system error, a parse error).                 *)
Errors == {"http", "http5xx", "epipe", "other"}

Verdicts == {"none", "ok", "rethrown", "incomplete", "refused", "exhausted"}

Arbiters == {"fake", "additive", "watermark"}

(* The client's request: chunk i is the number i.                          *)
Body(n) == [i \in 1 .. n |-> i]

Init ==
    /\ arbiter \in Arbiters
    /\ FailRate = 0
    /\ Enabled = TRUE
    /\ Succ = [b \in Backends |-> 0]
    /\ Fail = [b \in Backends |-> 0]
    /\ Incomplete = 0
    /\ completed = 0
    /\ verdict = [r \in Requests |-> "none"]
    /\ running = [r \in Requests |-> FALSE]
    /\ attempts = [r \in Requests |-> Attempts]
    /\ tried = [r \in Requests |-> <<>>]
    /\ Old = [r \in Requests |-> <<>>]
    /\ Tmp = [r \in Requests |-> <<>>]
    /\ arrived = [r \in Requests |-> 0]
    /\ seen = [r \in Requests |-> <<>>]
    /\ Written = [r \in Requests |-> 0]
    /\ gone = [r \in Requests |-> FALSE]
    /\ heard = [r \in Requests |-> <<>>]
    /\ retries = 0

-----------------------------------------------------------------------------
(* The arbiters.  The additive one adds and subtracts; it authorises while *)
(* the rate is below 1 / SuccSummand_.                                     *)
AlarmValue == (Unit * Unit) \div SuccSummand

(* TMiddleValueTracker: Add(0) never raises the mean and Add(1) never      *)
(* lowers it; how far it moves is left open.                               *)
MeanAfter(m, failed) == IF failed THEN m .. Unit ELSE 0 .. m

(* Mutant of RegisterFail: the watermark arbiter compares the rate it had. *)
RegisterFailStale ==
    /\ \/ arbiter = "fake" /\ UNCHANGED <<FailRate, Enabled>>
       \/ /\ arbiter = "additive"
          /\ FailRate' = FailRate + FailSummand
          /\ UNCHANGED Enabled
       \/ /\ arbiter = "watermark"
          /\ FailRate' \in MeanAfter(FailRate, TRUE)
          /\ Enabled' = (Enabled /\ ~(FailRate > HiWatermark))
    /\ UNCHANGED arbiter

RegisterSucc ==
    /\ \/ arbiter = "fake" /\ UNCHANGED <<FailRate, Enabled>>
       \/ /\ arbiter = "additive"
          /\ FailRate' = IF FailRate > SuccSummand
                         THEN FailRate - SuccSummand ELSE 0
          /\ UNCHANGED Enabled
       \/ /\ arbiter = "watermark"
          /\ FailRate' \in MeanAfter(FailRate, FALSE)
          /\ Enabled' = (Enabled \/ FailRate' < LoWatermark)
    /\ UNCHANGED arbiter

RegisterFail ==
    /\ \/ arbiter = "fake" /\ UNCHANGED <<FailRate, Enabled>>
       \/ /\ arbiter = "additive"
          /\ FailRate' = FailRate + FailSummand
          /\ UNCHANGED Enabled
       \/ /\ arbiter = "watermark"
          /\ FailRate' \in MeanAfter(FailRate, TRUE)
          /\ Enabled' = (Enabled /\ ~(FailRate' > HiWatermark))
    /\ UNCHANGED arbiter

(* Mutant of Authorize: one failure too many.                              *)
AuthorizeAtAlarm(rate, enabled) ==
    \/ arbiter = "fake"
    \/ arbiter = "additive" /\ rate <= AlarmValue
    \/ arbiter = "watermark" /\ enabled

(* Authorize, on the arbiter's state once the failure is registered.       *)
Authorize(rate, enabled) ==
    \/ arbiter = "fake"
    \/ arbiter = "additive" /\ rate < AlarmValue
    \/ arbiter = "watermark" /\ enabled

-----------------------------------------------------------------------------
AlreadyHave(t, b) == \E i \in DOMAIN t : t[i] = b

(* Mutant of NextBackend: off by one in the count of backends tried.       *)
NextBackendShort(t) ==
    {b \in Backends :
        ~(AlreadyHave(t, b) /\ Len(t) + 1 < Cardinality(Backends))}

(* TConnIterator::Next: the policy is asked until it names a backend that  *)
(* was not tried, or until as many were tried as there are.  Which one it  *)
(* names is the policy's business and is left open.                        *)
NextBackend(t) ==
    {b \in Backends : ~(AlreadyHave(t, b) /\ Len(t) < Cardinality(Backends))}

(* Mutant of Rewind: what the attempt left unread is dropped.              *)
RewindOver(r) ==
    /\ Old' = [Old EXCEPT ![r] = Tmp[r]]
    /\ Tmp' = [Tmp EXCEPT ![r] = <<>>]
    /\ seen' = [seen EXCEPT ![r] = <<>>]
    /\ UNCHANGED arrived

(* TRewindAbleInput::Rewind.                                               *)
Rewind(r) ==
    /\ Old' = [Old EXCEPT ![r] = @ \o Tmp[r]]
    /\ Tmp' = [Tmp EXCEPT ![r] = <<>>]
    /\ seen' = [seen EXCEPT ![r] = <<>>]
    /\ UNCHANGED arrived

(* The body of the loop up to Run.                                         *)
BeginAttempt(r) ==
    /\ attempts[r] > 0
    /\ Rewind(r)
    /\ \E b \in NextBackend(tried[r]) : tried' = [tried EXCEPT ![r] = Append(@, b)]
    /\ attempts' = [attempts EXCEPT ![r] = @ - 1]
    /\ running' = [running EXCEPT ![r] = TRUE]
    /\ retries' = IF tried[r] = <<>> THEN retries ELSE retries + 1
    /\ UNCHANGED verdict

(* DoRun is left: by return, or by an exception.                           *)
Leave(r, v) ==
    /\ verdict' = [verdict EXCEPT ![r] = v]
    /\ running' = [running EXCEPT ![r] = FALSE]
    /\ UNCHANGED <<attempts, tried, retries, inputVars>>

(* while (attempts--) ..., and the 503 behind it.                          *)
LoopHead(r) ==
    \/ BeginAttempt(r)
    \/ attempts[r] = 0 /\ Leave(r, "exhausted")

(* A request arrives and DoRun starts.                                     *)
DoRun(r) ==
    /\ verdict[r] = "none" /\ ~running[r]
    /\ LoopHead(r)
    /\ UNCHANGED <<arbiterVars, outputVars, statVars>>

-----------------------------------------------------------------------------
(* The attempt reads the request: TRewindAbleInput::DoRecv.  Old_ is given *)
(* out whole; when it is empty the client is asked for its next chunk.     *)
(* (At the end of the request nothing arrives and nothing changes.)        *)
DoRecv(r) ==
    /\ running[r]
    /\ \/ /\ Old[r] = <<>>
          /\ arrived[r] < MaxBody
          /\ Tmp' = [Tmp EXCEPT ![r] = Append(@, arrived[r] + 1)]
          /\ seen' = [seen EXCEPT ![r] = Append(@, arrived[r] + 1)]
          /\ arrived' = [arrived EXCEPT ![r] = @ + 1]
          /\ UNCHANGED Old
       \/ /\ Old[r] # <<>>
          /\ Tmp' = [Tmp EXCEPT ![r] = @ \o Old[r]]
          /\ seen' = [seen EXCEPT ![r] = @ \o Old[r]]
          /\ Old' = [Old EXCEPT ![r] = <<>>]
          /\ UNCHANGED arrived
    /\ UNCHANGED <<arbiterVars, loopVars, outputVars, statVars>>

(* Mutant of DoSend: the chunk is not counted.                             *)
DoSendUncounted(r) ==
    /\ running[r]
    /\ Len(heard[r]) < MaxAnswer
    /\ ~gone[r]
    /\ heard' = [heard EXCEPT ![r] = Append(@, Len(tried[r]))]
    /\ UNCHANGED <<Written, gone, arbiterVars, loopVars, inputVars, statVars>>

(* The attempt answers: TCountOutput::DoSend.  A client that has gone does *)
(* not hear the chunk, but the socket's queue may still take it.           *)
DoSend(r) ==
    /\ running[r]
    /\ Written[r] < MaxAnswer
    /\ Written' = [Written EXCEPT ![r] = @ + 1]
    /\ heard' = IF gone[r] THEN heard
                ELSE [heard EXCEPT ![r] = Append(@, Len(tried[r]))]
    /\ UNCHANGED <<gone, arbiterVars, loopVars, inputVars, statVars>>

(* The client's socket fails; its TSocketOut keeps the error for good.     *)
ClientGone(r) ==
    /\ running[r] /\ ~gone[r]
    /\ gone' = [gone EXCEPT ![r] = TRUE]
    /\ UNCHANGED <<Written, heard, arbiterVars, loopVars, inputVars, statVars>>

Current(r) == tried[r][Len(tried[r])]

(* Run returns.                                                            *)
Complete(r) ==
    /\ running[r]
    /\ Succ' = [Succ EXCEPT ![Current(r)] = @ + 1]
    /\ RegisterSucc
    /\ completed' = completed + 1
    /\ Leave(r, "ok")
    /\ UNCHANGED <<Fail, Incomplete, outputVars>>

(* Only 5xx errors, and system errors other than EPIPE, are failures of    *)
(* the backend.                                                            *)
Retriable(e) == e \notin {"http", "epipe"}

(* Mutant of Rethrow: the backend is charged before the error is examined. *)
RethrowCharged(r, e) ==
    /\ ~Retriable(e)
    /\ RegisterFail
    /\ Fail' = [Fail EXCEPT ![Current(r)] = @ + 1]
    /\ Leave(r, "rethrown")
    /\ UNCHANGED <<Succ, Incomplete, completed>>

(* Other errors are passed on as they are.                                 *)
Rethrow(r, e) ==
    /\ ~Retriable(e)
    /\ Leave(r, "rethrown")
    /\ UNCHANGED <<arbiterVars, statVars>>

(* Mutant of FailOver: an answer that has begun is not looked at.          *)
FailOverBlindly(r, e) ==
    /\ Retriable(e)
    /\ RegisterFail
    /\ Fail' = [Fail EXCEPT ![Current(r)] = @ + 1]
    /\ UNCHANGED <<Succ, completed, Incomplete>>
    /\ \/ ~Authorize(FailRate', Enabled') /\ Leave(r, "refused")
       \/ Authorize(FailRate', Enabled') /\ LoopHead(r)

(* The failure is charged to the backend; then the request is given up if  *)
(* the client has been answered or the arbiter says so, or else it goes    *)
(* back to the head of the loop.                                           *)
FailOver(r, e) ==
    /\ Retriable(e)
    /\ RegisterFail
    /\ Fail' = [Fail EXCEPT ![Current(r)] = @ + 1]
    /\ UNCHANGED <<Succ, completed>>
    /\ \/ /\ Written[r] > 0
          /\ Incomplete' = Incomplete + 1
          /\ Leave(r, "incomplete")
       \/ /\ Written[r] = 0
          /\ ~Authorize(FailRate', Enabled')
          /\ Leave(r, "refused")
          /\ UNCHANGED Incomplete
       \/ /\ Written[r] = 0
          /\ Authorize(FailRate', Enabled')
          /\ LoopHead(r)
          /\ UNCHANGED Incomplete

Catch(r, e) == Rethrow(r, e) \/ FailOver(r, e)

(* Run throws for a reason of the backend or of the request.               *)
Throw(r, e) ==
    /\ running[r]
    /\ Catch(r, e)
    /\ UNCHANGED outputVars

(* Run throws because Send did.  The client's socket has failed, part of   *)
(* the chunk may have reached the client, and DoSend did not get to count  *)
(* it.  That a failed socket carries nothing more is assumed of the        *)
(* kernel: TSocketOut goes on offering it data, whatever Err_ is.          *)
SendThrows(r, e) ==
    /\ running[r]
    /\ e \in {"epipe", "other"}
    /\ Catch(r, e)
    /\ gone' = [gone EXCEPT ![r] = TRUE]
    /\ \/ UNCHANGED heard
       \/ ~gone[r] /\ heard' = [heard EXCEPT ![r] = Append(@, Len(tried[r]))]
    /\ UNCHANGED Written

Next ==
    \E r \in Requests :
        \/ DoRun(r)
        \/ DoRecv(r)
        \/ DoSend(r)
        \/ ClientGone(r)
        \/ Complete(r)
        \/ \E e \in Errors : Throw(r, e) \/ SendThrows(r, e)

Spec == Init /\ [][Next]_vars

-----------------------------------------------------------------------------
(* Every variable holds a value of its type.                               *)
TypeOK ==
    /\ arbiter \in Arbiters
    /\ FailRate \in Nat
    /\ Enabled \in BOOLEAN
    /\ Succ \in [Backends -> Nat]
    /\ Fail \in [Backends -> Nat]
    /\ Incomplete \in Nat
    /\ completed \in Nat
    /\ verdict \in [Requests -> Verdicts]
    /\ running \in [Requests -> BOOLEAN]
    /\ attempts \in [Requests -> 0 .. Attempts]
    /\ tried \in [Requests -> Seq(Backends)]
    /\ Old \in [Requests -> Seq(Nat)]
    /\ Tmp \in [Requests -> Seq(Nat)]
    /\ arrived \in [Requests -> Nat]
    /\ seen \in [Requests -> Seq(Nat)]
    /\ Written \in [Requests -> Nat]
    /\ gone \in [Requests -> BOOLEAN]
    /\ heard \in [Requests -> Seq(Nat)]
    /\ retries \in Nat

(* Replay (TRewindAbleInput): at every moment of every attempt, what the   *)
(* attempt has read followed by what waits in Old_ is exactly what the     *)
(* client has sent so far, in its order: a retry reads the request from    *)
(* the start, whatever part of it the failed attempts had read, and no     *)
(* chunk is lost, repeated or moved.                                       *)
FullReplay ==
    \A r \in Requests : seen[r] \o Old[r] = Body(arrived[r])

(* The chunks that reached a client all come from the same attempt: DoRun  *)
(* does not retry once the output has counted a byte, and a send that      *)
(* throws before it is counted leaves a socket that carries no more.       *)
OneVoice ==
    \A r \in Requests :
        \A i, j \in DOMAIN heard[r] : heard[r][i] = heard[r][j]

(* TConnIterator: as long as there are backends that were not tried, an    *)
(* attempt goes to one of them, and an iterator never holds more backends  *)
(* than its array has room for.                                            *)
FreshBackends ==
    \A r \in Requests :
        /\ Len(tried[r]) <= Slots
        /\ \A i, j \in DOMAIN tried[r] :
               i < j /\ j <= Cardinality(Backends) => tried[r][i] # tried[r][j]

(* The attempts a request has made on b.                                   *)
On(r, b) == {i \in DOMAIN tried[r] : tried[r][i] = b}

(* The attempt on b that is not settled: it still runs, or its error was   *)
(* passed on as no fault of the backend.                                   *)
Unsettled(b) ==
    {r \in Requests : (running[r] \/ verdict[r] = "rethrown") /\ Current(r) = b}

(* Every attempt is charged to its backend once: as completed, as failed,  *)
(* or (an HTTP error below 500, EPIPE) not at all; and Incomplete_ counts  *)
(* the requests cut short.                                                 *)
ChargedOnce ==
    /\ \A b \in Backends :
           Succ[b] + Fail[b] + Cardinality(Unsettled(b))
               = Cardinality(UNION {{<<r, i>> : i \in On(r, b)} : r \in Requests})
    /\ Incomplete = Cardinality({r \in Requests : verdict[r] = "incomplete"})

(* The additive arbiter is a retry budget: however the requests            *)
(* interleave, the retries made so far are paid for by the successes       *)
(* registered so far and the initial allowance 1 / SuccSummand_.           *)
RetryBudget ==
    arbiter = "additive" /\ retries > 0 =>
        retries * FailSummand < AlarmValue + completed * SuccSummand

(* The watermark arbiter's hysteresis: while it authorises the mean        *)
(* failure rate is not above the high mark, and while it refuses the rate  *)
(* is not below the low one.                                               *)
Hysteresis ==
    arbiter = "watermark" =>
        /\ Enabled => FailRate <= HiWatermark
        /\ ~Enabled => FailRate >= LoWatermark

(* The attempt the client heard last.                                      *)
Voice(r) == IF heard[r] = <<>> THEN 0 ELSE heard[r][Len(heard[r])]

Contract == INSTANCE BalancerContract WITH voice <- [r \in Requests |-> Voice(r)]

(* The retry loop implements the contract of BalancerContract: one voice   *)
(* per client, one verdict per request, no verdict that contradicts what   *)
(* the client was told.                                                    *)
KeepsContract == Contract!Spec
=============================================================================
