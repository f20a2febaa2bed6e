--------------------------- MODULE ExecutorProofs ---------------------------
(***************************************************************************)
(* Proofs that the coroutine engine keeps its safety invariants, for any   *)
(* number of coroutines and channels and any bound on the clock.           *)
(***************************************************************************)
EXTENDS Executor, TLAPS

(* The elements of a sequence, and that no element occurs twice in it.     *)
Els(s) == {s[i] : i \in 1..Len(s)}
Once(s) == \A i, j \in 1..Len(s) : s[i] = s[j] => i = j

(* Taking an element out of an intrusive list leaves the others, once.     *)
LEMMA UnlinkLemma ==
    ASSUME NEW S, NEW s \in Seq(S), Once(s), NEW c
    PROVE  /\ Unlink(s, c) \in Seq(S)
           /\ Once(Unlink(s, c))
           /\ Els(Unlink(s, c)) = Els(s) \ {c}
<1>1. CASE \E i \in 1..Len(s) : s[i] = c
  <2> DEFINE k == CHOOSE i \in 1..Len(s) : s[i] = c
             t == [i \in 1..(Len(s) - 1) |-> IF i < k THEN s[i] ELSE s[i + 1]]
  <2>1. k \in 1..Len(s) /\ s[k] = c
    BY <1>1
  <2>2. Unlink(s, c) = t
    BY <1>1 DEF Unlink
  <2> HIDE DEF k
  <2>3. Len(s) \in Nat /\ Len(s) - 1 \in Nat
    BY <2>1
  <2>4. \A i \in 1..(Len(s) - 1) :
           t[i] = IF i < k THEN s[i] ELSE s[i + 1]
    OBVIOUS
  <2>5. t \in Seq(S) /\ Len(t) = Len(s) - 1
    <3>1. \A i \in 1..(Len(s) - 1) : (IF i < k THEN s[i] ELSE s[i + 1]) \in S
      BY <2>1
    <3> QED
      BY <2>3, <3>1
  <2> HIDE DEF t
  <2>6. Once(t)
    BY <2>1, <2>3, <2>4, <2>5 DEF Once
  <2>7. ASSUME NEW x \in Els(t) PROVE x \in Els(s) \ {c}
    <3>1. PICK i \in 1..(Len(s) - 1) : x = t[i]
      BY <2>5, <2>7 DEF Els
    <3>2. CASE i < k
      BY SMTT(60), <3>1, <3>2, <2>1, <2>3, <2>4 DEF Els, Once
    <3>3. CASE ~(i < k)
      BY <3>1, <3>3, <2>1, <2>3, <2>4 DEF Els, Once
    <3> QED
      BY <3>2, <3>3
  <2>8. ASSUME NEW x \in Els(s) \ {c} PROVE x \in Els(t)
    <3>1. PICK i \in 1..Len(s) : x = s[i]
      BY <2>8 DEF Els
    <3>2. CASE i < k
      <4>1. i \in 1..(Len(s) - 1) /\ t[i] = x
        BY <3>1, <3>2, <2>1, <2>3, <2>4
      <4> QED
        BY <4>1, <2>5 DEF Els
    <3>3. CASE i > k
      <4>1. i - 1 \in 1..(Len(s) - 1) /\ t[i - 1] = x
        BY <3>1, <3>3, <2>1, <2>3, <2>4
      <4> QED
        BY <4>1, <2>5 DEF Els
    <3> QED
      BY <3>1, <3>2, <3>3, <2>1, <2>8
  <2> QED
    BY <2>2, <2>5, <2>6, <2>7, <2>8
<1>2. CASE ~\E i \in 1..Len(s) : s[i] = c
  BY <1>2 DEF Unlink, Els
<1> QED
  BY <1>1, <1>2

(* PushBack moves the element to the end of the list, where it occurs      *)
(* once, whether it was in the list before or not.                         *)
LEMMA PushBackLemma ==
    ASSUME NEW S, NEW s \in Seq(S), Once(s), NEW c \in S
    PROVE  /\ PushBack(s, c) \in Seq(S)
           /\ PushBack(s, c) # <<>>
           /\ Once(PushBack(s, c))
           /\ Els(PushBack(s, c)) = Els(s) \cup {c}
<1> DEFINE u == Unlink(s, c)
           t == PushBack(s, c)
<1>1. u \in Seq(S) /\ Once(u) /\ Els(u) = Els(s) \ {c}
  BY UnlinkLemma
<1>2. t = Append(u, c)
  BY DEF PushBack
<1> HIDE DEF u, t
<1>3. /\ t \in Seq(S) /\ Len(t) = Len(u) + 1 /\ Len(u) \in Nat
      /\ \A i \in 1..Len(u) : t[i] = u[i]
      /\ t[Len(u) + 1] = c
  BY <1>1, <1>2
<1>4. t # <<>>
  BY <1>3
<1>5. \A i \in 1..Len(u) : u[i] # c
  BY <1>1 DEF Els
<1>6. Once(t)
  BY <1>1, <1>3, <1>5 DEF Once
<1>7. Els(t) = Els(u) \cup {c}
  <2>1. ASSUME NEW x \in Els(t) PROVE x \in Els(u) \cup {c}
    BY <1>3, <2>1 DEF Els
  <2>2. ASSUME NEW x \in Els(u) PROVE x \in Els(t)
    <3>1. PICK i \in 1..Len(u) : x = u[i]
      BY <2>2 DEF Els
    <3>2. i \in 1..Len(t) /\ x = t[i]
      BY <3>1, <1>3
    <3> QED
      BY <3>2 DEF Els
  <2>3. c \in Els(t)
    <3>1. Len(u) + 1 \in 1..Len(t)
      BY <1>3
    <3> QED
      BY <3>1, <1>3 DEF Els
  <2> QED
    BY <2>1, <2>2, <2>3
<1> QED
  BY <1>1, <1>3, <1>4, <1>6, <1>7 DEF t

(* PopFront takes the head out of the list and leaves the others, once.    *)
LEMMA PopFrontLemma ==
    ASSUME NEW S, NEW s \in Seq(S), Once(s), s # <<>>
    PROVE  /\ Head(s) \in S
           /\ Head(s) \in Els(s)
           /\ Tail(s) \in Seq(S)
           /\ Once(Tail(s))
           /\ Els(Tail(s)) = Els(s) \ {Head(s)}
<1> DEFINE t == Tail(s)
<1>1. /\ Len(s) \in Nat /\ Len(s) > 0
      /\ t \in Seq(S) /\ Len(t) = Len(s) - 1
      /\ \A i \in 1..Len(t) : t[i] = s[i + 1]
      /\ Head(s) = s[1] /\ Head(s) \in S
  OBVIOUS
<1> HIDE DEF t
<1>2. Head(s) \in Els(s)
  <2>1. 1 \in 1..Len(s)
    BY <1>1
  <2> QED
    BY <2>1, <1>1 DEF Els
<1>3. Once(t)
  BY <1>1 DEF Once
<1>4. ASSUME NEW x \in Els(t) PROVE x \in Els(s) \ {Head(s)}
  <2>1. PICK i \in 1..Len(t) : x = t[i]
    BY <1>4 DEF Els
  <2>2. i + 1 \in 1..Len(s) /\ x = s[i + 1] /\ i + 1 # 1
    BY <2>1, <1>1
  <2> QED
    BY <2>2, <1>1 DEF Els, Once
<1>5. ASSUME NEW x \in Els(s) \ {Head(s)} PROVE x \in Els(t)
  <2>1. PICK i \in 1..Len(s) : x = s[i]
    BY <1>5 DEF Els
  <2>2. i - 1 \in 1..Len(t) /\ x = t[i - 1]
    BY <2>1, <1>1, <1>5
  <2> QED
    BY <2>2 DEF Els
<1> QED
  BY <1>1, <1>2, <1>3, <1>4, <1>5 DEF t

-----------------------------------------------------------------------------
(* The strengthening: what every phase of the scheduler loop knows.        *)
PhaseFacts ==
    /\ phase \in CoroutinePhases => Current \in Conts /\ life[Current] = "live"
    /\ \A c \in Conts : life[c] = "dead" =>
           phase \in SchedulerPhases \ {"pick", "stopped"}
    /\ phase \in {"delete", "pick", "stopped"} => Ready # <<>> \/ IoWait = {}
    /\ phase = "stopped" => Ready = <<>>
    /\ phase # "deliver" => todo = {}
    /\ \A e \in todo : IF e[2] = Timer THEN wait[e[1]].kind = "flush"
                                      ELSE report[e[2]] # "EINPROGRESS"
    /\ phase \in {"timeouts", "expire"} /\ ~pollFailed => horizon <= now

(* What a blocking call waits for.                                         *)
CallShape ==
    \A c \in Conts :
        /\ wait[c].kind = "none" <=> wait[c].on = {}
        /\ wait[c].kind = "flush" => wait[c].on = {Timer}

(* A coroutine inside a call is made ready only by a cancellation, its     *)
(* signal, one of its events, or the callback of the output it flushes.    *)
WokenForAReason ==
    \A c \in Conts :
        c \in Els(Ready) /\ wait[c].kind \notin {"none", "flush"} =>
            \/ cancelled[c]
            \/ signalled[c] /\ wait[c].kind = "event"
            \/ \E s \in wait[c].on : status[c][s] # "EINPROGRESS"

IInv ==
    /\ TypeOK
    /\ PhaseFacts
    /\ CallShape
    /\ WokenForAReason
    /\ OnePlace
    /\ NoneForgotten
    /\ NoLostWakeup
    /\ NoDanglingEvent
    /\ NoEarlyTimeout

(* The membership test of the invariants, in terms of Els.                 *)
LEMMA InReadyLemma == \A c : InReady(c) <=> c \in Els(Ready)
  BY DEF InReady, Els

(* Nobody is on an empty ready list.                                       *)
LEMMA NothingReady == Ready = <<>> => \A c : ~InReady(c)
  BY DEF InReady

(* The initial state, with one coroutine ready, satisfies the invariant.   *)
LEMMA InitIInv == Init => IInv
<1> SUFFICES ASSUME Init PROVE IInv
  OBVIOUS
<1>1. PICK c \in Conts :
        /\ phase = "pick"
        /\ Ready = <<c>>
        /\ Current = NoCont
        /\ life = [d \in Conts |-> IF d = c THEN "live" ELSE "free"]
        /\ cancelled = [d \in Conts |-> FALSE]
        /\ wait = [d \in Conts |-> NoWait]
        /\ status = [d \in Conts |-> AllInProgress]
        /\ signalled = [d \in Conts |-> FALSE]
        /\ IoWait = {}
        /\ ret = "none"
        /\ now = 0
        /\ horizon = 0
        /\ todo = {}
        /\ report = AllInProgress
        /\ pollFailed = FALSE
        /\ spawned = 0
  BY DEF Init
<1>2. Ready \in Seq(Conts) /\ Ready # <<>> /\ Els(Ready) = {c} /\ Once(Ready)
  BY <1>1 DEF Els, Once
<1>3. TypeOK
  <2>1. cancelled \in [Conts -> BOOLEAN] /\ signalled \in [Conts -> BOOLEAN]
        /\ pollFailed \in BOOLEAN
    BY <1>1, Zenon
  <2>2. /\ Never \in DeadLines /\ 0 \in DeadLines /\ now \in 0..MaxTime
        /\ horizon \in DeadLines /\ spawned \in 0..MaxSpawn
    BY <1>1, BoundsAssumption DEF DeadLines, Never
  <2>3. wait \in [Conts -> [kind : Kinds, on : SUBSET Sources, deadline : DeadLines]]
    BY <1>1, <2>2 DEF NoWait, Kinds
  <2>4. /\ status \in [Conts -> [Sources -> Statuses]]
        /\ report \in [Sources -> {"EINPROGRESS", "ok", "err"}]
    BY <1>1 DEF AllInProgress, Statuses
  <2>5. life \in [Conts -> {"free", "live", "dead"}] /\ ret \in Results
    BY <1>1 DEF Results
  <2> QED
    BY <1>1, <1>2, <2>1, <2>2, <2>3, <2>4, <2>5
    DEF TypeOK, CoroutinePhases, SchedulerPhases
<1>4. PhaseFacts /\ CallShape /\ WokenForAReason
  BY <1>1, <1>2
  DEF PhaseFacts, CallShape, WokenForAReason, CoroutinePhases, SchedulerPhases, NoWait
<1>5. OnePlace
  BY <1>1, <1>2, InReadyLemma DEF OnePlace, Running, CoroutinePhases, Once
<1>6. NoneForgotten /\ NoLostWakeup /\ NoDanglingEvent
  BY <1>1, <1>2, InReadyLemma
  DEF NoneForgotten, NoLostWakeup, NoDanglingEvent, NoWait
<1>7. NoEarlyTimeout
  BY <1>1 DEF NoEarlyTimeout, AllInProgress
<1> QED
  BY <1>3, <1>4, <1>5, <1>6, <1>7 DEF IInv

-----------------------------------------------------------------------------
(* Steps of the scheduler and of the clock that leave every coroutine      *)
(* where it is.                                                            *)
LEMMA SameConts ==
    ASSUME IInv,
           UNCHANGED <<Ready, Current, life, cancelled, wait, status, signalled, IoWait>>,
           phase \in CoroutinePhases <=> phase' \in CoroutinePhases,
           \A e \in todo' : e[2] \in wait[e[1]].on
    PROVE  /\ CallShape' /\ WokenForAReason' /\ OnePlace' /\ NoneForgotten'
           /\ NoLostWakeup' /\ NoDanglingEvent'
<1>1. \A c : Running(c)' <=> Running(c)
  BY DEF Running
<1>2. \A c : InReady(c)' <=> InReady(c)
  BY DEF InReady
<1>3. CallShape' /\ WokenForAReason'
  BY DEF IInv, CallShape, WokenForAReason
<1>4. OnePlace'
  BY <1>1, <1>2 DEF IInv, OnePlace
<1>5. NoneForgotten' /\ NoLostWakeup'
  BY <1>1, <1>2 DEF IInv, NoneForgotten, NoLostWakeup
<1>6. NoDanglingEvent'
  BY <1>1 DEF IInv, NoDanglingEvent
<1> QED
  BY <1>3, <1>4, <1>5, <1>6

(* The steps that only move the phase on.                                  *)
LEMMA PhaseSteps ==
    ASSUME IInv,
           \/ Abort \/ AbortWaitersDone \/ AbortDone \/ RefuseToBlock
           \/ Stop \/ IoDone \/ ExpireDone \/ DeliverDone
    PROVE  IInv'
<1>1. /\ UNCHANGED <<Ready, Current, life, cancelled, wait, status, signalled, IoWait>>
      /\ UNCHANGED <<now, horizon, todo, pollFailed, spawned>>
  BY DEF Abort, AbortWaitersDone, AbortDone, RefuseToBlock, Stop, IoDone,
         ExpireDone, DeliverDone
<1>2. /\ phase \in CoroutinePhases <=> phase' \in CoroutinePhases
      /\ phase' \in CoroutinePhases \cup SchedulerPhases
  BY DEF Abort, AbortWaitersDone, AbortDone, RefuseToBlock, Stop, IoDone,
         ExpireDone, DeliverDone, CoroutinePhases, SchedulerPhases
<1>3. /\ ret' \in Results
      /\ report' \in [Sources -> {"EINPROGRESS", "ok", "err"}]
  BY DEF IInv, TypeOK, Abort, AbortWaitersDone, AbortDone, RefuseToBlock, Stop,
         IoDone, ExpireDone, DeliverDone, Results, AllInProgress
<1>4. TypeOK'
  BY <1>1, <1>2, <1>3 DEF IInv, TypeOK
<1>5. PhaseFacts'
  BY <1>1 DEF IInv, PhaseFacts, Abort, AbortWaitersDone, AbortDone,
         RefuseToBlock, Stop, IoDone, ExpireDone, DeliverDone,
         CoroutinePhases, SchedulerPhases
<1>6. \A e \in todo' : e[2] \in wait[e[1]].on
  BY <1>1 DEF IInv, NoDanglingEvent
<1>7. NoEarlyTimeout'
  BY <1>1 DEF IInv, NoEarlyTimeout
<1> QED
  BY <1>1, <1>2, <1>4, <1>5, <1>6, <1>7, SameConts DEF IInv

(* The steps around the poll, and the clock.                               *)
LEMMA PollSteps ==
    ASSUME IInv,
           CancelTimedOut \/ PollNothing \/ PollEvents \/ Tick
    PROVE  IInv'
<1> USE DEF IInv
<1>1. UNCHANGED <<Ready, Current, life, cancelled, wait, status, signalled, IoWait>>
      /\ UNCHANGED <<ret, spawned>>
  BY DEF CancelTimedOut, PollNothing, PollEvents, Tick
<1>2. /\ phase \in CoroutinePhases <=> phase' \in CoroutinePhases
      /\ phase' \in CoroutinePhases \cup SchedulerPhases
  BY DEF CancelTimedOut, PollNothing, PollEvents, Tick, CoroutinePhases,
         SchedulerPhases, TypeOK
<1>3. CASE CancelTimedOut
  <2>1. now \in DeadLines /\ \A e \in IoWait : wait[e[1]].deadline \in DeadLines
    BY BoundsAssumption DEF TypeOK, DeadLines, Never
  <2>2. horizon' \in DeadLines /\ UNCHANGED <<now, todo, report, pollFailed>>
    BY <1>3, <2>1 DEF CancelTimedOut
  <2>3. TypeOK'
    BY <1>1, <1>2, <2>2 DEF TypeOK
  <2>4. horizon' <= now \/ phase' = "poll"
    BY <1>3, <2>1 DEF CancelTimedOut, DeadLines, Never
  <2>5. PhaseFacts'
    BY <1>1, <1>3, <2>2, <2>4 DEF CancelTimedOut, PhaseFacts, CoroutinePhases, SchedulerPhases
  <2>6. \A e \in todo' : e[2] \in wait[e[1]].on
    BY <2>2 DEF NoDanglingEvent
  <2>7. NoEarlyTimeout'
    BY <1>1, <2>2 DEF NoEarlyTimeout
  <2> QED
    BY <1>1, <1>2, <2>3, <2>5, <2>6, <2>7, SameConts
<1>4. CASE PollNothing
  <2>1. UNCHANGED <<now, horizon, todo, report>> /\ pollFailed' \in BOOLEAN
    BY Zenon, <1>4 DEF PollNothing, TypeOK
  <2>2. TypeOK'
    BY <1>1, <1>2, <2>1 DEF TypeOK
  <2>3. ~pollFailed' => ~pollFailed /\ horizon <= now
    BY <1>4 DEF PollNothing, TypeOK, DeadLines, Never
  <2>4. PhaseFacts'
    BY <1>1, <1>4, <2>1, <2>3 DEF PollNothing, PhaseFacts, CoroutinePhases, SchedulerPhases
  <2>5. \A e \in todo' : e[2] \in wait[e[1]].on
    BY <2>1 DEF NoDanglingEvent
  <2>6. NoEarlyTimeout'
    BY SMTT(30), <1>1, <2>1, <2>3 DEF NoEarlyTimeout
  <2> QED
    BY <1>1, <1>2, <2>2, <2>4, <2>5, <2>6, SameConts
<1>5. CASE PollEvents
  <2>1. UNCHANGED <<now, horizon, pollFailed>>
    BY <1>5 DEF PollEvents
  <2>2. PICK r \in [Chans -> {"EINPROGRESS", "ok", "err"}], f \in SUBSET Conts :
          /\ \A c \in f : wait[c].kind = "flush"
          /\ todo' = {e \in Conts \X Chans :
                         /\ e[2] \in wait[e[1]].on
                         /\ r[e[2]] # "EINPROGRESS"} \cup (f \X {Timer})
          /\ report' = [s \in Sources |->
                           IF s = Timer THEN "EINPROGRESS" ELSE r[s]]
    BY Zenon, <1>5 DEF PollEvents
  <2>3. todo' \subseteq Conts \X Sources
    BY <2>2 DEF Sources
  <2>4. report' \in [Sources -> {"EINPROGRESS", "ok", "err"}]
    BY <2>2 DEF Sources
  <2>5. TypeOK'
    BY SMTT(30), <1>1, <1>2, <2>1, <2>3, <2>4 DEF TypeOK
  <2>6. PhaseFacts'
    <3>1. \A e \in todo' : IF e[2] = Timer THEN wait[e[1]].kind = "flush"
                                         ELSE report'[e[2]] # "EINPROGRESS"
      <4>1. ASSUME NEW e \in f \X {Timer} PROVE e[2] = Timer /\ wait[e[1]].kind = "flush"
        BY <2>2
      <4>2. ASSUME NEW e \in Conts \X Chans, r[e[2]] # "EINPROGRESS"
            PROVE  e[2] # Timer /\ report'[e[2]] # "EINPROGRESS"
        BY <2>2, <4>2, TimerAssumption DEF Sources
      <4> QED
        BY <2>2, <4>1, <4>2
    <3> QED
      BY <1>1, <1>5, <2>1, <3>1
      DEF PollEvents, PhaseFacts, CoroutinePhases, SchedulerPhases
  <2>7. \A e \in todo' : e[2] \in wait[e[1]].on
    BY <2>2 DEF CallShape
  <2>8. NoEarlyTimeout'
    BY <1>1, <2>1 DEF NoEarlyTimeout
  <2> QED
    BY <1>1, <1>2, <2>5, <2>6, <2>7, <2>8, SameConts
<1>6. CASE Tick
  <2>1. /\ UNCHANGED <<phase, horizon, todo, report, pollFailed>>
        /\ now' = now + 1 /\ now' \in 0..MaxTime
    BY <1>6, BoundsAssumption DEF Tick, TypeOK
  <2>2. TypeOK'
    BY <1>1, <1>2, <2>1 DEF TypeOK
  <2>3. now \in Nat /\ horizon \in Nat
        /\ \A c \in Conts : wait[c].deadline \in Nat
    BY BoundsAssumption DEF TypeOK, DeadLines, Never
  <2>4. PhaseFacts'
    BY <1>1, <2>1, <2>3 DEF PhaseFacts
  <2>5. \A e \in todo' : e[2] \in wait[e[1]].on
    BY <2>1 DEF NoDanglingEvent
  <2>6. NoEarlyTimeout'
    BY <1>1, <2>1, <2>3 DEF NoEarlyTimeout
  <2> QED
    BY <1>1, <1>2, <2>2, <2>4, <2>5, <2>6, SameConts
<1> QED
  BY <1>3, <1>4, <1>5, <1>6

-----------------------------------------------------------------------------
(* PushBackLemma for the ready list.                                       *)
LEMMA PushReadyLemma ==
    ASSUME NEW d \in Conts, Ready \in Seq(Conts), Once(Ready)
    PROVE  /\ PushBack(Ready, d) \in Seq(Conts)
           /\ PushBack(Ready, d) # <<>>
           /\ Once(PushBack(Ready, d))
           /\ Els(PushBack(Ready, d)) = Els(Ready) \cup {d}
<1>1. PushBack(Ready, d) \in Seq(Conts) /\ Once(PushBack(Ready, d))
  BY PushBackLemma, Zenon
<1>2. PushBack(Ready, d) # <<>>
  BY PushBackLemma, SMT
<1>3. Els(PushBack(Ready, d)) = Els(Ready) \cup {d}
  BY PushBackLemma, SMT
<1> QED
  BY <1>1, <1>2, <1>3

(* Steps that make one parked or ready coroutine ready.                    *)
LEMMA ReadyGains ==
    ASSUME IInv, NEW d \in Conts, Ready' = PushBack(Ready, d)
    PROVE  /\ Ready' \in Seq(Conts) /\ Ready' # <<>> /\ Once(Ready')
           /\ Els(Ready') = Els(Ready) \cup {d}
           /\ \A c : InReady(c) <=> c \in Els(Ready)
           /\ \A c : InReady(c)' <=> c \in Els(Ready) \cup {d}
<1>1. Ready \in Seq(Conts) /\ Once(Ready)
  BY DEF IInv, TypeOK, OnePlace, Once
<1>2. /\ Ready' \in Seq(Conts) /\ Ready' # <<>> /\ Once(Ready')
      /\ Els(Ready') = Els(Ready) \cup {d}
  BY <1>1, PushReadyLemma
<1>3. \A c : InReady(c) <=> c \in Els(Ready)
  BY InReadyLemma
<1>4. \A c : InReady(c)' <=> c \in Els(Ready')
  BY DEF InReady, Els
<1> QED
  BY <1>2, <1>3, <1>4

(* WakeWith: one event of d fires.                                         *)
LEMMA EventFires ==
    ASSUME IInv, NEW d \in Conts, NEW s \in Sources, NEW st \in Statuses,
           s \in wait[d].on, st # "EINPROGRESS",
           st = "ETIMEDOUT" /\ ~pollFailed => wait[d].deadline <= now,
           WakeWith(d, s, st),
           UNCHANGED <<phase, Current, life, cancelled, wait, signalled, ret,
                       now, horizon, report, pollFailed, spawned>>,
           todo' \subseteq todo
    PROVE  IInv'
<1> USE DEF IInv
<1>1. /\ status' = [status EXCEPT ![d][s] = st]
      /\ IoWait' = IoWait \ {<<d, s>>}
      /\ Ready' = PushBack(Ready, d)
  BY DEF WakeWith
<1>2. /\ Ready' \in Seq(Conts) /\ Ready' # <<>> /\ Once(Ready')
      /\ Els(Ready') = Els(Ready) \cup {d}
      /\ \A c : InReady(c) <=> c \in Els(Ready)
      /\ \A c : InReady(c)' <=> c \in Els(Ready) \cup {d}
  BY Zenon, <1>1, ReadyGains
<1>3. life[d] = "live" /\ ~Running(d)
  BY DEF NoDanglingEvent
<1>4. \A c : Running(c)' <=> Running(c)
  BY DEF Running
<1>5. /\ status' \in [Conts -> [Sources -> Statuses]]
      /\ status'[d][s] = st
      /\ \A c \in Conts, u \in Sources :
            c # d \/ u # s => status'[c][u] = status[c][u]
  BY <1>1 DEF TypeOK
<1>6. \A c \in Conts : wait[c].on \subseteq Sources
  BY DEF TypeOK
<1>7. TypeOK'
  BY <1>1, <1>2, <1>5 DEF TypeOK
<1>8. PhaseFacts'
  <2>1. ASSUME phase = "stopped" PROVE FALSE
    <3>1. Ready = <<>> /\ IoWait = {}
      BY Zenon, <2>1 DEF PhaseFacts
    <3>2. ~InReady(d)
      BY <3>1, NothingReady, Zenon
    <3> QED
      BY ZenonT(60), <1>3, <3>1, <3>2 DEF NoneForgotten
  <2> QED
    BY ZenonT(60), <1>1, <1>2, <2>1 DEF PhaseFacts
<1>9. CallShape'
  BY Zenon DEF CallShape
<1>10. WokenForAReason'
  <2> SUFFICES ASSUME NEW c \in Conts, c \in Els(Ready'),
                      wait[c].kind \notin {"none", "flush"}
               PROVE  \/ cancelled[c]
                      \/ signalled[c] /\ wait[c].kind = "event"
                      \/ \E u \in wait[c].on : status'[c][u] # "EINPROGRESS"
    BY Zenon DEF WokenForAReason
  <2>1. CASE c = d
    BY ZenonT(60), <2>1, <1>5
  <2>2. CASE c # d
    BY ZenonT(60), <2>2, <1>2, <1>5, <1>6 DEF WokenForAReason
  <2> QED
    BY Zenon, <2>1, <2>2
<1>11. OnePlace'
  <2>1. \A c \in Conts : InReady(c)' => life[c] = "live" /\ ~Running(c)
    BY Zenon, <1>2, <1>3 DEF OnePlace
  <2> QED
    BY ZenonT(60), <1>2, <1>4, <2>1 DEF OnePlace, Once
<1>12. NoneForgotten'
  BY ZenonT(60), <1>1, <1>2, <1>4 DEF NoneForgotten
<1>13. NoLostWakeup'
  BY Zenon, <1>2, <1>4, <1>5, <1>6 DEF NoLostWakeup
<1>14. NoDanglingEvent'
  BY SMTT(30), <1>1, <1>4 DEF NoDanglingEvent
<1>15. NoEarlyTimeout'
  BY <1>5 DEF NoEarlyTimeout
<1> QED
  BY <1>7, <1>8, <1>9, <1>10, <1>11, <1>12, <1>13, <1>14, <1>15

(* Timeouts and poll reports.                                              *)
LEMMA EventSteps ==
    ASSUME IInv, NEW c \in Conts, NEW s \in Sources,
           Expire(c, s) \/ OnPollEvent(c, s)
    PROVE  IInv'
<1>1. CASE Expire(c, s)
  <2>1. s \in wait[c].on
    BY Zenon, <1>1 DEF Expire, IInv, NoDanglingEvent
  <2>2. ~pollFailed => wait[c].deadline <= now
    <3>1. wait[c].deadline \in Nat /\ horizon \in Nat /\ now \in Nat
      BY BoundsAssumption DEF IInv, TypeOK, DeadLines, Never
    <3> QED
      BY <3>1, <1>1 DEF Expire, IInv, PhaseFacts
  <2> QED
    BY ZenonT(60), <1>1, <2>1, <2>2, EventFires DEF Expire, Statuses
<1>2. CASE OnPollEvent(c, s)
  <2>1. s \in wait[c].on
    BY Zenon, <1>2 DEF OnPollEvent, IInv, NoDanglingEvent
  <2>2. report[s] \in Statuses /\ report[s] # "ETIMEDOUT"
    BY ZenonT(60) DEF IInv, TypeOK, Statuses
  <2>3. report[s] # "EINPROGRESS"
    BY ZenonT(60), <1>2 DEF OnPollEvent, IInv, PhaseFacts
  <2> QED
    BY ZenonT(60), <1>2, <2>1, <2>2, <2>3, EventFires DEF OnPollEvent
<1> QED
  BY ZenonT(60), <1>1, <1>2

(* A coroutine is made ready without an event: it is signalled, cancelled, *)
(* created, or called back while it flushes.                               *)
LEMMA MadeReady ==
    ASSUME IInv, NEW d \in Conts,
           life'[d] = "live", ~Running(d), phase # "stopped",
           Ready' = PushBack(Ready, d),
           life' \in [Conts -> {"free", "live", "dead"}],
           cancelled' \in [Conts -> BOOLEAN],
           signalled' \in [Conts -> BOOLEAN],
           \A c \in Conts : c # d =>
               /\ life'[c] = life[c]
               /\ cancelled'[c] = cancelled[c]
               /\ signalled'[c] = signalled[c],
           \/ wait[d].kind \in {"none", "flush"}
           \/ cancelled'[d]
           \/ signalled'[d] /\ wait[d].kind = "event",
           UNCHANGED <<phase, Current, wait, status, IoWait, ret, now, horizon,
                       report, pollFailed>>,
           todo' \subseteq todo, spawned' \in 0..MaxSpawn
    PROVE  IInv'
<1> USE DEF IInv
<1>1. /\ Ready' \in Seq(Conts) /\ Ready' # <<>> /\ Once(Ready')
      /\ Els(Ready') = Els(Ready) \cup {d}
      /\ \A c : InReady(c) <=> c \in Els(Ready)
      /\ \A c : InReady(c)' <=> c \in Els(Ready) \cup {d}
  BY Zenon, ReadyGains
<1>2. \A c : Running(c)' <=> Running(c)
  BY Zenon DEF Running
<1>3. TypeOK'
  BY <1>1 DEF TypeOK
<1>4. PhaseFacts'
  BY ZenonT(60), <1>1 DEF PhaseFacts, Running
<1>5. CallShape'
  BY ZenonT(60) DEF CallShape
<1>6. WokenForAReason'
  <2> SUFFICES ASSUME NEW c \in Conts, c # d, c \in Els(Ready'),
                      wait[c].kind \notin {"none", "flush"}
               PROVE  \/ cancelled'[c]
                      \/ signalled'[c] /\ wait[c].kind = "event"
                      \/ \E s \in wait[c].on : status[c][s] # "EINPROGRESS"
    BY ZenonT(60) DEF WokenForAReason
  <2>1. c \in Els(Ready)
    BY Zenon, <1>1
  <2>2. signalled'[c] = signalled[c] /\ cancelled'[c] = cancelled[c]
    BY Zenon
  <2> QED
    BY Zenon, <2>1, <2>2 DEF WokenForAReason
<1>7. OnePlace'
  <2>1. \A c \in Conts : InReady(c)' => life'[c] = "live" /\ ~Running(c)
    BY <1>1 DEF OnePlace
  <2> QED
    BY <1>1, <1>2, <2>1 DEF OnePlace, Once
<1>8. NoneForgotten'
  BY <1>1, <1>2 DEF NoneForgotten
<1>9. NoLostWakeup'
  BY <1>1, <1>2 DEF NoLostWakeup
<1>10. NoDanglingEvent'
  BY <1>2 DEF NoDanglingEvent
<1>11. NoEarlyTimeout'
  BY ZenonT(60) DEF NoEarlyTimeout
<1> QED
  BY Zenon, <1>3, <1>4, <1>5, <1>6, <1>7, <1>8, <1>9, <1>10, <1>11

(* TCont::Cancel, called on itself, on a waiter or on a ready coroutine.   *)
LEMMA CancelStep ==
    ASSUME IInv, NEW d \in Conts, life[d] = "live",
           phase \in CoroutinePhases, CancelCont(d),
           UNCHANGED <<phase, Current, life, wait, status, signalled, IoWait,
                       ret, now, horizon, todo, report, pollFailed, spawned>>
    PROVE  IInv'
<1> USE DEF IInv
<1>0. phase # "stopped"
  BY ZenonT(60) DEF CoroutinePhases
<1>1. CASE cancelled[d]
  <2>1. UNCHANGED <<Ready, cancelled>>
    BY <1>1 DEF CancelCont
  <2>2. TypeOK' /\ NoEarlyTimeout'
    BY <2>1 DEF TypeOK, NoEarlyTimeout
  <2>3. PhaseFacts'
    BY <2>1 DEF PhaseFacts
  <2>4. \A e \in todo' : e[2] \in wait[e[1]].on
    BY ZenonT(60) DEF NoDanglingEvent
  <2> QED
    BY <2>1, <2>2, <2>3, <2>4, SameConts
<1>2. CASE ~cancelled[d] /\ Current # d
  <2>1. /\ cancelled' = [cancelled EXCEPT ![d] = TRUE]
        /\ Ready' = PushBack(Ready, d)
    BY <1>2 DEF CancelCont
  <2>2. /\ cancelled' \in [Conts -> BOOLEAN]
        /\ cancelled'[d]
        /\ \A c \in Conts : c # d => cancelled'[c] = cancelled[c]
    BY <2>1, Zenon DEF TypeOK
  <2>3. ~Running(d)
    BY <1>2 DEF Running
  <2>4. /\ life' \in [Conts -> {"free", "live", "dead"}]
        /\ signalled' \in [Conts -> BOOLEAN]
        /\ spawned' \in 0..MaxSpawn
        /\ todo' \subseteq todo
    BY DEF TypeOK
  <2> QED
    BY ZenonT(60), <1>0, <2>1, <2>2, <2>3, <2>4, MadeReady
<1>3. CASE ~cancelled[d] /\ Current = d
  <2>1. cancelled' = [cancelled EXCEPT ![d] = TRUE] /\ UNCHANGED Ready
    BY <1>3 DEF CancelCont
  <2>2. /\ cancelled' \in [Conts -> BOOLEAN]
        /\ cancelled'[d]
        /\ \A c \in Conts : c # d => cancelled'[c] = cancelled[c]
    BY <2>1, Zenon DEF TypeOK
  <2>3. Running(d) /\ \A c : Running(c)' <=> Running(c)
    BY <1>3 DEF Running
  <2>4. \A c : InReady(c)' <=> InReady(c)
    BY <2>1 DEF InReady
  <2>5. TypeOK' /\ NoEarlyTimeout'
    BY <2>1, <2>2 DEF TypeOK, NoEarlyTimeout
  <2>6. PhaseFacts' /\ CallShape'
    BY <2>1 DEF PhaseFacts, CallShape
  <2>7. WokenForAReason'
    BY Zenon, <2>1, <2>2 DEF WokenForAReason
  <2>8. OnePlace'
    BY ZenonT(60), <2>1, <2>3, <2>4 DEF OnePlace
  <2>9. NoneForgotten' /\ NoDanglingEvent'
    BY Zenon, <2>3, <2>4 DEF NoneForgotten, NoDanglingEvent
  <2>10. NoLostWakeup'
    BY Zenon, <2>2, <2>3, <2>4 DEF NoLostWakeup
  <2> QED
    BY <2>5, <2>6, <2>7, <2>8, <2>9, <2>10
<1> QED
  BY <1>1, <1>2, <1>3

(* Every step that makes a coroutine ready without an event.               *)
LEMMA ReadySteps ==
    ASSUME IInv, NEW d \in Conts,
           Create(d) \/ Wake(d) \/ Cancel(d) \/ AbortWaiter(d)
               \/ AbortNextReady \/ OnFlushEvent(d)
    PROVE  IInv'
<1> USE DEF IInv
<1>1. CASE Create(d)
  <2>1. ~Running(d)
    BY Zenon, <1>1 DEF Create, Running, PhaseFacts
  <2>2. wait[d].kind = "none"
    BY Zenon, <1>1 DEF Create, NoDanglingEvent, CallShape
  <2>3. /\ life' \in [Conts -> {"free", "live", "dead"}]
        /\ life'[d] = "live"
        /\ \A c \in Conts : c # d => life'[c] = life[c]
    BY <1>1 DEF Create, TypeOK
  <2>4. /\ cancelled' \in [Conts -> BOOLEAN]
        /\ \A c \in Conts : c # d => cancelled'[c] = cancelled[c]
    BY <1>1, Zenon DEF Create, TypeOK
  <2>5. spawned' \in 0..MaxSpawn
    BY <1>1, BoundsAssumption DEF Create, TypeOK
  <2>6. /\ phase # "stopped" /\ Ready' = PushBack(Ready, d)
        /\ UNCHANGED <<phase, Current, wait, status, signalled, IoWait, ret, now,
                       horizon, todo, report, pollFailed>>
        /\ signalled' \in [Conts -> BOOLEAN]
    BY ZenonT(60), <1>1 DEF Create, TypeOK
  <2> QED
    BY ZenonT(60), <2>1, <2>2, <2>3, <2>4, <2>5, <2>6, MadeReady
<1>2. CASE Wake(d)
  <2>1. life[d] = "live" /\ ~Running(d)
    BY <1>2 DEF Wake, NoDanglingEvent, CallShape
  <2>2. /\ signalled' \in [Conts -> BOOLEAN]
        /\ signalled'[d]
        /\ \A c \in Conts : c # d => signalled'[c] = signalled[c]
    BY <1>2, Zenon DEF Wake, TypeOK
  <2>3. /\ phase # "stopped" /\ Ready' = PushBack(Ready, d)
        /\ wait[d].kind = "event"
        /\ UNCHANGED <<phase, Current, life, cancelled, wait, status, IoWait,
                       ret, now, horizon, todo, report, pollFailed, spawned>>
    BY Zenon, <1>2 DEF Wake
  <2>4. /\ life' \in [Conts -> {"free", "live", "dead"}]
        /\ cancelled' \in [Conts -> BOOLEAN]
        /\ spawned' \in 0..MaxSpawn
    BY <2>3 DEF TypeOK
  <2> QED
    BY ZenonT(60), <2>1, <2>2, <2>3, <2>4, MadeReady
<1>3. CASE Cancel(d)
  BY ZenonT(60), <1>3, CancelStep DEF Cancel, CoroutinePhases
<1>4. CASE AbortWaiter(d)
  <2>1. life[d] = "live"
    BY ZenonT(60), <1>4 DEF AbortWaiter, NoDanglingEvent
  <2> QED
    BY ZenonT(60), <1>4, <2>1, CancelStep DEF AbortWaiter, CoroutinePhases
<1>5. CASE AbortNextReady
  <2>1. PICK i \in 1..Len(Ready) : CancelCont(Ready[i])
    BY Zenon, <1>5 DEF AbortNextReady
  <2>2. Ready[i] \in Conts
    BY DEF TypeOK
  <2>3. life[Ready[i]] = "live"
    BY <2>2 DEF OnePlace, InReady
  <2> QED
    BY Zenon, <1>5, <2>1, <2>2, <2>3, CancelStep DEF AbortNextReady, CoroutinePhases
<1>6. CASE OnFlushEvent(d)
  <2>1. wait[d].kind = "flush" /\ life[d] = "live" /\ ~Running(d)
    BY <1>6 DEF OnFlushEvent, PhaseFacts, NoDanglingEvent
  <2>2. /\ phase # "stopped" /\ Ready' = PushBack(Ready, d)
        /\ UNCHANGED <<phase, Current, life, cancelled, wait, status, signalled,
                       IoWait, ret, now, horizon, report, pollFailed, spawned>>
        /\ todo' \subseteq todo
    BY <1>6 DEF OnFlushEvent
  <2>3. /\ life' \in [Conts -> {"free", "live", "dead"}]
        /\ cancelled' \in [Conts -> BOOLEAN]
        /\ signalled' \in [Conts -> BOOLEAN]
        /\ spawned' \in 0..MaxSpawn
    BY <2>2 DEF TypeOK
  <2> QED
    BY ZenonT(60), <2>1, <2>2, <2>3, MadeReady
<1> QED
  BY ZenonT(60), <1>1, <1>2, <1>3, <1>4, <1>5, <1>6

-----------------------------------------------------------------------------
(* Steps in which the running coroutine gives the thread up.               *)

(* UnlinkLemma for the ready list: the running coroutine is not on it.     *)
LEMMA UnlinkReadyLemma ==
    ASSUME NEW c, Ready \in Seq(Conts), Once(Ready)
    PROVE  /\ Unlink(Ready, c) \in Seq(Conts)
           /\ Once(Unlink(Ready, c))
           /\ Els(Unlink(Ready, c)) = Els(Ready) \ {c}
<1>1. Unlink(Ready, c) \in Seq(Conts) /\ Once(Unlink(Ready, c))
  BY UnlinkLemma, Zenon
<1>2. Els(Unlink(Ready, c)) = Els(Ready) \ {c}
  BY UnlinkLemma, SMT
<1> QED
  BY <1>1, <1>2

LEMMA BlockStep ==
    ASSUME IInv, NEW kind \in Kinds \ {"none"}, NEW on \in SUBSET Sources,
           on # {}, kind = "flush" => on = {Timer},
           NEW deadline \in DeadLines, Block(kind, on, deadline)
    PROVE  IInv'
<1> USE DEF IInv
<1> DEFINE b == Current
<1>1. /\ phase = "run" /\ phase' = "io"
      /\ ~cancelled[b]
      /\ wait' = [wait EXCEPT ![b] = [kind |-> kind, on |-> on, deadline |-> deadline]]
      /\ status' = [status EXCEPT ![b] = AllInProgress]
      /\ signalled' = [signalled EXCEPT ![b] = FALSE]
      /\ IoWait' = IoWait \cup ({b} \X on)
      /\ Ready' = Unlink(Ready, b)
      /\ ret' = "none"
      /\ UNCHANGED <<Current, life, cancelled, now, horizon, todo, report,
                     pollFailed, spawned>>
  BY ZenonT(60) DEF Block
<1>2. b \in Conts /\ life[b] = "live" /\ Running(b)
  BY <1>1 DEF PhaseFacts, CoroutinePhases, Running
<1>3. \A c : ~Running(c)' /\ (Running(c) => c = b)
  BY <1>1 DEF Running, CoroutinePhases
<1>4. Ready \in Seq(Conts) /\ Once(Ready)
  BY DEF TypeOK, OnePlace, Once
<1>5. Ready' \in Seq(Conts) /\ Once(Ready') /\ Els(Ready') = Els(Ready) \ {b}
  BY <1>1, <1>4, UnlinkReadyLemma
<1>6. /\ \A c : InReady(c) <=> c \in Els(Ready)
      /\ \A c : InReady(c)' <=> c \in Els(Ready')
  BY DEF InReady, Els
<1>7. /\ wait' \in [Conts -> [kind : Kinds, on : SUBSET Sources, deadline : DeadLines]]
      /\ wait'[b].kind = kind /\ wait'[b].on = on /\ wait'[b].deadline = deadline
      /\ \A c \in Conts : c # b => wait'[c] = wait[c]
  BY <1>1, <1>2 DEF TypeOK
<1>8. /\ status' \in [Conts -> [Sources -> Statuses]]
      /\ \A s \in Sources : status'[b][s] = "EINPROGRESS"
      /\ \A c \in Conts : c # b => status'[c] = status[c]
  BY <1>1, <1>2 DEF TypeOK, AllInProgress, Statuses
<1>9. /\ signalled' \in [Conts -> BOOLEAN]
      /\ ~signalled'[b]
      /\ \A c \in Conts : c # b => signalled'[c] = signalled[c]
  BY <1>1, <1>2, Zenon DEF TypeOK
<1>10. IoWait' \subseteq Conts \X Sources
  BY ZenonT(60), <1>1, <1>2 DEF TypeOK
<1>11. todo = {}
  BY ZenonT(60), <1>1 DEF PhaseFacts
<1> HIDE DEF b
<1>12. TypeOK'
  BY ZenonT(60), <1>1, <1>5, <1>7, <1>8, <1>9, <1>10 DEF TypeOK, SchedulerPhases, Results
<1>13. PhaseFacts'
  BY ZenonT(60), <1>1, <1>11 DEF PhaseFacts, CoroutinePhases, SchedulerPhases
<1>14. CallShape'
  BY ZenonT(60), <1>7 DEF CallShape
<1>15. WokenForAReason'
  <2> SUFFICES ASSUME NEW c \in Conts, c \in Els(Ready'),
                      wait'[c].kind \notin {"none", "flush"}
               PROVE  \/ cancelled'[c]
                      \/ signalled'[c] /\ wait'[c].kind = "event"
                      \/ \E s \in wait'[c].on : status'[c][s] # "EINPROGRESS"
    BY Zenon DEF WokenForAReason
  <2>1. c # b /\ c \in Els(Ready)
    BY Zenon, <1>5
  <2>2. /\ wait'[c] = wait[c] /\ status'[c] = status[c]
        /\ signalled'[c] = signalled[c] /\ cancelled'[c] = cancelled[c]
    BY Zenon, <1>1, <1>7, <1>8, <1>9, <2>1
  <2> QED
    BY Zenon, <2>1, <2>2 DEF WokenForAReason
<1>16. OnePlace'
  BY ZenonT(60), <1>1, <1>3, <1>5, <1>6 DEF OnePlace, Once
<1>17. NoneForgotten'
  BY ZenonT(60), <1>1, <1>3, <1>5, <1>6, <1>7 DEF NoneForgotten
<1>18. NoLostWakeup'
  BY ZenonT(60), <1>1, <1>2, <1>3, <1>5, <1>6, <1>7, <1>8, <1>9 DEF NoLostWakeup
<1>19. NoDanglingEvent'
  <2>1. wait[b].on = {}
    BY <1>2 DEF NoDanglingEvent
  <2>2. \A e \in IoWait' : e[2] \in wait'[e[1]].on
    BY ZenonT(60), <1>1, <1>7, <2>1 DEF NoDanglingEvent, TypeOK
  <2> QED
    BY Zenon, <1>1, <1>2, <1>3, <1>7, <1>11, <2>2 DEF NoDanglingEvent
<1>20. NoEarlyTimeout'
  BY <1>1, <1>7, <1>8 DEF NoEarlyTimeout
<1> QED
  BY <1>12, <1>13, <1>14, <1>15, <1>16, <1>17, <1>18, <1>19, <1>20

(* The blocking calls of a coroutine, each an instance of Block.           *)
LEMMA BlockingCalls ==
    ASSUME IInv, SleepD \/ WaitD \/ FlushWait \/ SelectD \/ Yield
    PROVE  IInv'
<1>1. Never \in DeadLines /\ 0 \in DeadLines
  BY BoundsAssumption DEF DeadLines, Never
<1>2. {Timer} \in SUBSET Sources /\ {Timer} # {}
  BY DEF Sources
<1>3. CASE SleepD
  BY <1>2, <1>3, BlockStep DEF SleepD, Kinds
<1>4. CASE WaitD
  BY <1>2, <1>4, BlockStep DEF WaitD, Kinds
<1>5. CASE FlushWait
  BY <1>1, <1>2, <1>5, BlockStep DEF FlushWait, Kinds
<1>6. CASE SelectD
  <2>1. PICK on \in (SUBSET Chans) \ {{}}, d \in DeadLines : Block("poll", on, d)
    BY <1>6 DEF SelectD
  <2>2. on \in SUBSET Sources /\ on # {}
    BY DEF Sources
  <2> QED
    BY <2>1, <2>2, BlockStep DEF Kinds
<1>7. CASE Yield
  BY <1>1, <1>2, <1>7, BlockStep DEF Yield, Kinds
<1> QED
  BY <1>3, <1>4, <1>5, <1>6, <1>7

(* A cancelled coroutine yields: it goes straight back to the ready list.  *)
LEMMA YieldCancelledStep ==
    ASSUME IInv, YieldCancelled
    PROVE  IInv'
<1> USE DEF IInv
<1> DEFINE b == Current
<1>1. /\ phase = "run" /\ phase' = "io"
      /\ cancelled[b]
      /\ Ready' = PushBack(Ready, b)
      /\ ret' = "none"
      /\ UNCHANGED <<Current, life, cancelled, wait, status, signalled, IoWait,
                     now, horizon, todo, report, pollFailed, spawned>>
  BY DEF YieldCancelled
<1>2. b \in Conts /\ life[b] = "live" /\ Running(b)
  BY <1>1 DEF PhaseFacts, CoroutinePhases, Running
<1>3. \A c : ~Running(c)' /\ (Running(c) => c = b)
  BY ZenonT(60), <1>1 DEF Running, CoroutinePhases
<1>4. /\ Ready' \in Seq(Conts) /\ Ready' # <<>> /\ Once(Ready')
      /\ Els(Ready') = Els(Ready) \cup {b}
      /\ \A c : InReady(c) <=> c \in Els(Ready)
      /\ \A c : InReady(c)' <=> c \in Els(Ready) \cup {b}
  BY ZenonT(60), <1>1, <1>2, ReadyGains
<1>5. todo = {}
  BY Zenon, <1>1 DEF PhaseFacts
<1> HIDE DEF b
<1>6. TypeOK'
  BY ZenonT(60), <1>1, <1>4 DEF TypeOK, SchedulerPhases, Results
<1>7. PhaseFacts'
  BY ZenonT(60), <1>1, <1>5 DEF PhaseFacts, CoroutinePhases, SchedulerPhases
<1>8. CallShape' /\ WokenForAReason'
  BY ZenonT(60), <1>1, <1>4 DEF CallShape, WokenForAReason
<1>9. OnePlace'
  <2>1. \A c \in Conts : InReady(c)' => life'[c] = "live"
    BY ZenonT(60), <1>1, <1>2, <1>4 DEF OnePlace
  <2> QED
    BY ZenonT(60), <1>3, <1>4, <2>1 DEF OnePlace, Once
<1>10. NoneForgotten' /\ NoLostWakeup'
  BY ZenonT(60), <1>1, <1>3, <1>4 DEF NoneForgotten, NoLostWakeup
<1>11. NoDanglingEvent'
  BY Zenon, <1>1, <1>3 DEF NoDanglingEvent
<1>12. NoEarlyTimeout'
  BY <1>1 DEF NoEarlyTimeout
<1> QED
  BY <1>6, <1>7, <1>8, <1>9, <1>10, <1>11, <1>12

(* The coroutine ends; it is in no list but ToDelete_.                     *)
LEMMA ExitStep ==
    ASSUME IInv, Exit
    PROVE  IInv'
<1> USE DEF IInv
<1> DEFINE b == Current
<1>1. /\ phase = "run" /\ phase' = "io"
      /\ life' = [life EXCEPT ![b] = "dead"]
      /\ ret' = "none"
      /\ UNCHANGED <<Ready, Current, cancelled, wait, status, signalled, IoWait,
                     now, horizon, todo, report, pollFailed, spawned>>
  BY DEF Exit
<1>2. b \in Conts /\ Running(b)
  BY <1>1 DEF PhaseFacts, CoroutinePhases, Running
<1>3. \A c : ~Running(c)' /\ (Running(c) => c = b)
  BY <1>1 DEF Running, CoroutinePhases
<1>4. \A c : InReady(c)' <=> InReady(c)
  BY <1>1 DEF InReady
<1>5. /\ life' \in [Conts -> {"free", "live", "dead"}]
      /\ life'[b] = "dead"
      /\ \A c \in Conts : c # b => life'[c] = life[c]
  BY <1>1, <1>2 DEF TypeOK
<1>6. todo = {}
  BY <1>1 DEF PhaseFacts
<1>7. wait[b].on = {} /\ ~InReady(b)
  BY ZenonT(60), <1>2 DEF NoDanglingEvent, OnePlace
<1> HIDE DEF b
<1>8. TypeOK'
  BY ZenonT(60), <1>1, <1>5 DEF TypeOK, SchedulerPhases, Results
<1>9. PhaseFacts'
  BY ZenonT(60), <1>1, <1>6 DEF PhaseFacts, CoroutinePhases, SchedulerPhases
<1>10. CallShape' /\ WokenForAReason'
  BY ZenonT(60), <1>1 DEF CallShape, WokenForAReason
<1>11. OnePlace'
  BY ZenonT(60), <1>1, <1>3, <1>4, <1>5, <1>7 DEF OnePlace
<1>12. NoneForgotten' /\ NoLostWakeup'
  BY ZenonT(60), <1>1, <1>3, <1>4, <1>5 DEF NoneForgotten, NoLostWakeup
<1>13. NoDanglingEvent'
  BY <1>1, <1>3, <1>5, <1>7 DEF NoDanglingEvent
<1>14. NoEarlyTimeout'
  BY <1>1 DEF NoEarlyTimeout
<1> QED
  BY <1>8, <1>9, <1>10, <1>11, <1>12, <1>13, <1>14

(* The stacks of ended coroutines go back to the pool.                     *)
LEMMA DeleteStep ==
    ASSUME IInv, DeleteScheduled
    PROVE  IInv'
<1> USE DEF IInv
<1>1. /\ phase = "delete" /\ phase' = "pick"
      /\ life' = [c \in Conts |-> IF life[c] = "dead" THEN "free" ELSE life[c]]
      /\ UNCHANGED <<Ready, Current, cancelled, wait, status, signalled, IoWait,
                     ret, now, horizon, todo, report, pollFailed, spawned>>
  BY DEF DeleteScheduled
<1>2. /\ life' \in [Conts -> {"free", "live", "dead"}]
      /\ \A c \in Conts : life'[c] # "dead" /\ (life'[c] = "live" <=> life[c] = "live")
  BY <1>1 DEF TypeOK
<1>3. \A c : ~Running(c)' /\ ~Running(c)
  BY <1>1 DEF Running, CoroutinePhases
<1>4. \A c : InReady(c)' <=> InReady(c)
  BY ZenonT(60), <1>1 DEF InReady
<1>5. TypeOK'
  BY ZenonT(60), <1>1, <1>2 DEF TypeOK, SchedulerPhases
<1>6. PhaseFacts'
  BY ZenonT(60), <1>1, <1>2 DEF PhaseFacts, CoroutinePhases, SchedulerPhases
<1>7. CallShape' /\ WokenForAReason'
  BY Zenon, <1>1 DEF CallShape, WokenForAReason
<1>8. OnePlace'
  BY ZenonT(60), <1>1, <1>2, <1>3, <1>4 DEF OnePlace
<1>9. NoneForgotten' /\ NoLostWakeup'
  BY ZenonT(60), <1>1, <1>2, <1>3, <1>4 DEF NoneForgotten, NoLostWakeup
<1>10. NoDanglingEvent'
  BY ZenonT(60), <1>1, <1>2, <1>3 DEF NoDanglingEvent
<1>11. NoEarlyTimeout'
  BY <1>1 DEF NoEarlyTimeout
<1> QED
  BY <1>5, <1>6, <1>7, <1>8, <1>9, <1>10, <1>11

-----------------------------------------------------------------------------
(* The scheduler activates the first ready coroutine.                      *)

(* PopFrontLemma for the ready list.                                       *)
LEMMA PopReadyLemma ==
    ASSUME Ready \in Seq(Conts), Once(Ready), Ready # <<>>
    PROVE  /\ Head(Ready) \in Conts
           /\ Head(Ready) \in Els(Ready)
           /\ Tail(Ready) \in Seq(Conts)
           /\ Once(Tail(Ready))
           /\ Els(Tail(Ready)) = Els(Ready) \ {Head(Ready)}
<1>1. Head(Ready) \in Conts /\ Head(Ready) \in Els(Ready) /\ Once(Tail(Ready))
  BY PopFrontLemma, Zenon
<1>2. Tail(Ready) \in Seq(Conts)
  OBVIOUS
<1>3. Els(Tail(Ready)) = Els(Ready) \ {Head(Ready)}
  BY PopFrontLemma, SMTT(30)
<1> QED
  BY <1>1, <1>2, <1>3

(* Leaving the call takes the events of h, and of h alone, away.           *)
LEMMA LeaveCallLemma ==
    ASSUME IInv, NEW h \in Conts, LeaveCall(h)
    PROVE  /\ wait' \in [Conts -> [kind : Kinds, on : SUBSET Sources, deadline : DeadLines]]
           /\ wait'[h].kind = "none" /\ wait'[h].on = {}
           /\ \A c \in Conts : c # h => wait'[c] = wait[c]
           /\ status' \in [Conts -> [Sources -> Statuses]]
           /\ \A s \in Sources : status'[h][s] = "EINPROGRESS"
           /\ \A c \in Conts : c # h => status'[c] = status[c]
           /\ signalled' \in [Conts -> BOOLEAN]
           /\ ~signalled'[h]
           /\ \A c \in Conts : c # h => signalled'[c] = signalled[c]
           /\ IoWait' \subseteq Conts \X Sources
           /\ IoWait' \subseteq IoWait
           /\ \A e \in IoWait' : e[1] # h
           /\ \A c \in Conts, s \in Sources :
                 c # h /\ <<c, s>> \in IoWait => <<c, s>> \in IoWait'
<1> USE DEF IInv
<1>1. NoWait \in [kind : Kinds, on : SUBSET Sources, deadline : DeadLines]
  BY ONLY SMTT(30), BoundsAssumption DEF NoWait, Kinds, DeadLines, Never
<1>2. /\ wait' \in [Conts -> [kind : Kinds, on : SUBSET Sources, deadline : DeadLines]]
      /\ wait'[h].kind = "none" /\ wait'[h].on = {}
      /\ \A c \in Conts : c # h => wait'[c] = wait[c]
  BY <1>1 DEF LeaveCall, TypeOK, NoWait
<1>3. /\ status' \in [Conts -> [Sources -> Statuses]]
      /\ \A s \in Sources : status'[h][s] = "EINPROGRESS"
      /\ \A c \in Conts : c # h => status'[c] = status[c]
  BY DEF LeaveCall, TypeOK, AllInProgress, Statuses
<1>4. /\ signalled' \in [Conts -> BOOLEAN]
      /\ ~signalled'[h]
      /\ \A c \in Conts : c # h => signalled'[c] = signalled[c]
  BY Zenon DEF LeaveCall, TypeOK
<1>5. /\ IoWait' \subseteq Conts \X Sources
      /\ IoWait' \subseteq IoWait
      /\ \A e \in IoWait' : e[1] # h
      /\ \A c \in Conts, s \in Sources :
            c # h /\ <<c, s>> \in IoWait => <<c, s>> \in IoWait'
  BY DEF LeaveCall, TypeOK
<1> QED
  BY <1>2, <1>3, <1>4, <1>5

LEMMA ActivateStep ==
    ASSUME IInv, Activate
    PROVE  IInv'
<1> USE DEF IInv
<1> DEFINE h == Head(Ready)
<1>1. /\ phase = "pick" /\ phase' = "run" /\ Ready # <<>>
      /\ Current' = h /\ Ready' = Tail(Ready)
      /\ ret' \in Outcome(h) /\ LeaveCall(h)
      /\ UNCHANGED <<life, cancelled, now, horizon, todo, report, pollFailed, spawned>>
  BY DEF Activate
<1>2. Ready \in Seq(Conts) /\ Once(Ready)
  BY DEF TypeOK, OnePlace, Once
<1>3. /\ h \in Conts /\ h \in Els(Ready)
      /\ Ready' \in Seq(Conts) /\ Once(Ready') /\ Els(Ready') = Els(Ready) \ {h}
  BY <1>1, <1>2, PopReadyLemma
<1> HIDE DEF h
<1>4. /\ \A c : InReady(c) <=> c \in Els(Ready)
      /\ \A c : InReady(c)' <=> c \in Els(Ready')
  BY DEF InReady, Els
<1>5. life[h] = "live"
  BY <1>3, <1>4 DEF OnePlace
<1>6. \A c : ~Running(c) /\ (Running(c)' <=> c = h)
  BY ZenonT(60), <1>1 DEF Running, CoroutinePhases
<1>7. /\ wait' \in [Conts -> [kind : Kinds, on : SUBSET Sources, deadline : DeadLines]]
      /\ wait'[h].kind = "none" /\ wait'[h].on = {}
      /\ \A c \in Conts : c # h => wait'[c] = wait[c]
      /\ status' \in [Conts -> [Sources -> Statuses]]
      /\ \A s \in Sources : status'[h][s] = "EINPROGRESS"
      /\ \A c \in Conts : c # h => status'[c] = status[c]
      /\ signalled' \in [Conts -> BOOLEAN]
      /\ ~signalled'[h]
      /\ \A c \in Conts : c # h => signalled'[c] = signalled[c]
      /\ IoWait' \subseteq Conts \X Sources
      /\ IoWait' \subseteq IoWait
      /\ \A e \in IoWait' : e[1] # h
      /\ \A c \in Conts, s \in Sources :
            c # h /\ <<c, s>> \in IoWait => <<c, s>> \in IoWait'
  BY Zenon, <1>1, <1>3, LeaveCallLemma
<1>8. ret' \in Results
  BY ZenonT(60), <1>1 DEF Outcome, Fired, Results, Statuses
<1>9. todo = {}
  BY ZenonT(60), <1>1 DEF PhaseFacts
<1>10. TypeOK'
  BY ZenonT(60), <1>1, <1>3, <1>7, <1>8 DEF TypeOK, CoroutinePhases
<1>11. PhaseFacts'
  BY ZenonT(60), <1>1, <1>3, <1>5, <1>9 DEF PhaseFacts, CoroutinePhases, SchedulerPhases
<1>12. CallShape'
  BY ZenonT(60), <1>7 DEF CallShape
<1>13. WokenForAReason'
  <2> SUFFICES ASSUME NEW c \in Conts, c \in Els(Ready'),
                      wait'[c].kind \notin {"none", "flush"}
               PROVE  \/ cancelled'[c]
                      \/ signalled'[c] /\ wait'[c].kind = "event"
                      \/ \E s \in wait'[c].on : status'[c][s] # "EINPROGRESS"
    BY DEF WokenForAReason
  <2>1. c # h /\ c \in Els(Ready)
    BY ZenonT(60), <1>3
  <2>2. /\ wait'[c] = wait[c] /\ status'[c] = status[c]
        /\ signalled'[c] = signalled[c] /\ cancelled'[c] = cancelled[c]
    BY Zenon, <1>1, <1>7, <2>1
  <2> QED
    BY Zenon, <2>1, <2>2 DEF WokenForAReason
<1>14. OnePlace'
  BY ZenonT(60), <1>1, <1>3, <1>4, <1>6 DEF OnePlace, Once
<1>15. NoneForgotten'
  BY ZenonT(60), <1>1, <1>3, <1>4, <1>6, <1>7 DEF NoneForgotten, TypeOK
<1>16. NoLostWakeup'
  <2> SUFFICES ASSUME NEW c \in Conts, c # h, life[c] = "live",
                      \/ cancelled'[c]
                      \/ signalled'[c]
                      \/ \E s \in wait'[c].on : status'[c][s] # "EINPROGRESS"
               PROVE  InReady(c)'
    BY ZenonT(60), <1>1, <1>6 DEF NoLostWakeup
  <2>1. /\ wait'[c] = wait[c] /\ status'[c] = status[c]
        /\ signalled'[c] = signalled[c] /\ cancelled'[c] = cancelled[c]
    BY ZenonT(60), <1>1, <1>7
  <2>2. InReady(c)
    BY ZenonT(60), <1>6, <2>1 DEF NoLostWakeup
  <2> QED
    BY ZenonT(60), <1>3, <1>4, <2>2
<1>17. NoDanglingEvent'
  BY ZenonT(60), <1>1, <1>3, <1>6, <1>7, <1>9 DEF NoDanglingEvent, TypeOK
<1>18. NoEarlyTimeout'
  BY ZenonT(60), <1>1, <1>7 DEF NoEarlyTimeout
<1> QED
  BY ZenonT(60), <1>10, <1>11, <1>12, <1>13, <1>14, <1>15, <1>16, <1>17, <1>18

(* A yielding coroutine, activated, goes back to the end of the list.      *)
LEMMA ActivateYielderStep ==
    ASSUME IInv, ActivateYielder
    PROVE  IInv'
<1> USE DEF IInv
<1> DEFINE h == Head(Ready)
           t == Tail(Ready)
<1>1. /\ phase = "pick" /\ phase' = "io" /\ Ready # <<>>
      /\ Current' = h /\ Ready' = PushBack(t, h)
      /\ LeaveCall(h)
      /\ UNCHANGED <<life, cancelled, ret, now, horizon, todo, report, pollFailed, spawned>>
  BY Zenon DEF ActivateYielder
<1>2. Ready \in Seq(Conts) /\ Once(Ready)
  BY DEF TypeOK, OnePlace, Once
<1>3. /\ h \in Conts /\ h \in Els(Ready)
      /\ t \in Seq(Conts) /\ Once(t) /\ Els(t) = Els(Ready) \ {h}
  BY <1>1, <1>2, PopReadyLemma
<1> HIDE DEF h, t
<1>4. PushBack(t, h) \in Seq(Conts) /\ Once(PushBack(t, h))
  BY <1>3, PushBackLemma, Zenon
<1>5. Els(PushBack(t, h)) = Els(t) \cup {h} /\ PushBack(t, h) # <<>>
  <2>1. h \in Conts /\ t \in Seq(Conts) /\ Once(t)
    BY <1>3
  <2> HIDE DEF IInv
  <2>2. Els(PushBack(t, h)) = Els(t) \cup {h}
    BY ONLY <2>1, PushBackLemma, SMT
  <2>3. PushBack(t, h) # <<>>
    BY ONLY <2>1, PushBackLemma, SMT
  <2> QED
    BY <2>2, <2>3
<1>6. /\ Ready' \in Seq(Conts) /\ Once(Ready') /\ Ready' # <<>>
      /\ Els(Ready') = Els(Ready)
  BY <1>1, <1>3, <1>4, <1>5
<1>7. /\ \A c : InReady(c) <=> c \in Els(Ready)
      /\ \A c : InReady(c)' <=> c \in Els(Ready')
  BY DEF InReady, Els
<1>8. \A c : ~Running(c) /\ ~Running(c)'
  BY ZenonT(60), <1>1 DEF Running, CoroutinePhases
<1>9. /\ wait' \in [Conts -> [kind : Kinds, on : SUBSET Sources, deadline : DeadLines]]
      /\ wait'[h].kind = "none" /\ wait'[h].on = {}
      /\ \A c \in Conts : c # h => wait'[c] = wait[c]
      /\ status' \in [Conts -> [Sources -> Statuses]]
      /\ \A s \in Sources : status'[h][s] = "EINPROGRESS"
      /\ \A c \in Conts : c # h => status'[c] = status[c]
      /\ signalled' \in [Conts -> BOOLEAN]
      /\ ~signalled'[h]
      /\ \A c \in Conts : c # h => signalled'[c] = signalled[c]
      /\ IoWait' \subseteq Conts \X Sources
      /\ IoWait' \subseteq IoWait
      /\ \A e \in IoWait' : e[1] # h
      /\ \A c \in Conts, s \in Sources :
            c # h /\ <<c, s>> \in IoWait => <<c, s>> \in IoWait'
  BY Zenon, <1>1, <1>3, LeaveCallLemma
<1>10. todo = {}
  BY ZenonT(60), <1>1 DEF PhaseFacts
<1>11. TypeOK'
  BY ZenonT(60), <1>1, <1>3, <1>6, <1>9 DEF TypeOK, SchedulerPhases
<1>12. PhaseFacts'
  BY ZenonT(60), <1>1, <1>10 DEF PhaseFacts, CoroutinePhases, SchedulerPhases
<1>13. CallShape'
  BY <1>9 DEF CallShape
<1>14. WokenForAReason'
  <2> SUFFICES ASSUME NEW c \in Conts, c # h, c \in Els(Ready'),
                      wait'[c].kind \notin {"none", "flush"}
               PROVE  \/ cancelled'[c]
                      \/ signalled'[c] /\ wait'[c].kind = "event"
                      \/ \E s \in wait'[c].on : status'[c][s] # "EINPROGRESS"
    BY ZenonT(60), <1>9 DEF WokenForAReason
  <2>1. /\ wait'[c] = wait[c] /\ status'[c] = status[c]
        /\ signalled'[c] = signalled[c] /\ cancelled'[c] = cancelled[c]
    BY Zenon, <1>1, <1>9
  <2> QED
    BY ZenonT(60), <1>6, <2>1 DEF WokenForAReason
<1>15. OnePlace'
  BY ZenonT(60), <1>1, <1>6, <1>7, <1>8 DEF OnePlace, Once
<1>16. NoneForgotten'
  BY ZenonT(60), <1>1, <1>3, <1>6, <1>7, <1>8, <1>9 DEF NoneForgotten, TypeOK
<1>17. NoLostWakeup'
  <2> SUFFICES ASSUME NEW c \in Conts, c # h, life[c] = "live",
                      \/ cancelled'[c]
                      \/ signalled'[c]
                      \/ \E s \in wait'[c].on : status'[c][s] # "EINPROGRESS"
               PROVE  InReady(c)'
    BY ZenonT(60), <1>1, <1>3, <1>6, <1>7 DEF NoLostWakeup
  <2>1. /\ wait'[c] = wait[c] /\ status'[c] = status[c]
        /\ signalled'[c] = signalled[c] /\ cancelled'[c] = cancelled[c]
    BY ZenonT(60), <1>1, <1>9
  <2>2. InReady(c)
    BY ZenonT(60), <1>8, <2>1 DEF NoLostWakeup
  <2> QED
    BY Zenon, <1>6, <1>7, <2>2
<1>18. NoDanglingEvent'
  BY ZenonT(60), <1>1, <1>3, <1>8, <1>9, <1>10 DEF NoDanglingEvent, TypeOK
<1>19. NoEarlyTimeout'
  BY ZenonT(60), <1>1, <1>9 DEF NoEarlyTimeout
<1> QED
  BY <1>11, <1>12, <1>13, <1>14, <1>15, <1>16, <1>17, <1>18, <1>19

-----------------------------------------------------------------------------
(* Every step keeps the invariant.                                         *)
LEMMA NextIInv == IInv /\ [Next]_vars => IInv'
<1> SUFFICES ASSUME IInv, [Next]_vars PROVE IInv'
  OBVIOUS
<1>1. CASE CoroutineStep
  <2>1. CASE \E d \in Conts : Create(d) \/ Wake(d) \/ Cancel(d) \/ AbortWaiter(d)
    BY <2>1, ReadySteps
  <2>2. CASE AbortNextReady
    <3>1. Current \in Conts
      BY <2>2 DEF AbortNextReady, IInv, PhaseFacts, CoroutinePhases
    <3> QED
      BY ZenonT(60), <2>2, <3>1, ReadySteps
  <2>3. CASE \/ SleepD \/ WaitD \/ FlushWait \/ SelectD \/ Yield
    BY <2>3, BlockingCalls
  <2>4. CASE Abort \/ AbortWaitersDone \/ AbortDone \/ RefuseToBlock
    BY <2>4, PhaseSteps
  <2> QED
    BY <1>1, <2>1, <2>2, <2>3, <2>4, YieldCancelledStep, ExitStep DEF CoroutineStep
<1>2. CASE SchedulerStep
  BY <1>2, ActivateStep, ActivateYielderStep, PhaseSteps, PollSteps, EventSteps,
     ReadySteps, DeleteStep
  DEF SchedulerStep
<1>3. CASE Tick
  BY ZenonT(60), <1>3, PollSteps
<1>4. CASE UNCHANGED vars
  <2>1. /\ UNCHANGED <<Ready, Current, life, cancelled, wait, status, signalled, IoWait>>
        /\ UNCHANGED <<phase, ret, now, horizon, todo, report, pollFailed, spawned>>
    BY ZenonT(60), <1>4 DEF vars
  <2>2. TypeOK' /\ NoEarlyTimeout'
    BY ZenonT(60), <2>1 DEF IInv, TypeOK, NoEarlyTimeout
  <2>3. PhaseFacts'
    BY ZenonT(60), <2>1 DEF IInv, PhaseFacts
  <2>4. \A e \in todo' : e[2] \in wait[e[1]].on
    BY Zenon, <2>1 DEF IInv, NoDanglingEvent
  <2> QED
    BY <2>1, <2>2, <2>3, <2>4, SameConts DEF IInv
<1> QED
  BY <1>1, <1>2, <1>3, <1>4 DEF Next

(* The inductive invariant holds in every reachable state of the engine.   *)
THEOREM Invariance == Spec => []IInv
  BY InitIInv, NextIInv, PTL DEF Spec

(* Type correctness: every variable of the engine keeps its type.          *)
THEOREM TypeCorrect == Spec => []TypeOK
<1>1. IInv => TypeOK
  BY DEF IInv
<1> QED
  BY Invariance, <1>1, PTL

(* No coroutine is on the ready list twice, or while it runs or is dead,   *)
(* whatever the order of wake-ups, cancellations and timeouts.             *)
THEOREM OnePlaceAlways == Spec => []OnePlace
<1>1. IInv => OnePlace
  BY DEF IInv
<1> QED
  BY Invariance, <1>1, PTL

(* No coroutine is forgotten by the scheduler.                             *)
THEOREM NoneForgottenAlways == Spec => []NoneForgotten
<1>1. IInv => NoneForgotten
  BY DEF IInv
<1> QED
  BY Invariance, <1>1, PTL

(* No timeout, poll report, signal or cancellation is lost.                *)
THEOREM NoWakeupLost == Spec => []NoLostWakeup
<1>1. IInv => NoLostWakeup
  BY DEF IInv
<1> QED
  BY Invariance, <1>1, PTL

(* The timer tree and the poll lists hold no event of a finished call.     *)
THEOREM NoEventDangles == Spec => []NoDanglingEvent
<1>1. IInv => NoDanglingEvent
  BY DEF IInv
<1> QED
  BY Invariance, <1>1, PTL

(* As long as poll(2) does not fail, no timer fires before its deadline.   *)
THEOREM TimeoutsAreNotEarly == Spec => []NoEarlyTimeout
<1>1. IInv => NoEarlyTimeout
  BY DEF IInv
<1> QED
  BY Invariance, <1>1, PTL

(* When RunScheduler returns, every coroutine has ended: a live one would  *)
(* be on the ready list or in the tree, and both are empty.                *)
THEOREM StopsOnlyWhenDone == Spec => []StopsWhenDone
<1>1. IInv => StopsWhenDone
  <2> SUFFICES ASSUME IInv, phase = "stopped", NEW c \in Conts PROVE life[c] = "free"
    BY Zenon DEF StopsWhenDone
  <2>1. Ready = <<>> /\ IoWait = {} /\ life[c] # "dead"
    BY DEF IInv, PhaseFacts
  <2>2. ~Running(c)
    BY DEF Running, CoroutinePhases
  <2>3. ~InReady(c)
    BY <2>1, NothingReady, Zenon
  <2>4. life[c] # "live"
    BY <2>1, <2>2, <2>3 DEF IInv, NoneForgotten
  <2> QED
    BY <2>1, <2>4 DEF IInv, TypeOK
<1> QED
  BY Invariance, <1>1, PTL

(* What a blocking call returns when the coroutine is resumed is true; the *)
(* invariant rules out that a coroutine was woken for no reason.           *)
THEOREM ResultsTruthful == Spec => ResultsAreTruthful
<1>1. IInv /\ [Next]_vars => [TruthfulResult]_vars
  <2> SUFFICES ASSUME IInv, Next, NEW c \in Conts,
                      phase = "pick", phase' = "run", Current' = c
               PROVE  /\ ret' = "EINPROGRESS" => wait[c].kind = "flush"
                      /\ ret' = "EWAKEDUP" => signalled[c]
                      /\ ret' = "ECANCELED" => cancelled[c]
                      /\ ret' = "ETIMEDOUT" =>
                             \A s \in wait[c].on : status[c][s] \notin {"ok", "err"}
                      /\ ret' = "none" <=> wait[c].kind = "none"
    BY ZenonT(60) DEF TruthfulResult
  <2>1. Activate
    <3>1. ~CoroutineStep
      BY Zenon DEF CoroutineStep, Create, Wake, Cancel, AbortWaiter, SleepD, WaitD,
             FlushWait, SelectD, Yield, Block, RefuseToBlock, YieldCancelled,
             Abort, AbortWaitersDone, AbortNextReady, AbortDone, Exit
    <3>2. ~Tick
      BY DEF Tick
    <3>3. SchedulerStep
      BY <3>1, <3>2 DEF Next
    <3> QED
      BY ZenonT(60), <3>3 DEF SchedulerStep, ActivateYielder, Stop, IoDone, CancelTimedOut,
             ExpireDone, Expire, OnPollEvent, PollNothing, PollEvents,
             OnFlushEvent, DeliverDone, DeleteScheduled
  <2>2. c = Head(Ready) /\ ret' \in Outcome(c)
    BY ZenonT(60), <2>1 DEF Activate
  <2>3. c \in Els(Ready)
    BY Zenon, <2>1, <2>2, PopReadyLemma DEF Activate, IInv, TypeOK, OnePlace, Once
  <2>4. \A s \in wait[c].on : status[c][s] \in Statuses
    BY ZenonT(60) DEF IInv, TypeOK
  <2>5. ASSUME wait[c].kind \notin {"none", "flush"}, ~cancelled[c],
               ~(wait[c].kind = "event" /\ signalled[c])
        PROVE  Fired(c) # {} \/ TimedOut(c)
    BY <2>3, <2>4, <2>5 DEF IInv, WokenForAReason, Fired, TimedOut, Statuses
  <2>6. Fired(c) \subseteq {"ok", "err"}
    BY ZenonT(60) DEF Fired
  <2>7. ret' = "EINPROGRESS" => wait[c].kind = "flush"
    BY ZenonT(60), <2>2, <2>5, <2>6 DEF Outcome
  <2>8. /\ ret' = "EWAKEDUP" => signalled[c]
        /\ ret' = "ECANCELED" => cancelled[c]
        /\ ret' = "none" <=> wait[c].kind = "none"
    BY ZenonT(60), <2>2, <2>6 DEF Outcome
  <2>9. ret' = "ETIMEDOUT" => Fired(c) = {}
    BY <2>2, <2>6 DEF Outcome
  <2>10. Fired(c) = {} => \A s \in wait[c].on : status[c][s] \notin {"ok", "err"}
    BY DEF Fired
  <2> QED
    BY ZenonT(60), <2>7, <2>8, <2>9, <2>10
<1> QED
  BY Invariance, <1>1, PTL DEF Spec, ResultsAreTruthful

-----------------------------------------------------------------------------
(* The order of the ready list.                                            *)

(* x is in one of the first i places of s.                                 *)
Within(s, x, i) == \E j \in 1..i : j <= Len(s) /\ s[j] = x

(* Taking another element out of a list moves nothing back.                *)
LEMMA UnlinkKeepsOrder ==
    ASSUME NEW S, NEW s \in Seq(S), NEW c, NEW i \in 1..Len(s), s[i] # c
    PROVE  Within(Unlink(s, c), s[i], i)
<1>1. CASE \E k \in 1..Len(s) : s[k] = c
  <2> DEFINE k == CHOOSE j \in 1..Len(s) : s[j] = c
             t == [j \in 1..(Len(s) - 1) |-> IF j < k THEN s[j] ELSE s[j + 1]]
  <2>1. k \in 1..Len(s) /\ s[k] = c
    BY <1>1
  <2>2. Unlink(s, c) = t
    BY <1>1 DEF Unlink
  <2> HIDE DEF k
  <2>3. Len(s) \in Nat /\ Len(s) - 1 \in Nat
    BY <2>1
  <2>4. \A j \in 1..(Len(s) - 1) : t[j] = IF j < k THEN s[j] ELSE s[j + 1]
    OBVIOUS
  <2>5. Len(t) = Len(s) - 1
    BY <2>3
  <2> HIDE DEF t
  <2>6. CASE i < k
    <3>1. i \in 1..(Len(s) - 1) /\ t[i] = s[i]
      BY <2>1, <2>3, <2>4, <2>6
    <3>2. QED
      BY <2>2, <2>5, <3>1 DEF Within
  <2>7. CASE i > k
    <3>1. i - 1 \in 1..(Len(s) - 1) /\ i - 1 \in 1..i /\ t[i - 1] = s[i]
      BY <2>1, <2>3, <2>4, <2>7
    <3>2. QED
      BY <2>2, <2>5, <3>1 DEF Within
  <2>8. QED
    BY <2>1, <2>6, <2>7
<1>2. CASE ~\E k \in 1..Len(s) : s[k] = c
  BY <1>2 DEF Unlink, Within
<1>3. QED
  BY <1>1, <1>2

(* Nor does putting another element at the end.                            *)
LEMMA PushBackKeepsOrder ==
    ASSUME NEW S, NEW s \in Seq(S), Once(s), NEW c \in S, NEW i \in 1..Len(s), s[i] # c
    PROVE  Within(PushBack(s, c), s[i], i)
<1> DEFINE u == Unlink(s, c)
<1>1. u \in Seq(S) /\ Within(u, s[i], i)
  BY UnlinkLemma, UnlinkKeepsOrder
<1>2. PushBack(s, c) = Append(u, c)
  BY DEF PushBack
<1> HIDE DEF u
<1>3. PICK j \in 1..i : j <= Len(u) /\ u[j] = s[i]
  BY <1>1 DEF Within
<1>4. j <= Len(Append(u, c)) /\ Append(u, c)[j] = s[i]
  BY <1>1, <1>3
<1>5. QED
  BY <1>2, <1>4 DEF Within

(* PopFront moves everyone one place forward.                              *)
LEMMA PopFrontAdvances ==
    ASSUME NEW S, NEW s \in Seq(S), NEW i \in 1..Len(s), i # 1
    PROVE  i - 1 \in 1..Len(Tail(s)) /\ Tail(s)[i - 1] = s[i]
OBVIOUS

(* The steps that wake c, which may be on the ready list already.          *)
Wakes(c) ==
    \/ cancelled'[c] # cancelled[c]
    \/ Wake(c) \/ OnFlushEvent(c)
    \/ \E s \in Sources : Expire(c, s) \/ OnPollEvent(c, s)

(* The scheduler takes the next coroutine from the ready list.             *)
Picks == phase = "pick" /\ phase' # "pick"

(* Whoever is on the ready list is run when it comes first, moves forward  *)
(* each time somebody is run, and moves back only if it is woken again.    *)
TurnKept ==
    \A i \in 1..Len(Ready) :
        \/ Wakes(Ready[i])
        \/ i = 1 /\ Picks /\ Current' = Ready[1]
        \/ Within(Ready', Ready[i], IF Picks THEN i - 1 ELSE i)

KeepsTurn == [][TurnKept]_vars

(* What a step does to the ready list.                                     *)
LEMMA ReadyStep ==
    ASSUME IInv, Next
    PROVE  \/ Ready' = Ready /\ (Picks => Ready = <<>>)
           \/ Ready' = Unlink(Ready, Current) /\ phase = "run"
           \/ /\ ~Picks
              /\ \E d \in Conts : Ready' = PushBack(Ready, d) /\ (Wakes(d) \/ ~InReady(d))
           \/ /\ Picks /\ Ready # <<>> /\ Current' = Head(Ready)
              /\ Ready' = Tail(Ready) \/ Ready' = PushBack(Tail(Ready), Head(Ready))
<1> DEFINE Same == Ready' = Ready /\ (Picks => Ready = <<>>)
           Out == Ready' = Unlink(Ready, Current) /\ phase = "run"
           Woken(d) == ~Picks /\ Ready' = PushBack(Ready, d) /\ (Wakes(d) \/ ~InReady(d))
           Popped == /\ Picks /\ Ready # <<>> /\ Current' = Head(Ready)
                     /\ Ready' = Tail(Ready) \/ Ready' = PushBack(Tail(Ready), Head(Ready))
<1>0. /\ \A c \in Conts : InReady(c) => life[c] = "live" /\ ~Running(c)
      /\ phase \in CoroutinePhases => Current \in Conts
      /\ cancelled \in [Conts -> BOOLEAN]
  BY Zenon DEF IInv, OnePlace, PhaseFacts, TypeOK
<1>1. ASSUME NEW d \in Conts, CancelCont(d), phase # "pick"
      PROVE  Same \/ Woken(d)
  <2>1. CASE Ready' = Ready
    BY <1>1, <2>1 DEF Picks
  <2>2. CASE Ready' = PushBack(Ready, d) /\ cancelled' = [cancelled EXCEPT ![d] = TRUE] /\ ~cancelled[d]
    BY <1>0, <1>1, <2>2 DEF Picks, Wakes
  <2>3. QED
    BY Zenon, <1>1, <2>1, <2>2 DEF CancelCont
<1>2. CASE CoroutineStep
  <2>1. ASSUME NEW d \in Conts, Create(d)
        PROVE  Woken(d)
    BY <1>0, <2>1 DEF Create, Picks
  <2>2. ASSUME NEW d \in Conts, Wake(d)
        PROVE  Woken(d)
    <3>1. phase = "run" /\ Ready' = PushBack(Ready, d)
      BY <2>2 DEF Wake
    <3>2. QED
      BY <2>2, <3>1 DEF Wakes, Picks
  <2>3. ASSUME NEW d \in Conts, Cancel(d) \/ AbortWaiter(d)
        PROVE  Same \/ Woken(d)
    BY Zenon, <1>1, <2>3 DEF Cancel, AbortWaiter
  <2>4. ASSUME SleepD \/ WaitD \/ FlushWait \/ SelectD \/ Yield
        PROVE  Out
    BY <2>4 DEF SleepD, WaitD, FlushWait, SelectD, Yield, Block
  <2>5. ASSUME RefuseToBlock \/ Abort \/ AbortWaitersDone \/ AbortDone \/ Exit
        PROVE  Same
    BY <2>5 DEF RefuseToBlock, Abort, AbortWaitersDone, AbortDone, Exit, Picks
  <2>6. ASSUME YieldCancelled
        PROVE  \E d \in Conts : Woken(d)
    <3>1. phase = "run" /\ Current \in Conts /\ Ready' = PushBack(Ready, Current)
      BY <1>0, <2>6 DEF YieldCancelled, CoroutinePhases
    <3>2. ~InReady(Current)
      BY <1>0, <3>1 DEF Running, CoroutinePhases
    <3>3. Woken(Current)
      BY <3>1, <3>2 DEF Picks
    <3>4. QED
      BY <3>1, <3>3
  <2>7. ASSUME AbortNextReady
        PROVE  Same \/ \E d \in Conts : Woken(d)
    <3>1. PICK i \in 1..Len(Ready) : CancelCont(Ready[i])
      BY <2>7 DEF AbortNextReady
    <3>2. Ready[i] \in Conts /\ phase # "pick"
      BY <2>7 DEF AbortNextReady, IInv, TypeOK
    <3>3. Same \/ Woken(Ready[i])
      BY <1>1, <3>1, <3>2
    <3>4. QED
      BY <3>2, <3>3
  <2> HIDE DEF Same, Out, Woken, Popped
  <2>8. Same \/ Out \/ \E d \in Conts : Woken(d)
    BY Zenon, <1>2, <2>1, <2>2, <2>3, <2>4, <2>5, <2>6, <2>7 DEF CoroutineStep
  <2>9. QED
    BY Zenon, <2>8 DEF Same, Out, Woken
<1>3. CASE SchedulerStep
  <2>1. ASSUME Activate \/ ActivateYielder
        PROVE  Popped
    BY <2>1 DEF Activate, ActivateYielder, Picks
  <2>2. ASSUME Stop
        PROVE  Same
    BY <2>2 DEF Stop
  <2>3. ASSUME \/ IoDone \/ CancelTimedOut \/ ExpireDone \/ PollNothing \/ PollEvents
               \/ DeliverDone \/ DeleteScheduled
        PROVE  Same
    BY Zenon, <2>3 DEF IoDone, CancelTimedOut, ExpireDone, PollNothing, PollEvents,
       DeliverDone, DeleteScheduled, Picks
  <2>4. ASSUME NEW d \in Conts, NEW s \in Sources, Expire(d, s) \/ OnPollEvent(d, s)
        PROVE  Woken(d)
    <3>1. phase # "pick" /\ Ready' = PushBack(Ready, d)
      BY <2>4 DEF Expire, OnPollEvent, WakeWith
    <3>2. QED
      BY Zenon, <2>4, <3>1 DEF Wakes, Picks
  <2>5. ASSUME NEW d \in Conts, OnFlushEvent(d)
        PROVE  Woken(d)
    <3>1. phase # "pick" /\ Ready' = PushBack(Ready, d)
      BY <2>5 DEF OnFlushEvent
    <3>2. QED
      BY Zenon, <2>5, <3>1 DEF Wakes, Picks
  <2> HIDE DEF Same, Woken, Popped
  <2>6. Same \/ Popped \/ \E d \in Conts : Woken(d)
    BY Zenon, <1>3, <2>1, <2>2, <2>3, <2>4, <2>5 DEF SchedulerStep
  <2>7. QED
    BY Zenon, <2>6 DEF Same, Woken, Popped
<1>4. CASE Tick
  BY Zenon, <1>4 DEF Tick, Picks
<1>5. QED
  BY <1>2, <1>3, <1>4 DEF Next

(* The ready list is served in order: a step of the engine or of another   *)
(* coroutine moves a ready one back only by waking it once more (Wake and  *)
(* ReSchedule push it to the end), and a pick brings it forward.           *)
THEOREM TurnsAreKept == Spec => KeepsTurn
<1>1. IInv /\ [Next]_vars => [TurnKept]_vars
  <2> SUFFICES ASSUME IInv, Next, NEW i \in 1..Len(Ready), ~Wakes(Ready[i])
               PROVE  \/ i = 1 /\ Picks /\ Current' = Ready[1]
                      \/ Within(Ready', Ready[i], IF Picks THEN i - 1 ELSE i)
    BY Zenon DEF TurnKept
  <2> DEFINE c == Ready[i]
  <2>1. /\ Ready \in Seq(Conts) /\ Once(Ready) /\ c \in Conts /\ InReady(c)
        /\ i \in Nat /\ i <= Len(Ready)
    BY SMTT(30) DEF IInv, TypeOK, OnePlace, Once, InReady
  <2>2. phase = "run" => c # Current
    BY <2>1 DEF IInv, OnePlace, Running, CoroutinePhases
  <2>3. CASE Ready' = Ready /\ (Picks => Ready = <<>>)
    <3>1. ~Picks
      BY <2>1, <2>3
    <3>2. QED
      BY <2>1, <2>3, <3>1 DEF Within
  <2>4. CASE Ready' = Unlink(Ready, Current) /\ phase = "run"
    <3>1. ~Picks
      BY <2>4 DEF Picks
    <3>2. Within(Unlink(Ready, Current), Ready[i], i)
      BY <2>1, <2>2, <2>4, UnlinkKeepsOrder
    <3>3. QED
      BY <2>4, <3>1, <3>2
  <2>5. CASE /\ ~Picks
             /\ \E d \in Conts : Ready' = PushBack(Ready, d) /\ (Wakes(d) \/ ~InReady(d))
    <3>1. PICK d \in Conts : Ready' = PushBack(Ready, d) /\ c # d
      BY Zenon, <2>1, <2>5
    <3>2. Within(PushBack(Ready, d), Ready[i], i)
      BY <2>1, <3>1, PushBackKeepsOrder
    <3>3. QED
      BY <2>5, <3>1, <3>2
  <2>6. CASE /\ Picks /\ Ready # <<>> /\ Current' = Head(Ready)
             /\ Ready' = Tail(Ready) \/ Ready' = PushBack(Tail(Ready), Head(Ready))
    <3>1. CASE i = 1
      BY <2>1, <2>6, <3>1
    <3>2. CASE i # 1
      <4>1. /\ Tail(Ready) \in Seq(Conts) /\ Once(Tail(Ready)) /\ Head(Ready) \in Conts
            /\ Els(Tail(Ready)) = Els(Ready) \ {Head(Ready)}
        BY <2>1, <2>6, PopFrontLemma
      <4>2. i - 1 \in 1..Len(Tail(Ready)) /\ Tail(Ready)[i - 1] = Ready[i]
        BY <2>1, <3>2, PopFrontAdvances
      <4>3. Ready[i] # Head(Ready)
        BY <4>1, <4>2 DEF Els
      <4>4. Within(Tail(Ready), Ready[i], i - 1)
        BY <4>1, <4>2 DEF Within
      <4>5. Within(PushBack(Tail(Ready), Head(Ready)), Ready[i], i - 1)
        BY <4>1, <4>2, <4>3, PushBackKeepsOrder
      <4>6. QED
        BY <2>6, <4>4, <4>5
    <3>3. QED
      BY <3>1, <3>2
  <2>7. QED
    BY <2>3, <2>4, <2>5, <2>6, ReadyStep
<1>2. QED
  BY Invariance, <1>1, PTL DEF Spec, KeepsTurn
=============================================================================
