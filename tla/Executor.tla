------------------------------ MODULE Executor ------------------------------
(***************************************************************************)
(* The coroutine engine of util/green: TContExecutor with its ready list,  *)
(* its tree of waiting events, the poll lists and the scheduler loop, and  *)
(* the operations a coroutine (TCont) may call on it.                      *)
(*                                                                         *)
(* Everything runs in one thread.  `phase' says who owns it: a coroutine   *)
(* ("run", or one of the two loops of Abort) or a stage of the scheduler   *)
(* loop.  Only the clock moves by itself.  A loop of the code that wakes   *)
(* or cancels several coroutines is one action per iteration; nothing else *)
(* is enabled while the loop lasts.                                        *)
(***************************************************************************)
EXTENDS Naturals, Sequences, IntrusiveList

CONSTANTS
    Conts,     \* the coroutine stacks (TContRep) of the pool
    NoCont,    \* Current_ == 0, before the first coroutine was activated
    Chans,     \* what poll can report on: a descriptor in one direction
    Timer,     \* the source of a TTimerEvent
    MaxTime,   \* bound: the last instant the clock shows
    MaxSpawn   \* bound: coroutines created after the first one

ASSUME NoContAssumption == NoCont \notin Conts
ASSUME TimerAssumption == Timer \notin Chans
ASSUME BoundsAssumption == MaxTime \in Nat /\ MaxSpawn \in Nat

VARIABLES
    phase,        \* who owns the thread
    Ready,        \* Ready_: coroutines to run, in order
    Current,      \* Current_: the coroutine activated last
    life,         \* free in the pool, live, or dead in ToDelete_
    cancelled,    \* TCont::Cancelled_
    wait,         \* the blocking call a coroutine is inside of
    status,       \* TContPollEvent::Status_, for every source waited on
    signalled,    \* TContEvent::Status_ is EWAKEDUP
    IoWait,       \* TEventWaitQueue::IoWait_, as <<coroutine, source>> pairs
    ret,          \* what the blocking call of the running coroutine returned
    now,          \* TInstant::Now()
    horizon,      \* `next' of WaitForIO, the deadline given to the poller
    todo,         \* poll events still to be delivered: <<coroutine, source>>
    report,       \* the status the poller reported for every channel
    pollFailed,  \* some poll(2) has failed so far (EINTR, ENOMEM)
    spawned       \* coroutines created so far

vars == <<phase, Ready, Current, life, cancelled, wait, status, signalled,
          IoWait, ret, now, horizon, todo, report, pollFailed, spawned>>

Never == MaxTime + 1                     \* TInstant::Max()
DeadLines == 0..Never
Sources == Chans \cup {Timer}
Kinds == {"none", "sleep", "event", "yield", "poll", "flush"}
Statuses == {"EINPROGRESS", "ETIMEDOUT", "ok", "err"}
Results == Statuses \cup {"none", "ECANCELED", "EWAKEDUP"}
CoroutinePhases == {"run", "abortWait", "abortReady"}
SchedulerPhases ==
    {"pick", "io", "timeouts", "poll", "expire", "deliver", "delete", "stopped"}

NoWait == [kind |-> "none", on |-> {}, deadline |-> Never]
AllInProgress == [s \in Sources |-> "EINPROGRESS"]

Running(c) == phase \in CoroutinePhases /\ Current = c
InReady(c) == \E i \in 1..Len(Ready) : Ready[i] = c

-----------------------------------------------------------------------------
(* The event leaves the tree, and nobody is told.                          *)
WakeNobody(c, s, st) ==
    /\ status' = [status EXCEPT ![c][s] = st]
    /\ IoWait' = IoWait \ {<<c, s>>}
    /\ UNCHANGED Ready

(* The event fires: it leaves the tree and its coroutine becomes ready.    *)
WakeWith(c, s, st) ==
    /\ status' = [status EXCEPT ![c][s] = st]
    /\ IoWait' = IoWait \ {<<c, s>>}
    /\ Ready' = PushBack(Ready, c)

(* TCont::Cancel with the reschedule of a parked coroutine forgotten.      *)
CancelQuietly(d) ==
    IF cancelled[d]
    THEN UNCHANGED <<cancelled, Ready>>
    ELSE cancelled' = [cancelled EXCEPT ![d] = TRUE] /\ UNCHANGED Ready

(* TCont::Cancel of a live coroutine.                                      *)
CancelCont(d) ==
    IF cancelled[d]
    THEN UNCHANGED <<cancelled, Ready>>
    ELSE /\ cancelled' = [cancelled EXCEPT ![d] = TRUE]
         /\ Ready' = IF Current = d THEN Ready ELSE PushBack(Ready, d)

-----------------------------------------------------------------------------
(* What a running coroutine may do.                                        *)

(* Execute() creates the first coroutine and enters RunScheduler.          *)
Init ==
    \E c \in Conts :
        /\ phase = "pick"
        /\ Ready = <<c>>
        /\ Current = NoCont
        /\ life = [d \in Conts |-> IF d = c THEN "live" ELSE "free"]
        /\ cancelled = [d \in Conts |-> FALSE]
        /\ wait = [d \in Conts |-> NoWait]
        /\ status = [d \in Conts |-> AllInProgress]
        /\ signalled = [d \in Conts |-> FALSE]
        /\ IoWait = {}
        /\ ret = "none"
        /\ now = 0
        /\ horizon = 0
        /\ todo = {}
        /\ report = AllInProgress
        /\ pollFailed = FALSE
        /\ spawned = 0

Create(d) ==
    /\ phase = "run"
    /\ life[d] = "free"
    /\ spawned < MaxSpawn
    /\ spawned' = spawned + 1
    /\ life' = [life EXCEPT ![d] = "live"]
    /\ cancelled' = [cancelled EXCEPT ![d] = FALSE]
    /\ Ready' = PushBack(Ready, d)
    /\ UNCHANGED <<phase, Current, wait, status, signalled, IoWait, ret, now,
                   horizon, todo, report, pollFailed>>

(* ExecuteEvent, and SelectD for several sources: a cancelled coroutine    *)
(* gets ECANCELED at once; otherwise its events are registered, it is      *)
(* taken off the ready list, and the scheduler goes on.                    *)
Block(kind, on, deadline) ==
    /\ phase = "run"
    /\ ~cancelled[Current]
    /\ wait' = [wait EXCEPT ![Current] =
                   [kind |-> kind, on |-> on, deadline |-> deadline]]
    /\ status' = [status EXCEPT ![Current] = AllInProgress]
    /\ signalled' = [signalled EXCEPT ![Current] = FALSE]
    /\ IoWait' = IoWait \cup ({Current} \X on)
    /\ Ready' = Unlink(Ready, Current)
    /\ ret' = "none"
    /\ phase' = "io"
    /\ UNCHANGED <<Current, life, cancelled, now, horizon, todo, report,
                   pollFailed, spawned>>

SleepD == \E d \in DeadLines : Block("sleep", {Timer}, d)

(* TContEvent::WaitD: a sleep that TContEvent::Wake may cut short.         *)
WaitD == \E d \in DeadLines : Block("event", {Timer}, d)

(* TSocketOut::Flush: SleepI until a poll callback reschedules Wake_.      *)
FlushWait == Block("flush", {Timer}, Never)

(* PollD waits on one channel, SelectD on several.                         *)
SelectD ==
    \E on \in (SUBSET Chans) \ {{}}, d \in DeadLines : Block("poll", on, d)

(* The first half of Yield is SleepD(Zero).                                *)
Yield == Block("yield", {Timer}, 0)

(* Any blocking call of a cancelled coroutine.                             *)
RefuseToBlock ==
    /\ phase = "run"
    /\ cancelled[Current]
    /\ ret' = "ECANCELED"
    /\ UNCHANGED <<phase, Ready, Current, life, cancelled, wait, status,
                   signalled, IoWait, now, horizon, todo, report, pollFailed,
                   spawned>>

(* The second half of Yield, reached at once when SleepD refused.          *)
YieldCancelled ==
    /\ phase = "run"
    /\ cancelled[Current]
    /\ Ready' = PushBack(Ready, Current)
    /\ ret' = "none"
    /\ phase' = "io"
    /\ UNCHANGED <<Current, life, cancelled, wait, status, signalled, IoWait,
                   now, horizon, todo, report, pollFailed, spawned>>

(* TContEvent::Wake, called by whoever holds d's event (mutex, condition   *)
(* variable, TMyEvent): the timer of d stays in the tree until d resumes.  *)
Wake(d) ==
    /\ phase = "run"
    /\ wait[d].kind = "event"
    /\ signalled' = [signalled EXCEPT ![d] = TRUE]
    /\ Ready' = PushBack(Ready, d)
    /\ UNCHANGED <<phase, Current, life, cancelled, wait, status, IoWait, ret,
                   now, horizon, todo, report, pollFailed, spawned>>

Cancel(d) ==
    /\ phase = "run"
    /\ life[d] = "live"
    /\ CancelCont(d)
    /\ UNCHANGED <<phase, Current, life, wait, status, signalled, IoWait, ret,
                   now, horizon, todo, report, pollFailed, spawned>>

(* TContExecutor::Abort cancels the owners of the waiting events in the    *)
(* order of their deadlines, then everything on the ready list.            *)
Abort ==
    /\ phase = "run"
    /\ phase' = "abortWait"
    /\ UNCHANGED <<Ready, Current, life, cancelled, wait, status, signalled,
                   IoWait, ret, now, horizon, todo, report, pollFailed,
                   spawned>>

AbortWaiter(c) ==
    /\ phase = "abortWait"
    /\ \E s \in Sources : <<c, s>> \in IoWait
    /\ ~cancelled[c]
    /\ \A e \in IoWait : ~cancelled[e[1]] => wait[c].deadline <= wait[e[1]].deadline
    /\ CancelCont(c)
    /\ UNCHANGED <<phase, Current, life, wait, status, signalled, IoWait, ret,
                   now, horizon, todo, report, pollFailed, spawned>>

AbortWaitersDone ==
    /\ phase = "abortWait"
    /\ \A e \in IoWait : cancelled[e[1]]
    /\ phase' = "abortReady"
    /\ UNCHANGED <<Ready, Current, life, cancelled, wait, status, signalled,
                   IoWait, ret, now, horizon, todo, report, pollFailed,
                   spawned>>

(* Cancelling moves a ready coroutine to the end of the list that is being *)
(* walked; it is met again there and left alone.                           *)
AbortNextReady ==
    /\ phase = "abortReady"
    /\ \E i \in 1..Len(Ready) :
          /\ ~cancelled[Ready[i]]
          /\ \A j \in 1..(i - 1) : cancelled[Ready[j]]
          /\ CancelCont(Ready[i])
    /\ UNCHANGED <<phase, Current, life, wait, status, signalled, IoWait, ret,
                   now, horizon, todo, report, pollFailed, spawned>>

AbortDone ==
    /\ phase = "abortReady"
    /\ \A i \in 1..Len(Ready) : cancelled[Ready[i]]
    /\ phase' = "run"
    /\ UNCHANGED <<Ready, Current, life, cancelled, wait, status, signalled,
                   IoWait, ret, now, horizon, todo, report, pollFailed,
                   spawned>>

(* The function returned or threw (DoRun catches it): ScheduleToDelete.    *)
Exit ==
    /\ phase = "run"
    /\ life' = [life EXCEPT ![Current] = "dead"]
    /\ ret' = "none"
    /\ phase' = "io"
    /\ UNCHANGED <<Ready, Current, cancelled, wait, status, signalled, IoWait,
                   now, horizon, todo, report, pollFailed, spawned>>

-----------------------------------------------------------------------------
(* The scheduler loop.                                                     *)

Fired(c) == {status[c][s] : s \in wait[c].on} \cap {"ok", "err"}

TimedOut(c) == \E s \in wait[c].on : status[c][s] = "ETIMEDOUT"

(* A timeout that outranks the channel reported after it.                  *)
OutcomeTimeoutFirst(c) ==
    IF wait[c].kind = "none" THEN {"none"}
    ELSE IF wait[c].kind = "event" /\ signalled[c] THEN {"EWAKEDUP"}
    ELSE IF cancelled[c] THEN {"ECANCELED"}
    ELSE IF TimedOut(c) THEN {"ETIMEDOUT"}
    ELSE IF Fired(c) # {} THEN Fired(c)
    ELSE {"EINPROGRESS"}

(* What ExecuteEvent, TContEvent::WaitD and TriggeredEvent return to c     *)
(* when it is resumed; of several fired channels any may be reported, and  *)
(* a timeout only if no channel fired.                                     *)
Outcome(c) ==
    IF wait[c].kind = "none" THEN {"none"}
    ELSE IF wait[c].kind = "event" /\ signalled[c] THEN {"EWAKEDUP"}
    ELSE IF cancelled[c] THEN {"ECANCELED"}
    ELSE IF Fired(c) # {} THEN Fired(c)
    ELSE IF TimedOut(c) THEN {"ETIMEDOUT"}
    ELSE {"EINPROGRESS"}

(* The events are left behind in the tree.                                 *)
LeaveEventsBehind(c) ==
    /\ wait' = [wait EXCEPT ![c] = NoWait]
    /\ status' = [status EXCEPT ![c] = AllInProgress]
    /\ signalled' = [signalled EXCEPT ![c] = FALSE]
    /\ UNCHANGED IoWait

(* Leaving the call destroys its events: they leave the tree and the poll  *)
(* lists, whichever of them fired.                                         *)
LeaveCall(c) ==
    /\ wait' = [wait EXCEPT ![c] = NoWait]
    /\ status' = [status EXCEPT ![c] = AllInProgress]
    /\ signalled' = [signalled EXCEPT ![c] = FALSE]
    /\ IoWait' = IoWait \ ({c} \X Sources)

(* PopFront, Activate, and the return of the call the coroutine was in.    *)
Activate ==
    /\ phase = "pick"
    /\ Ready # <<>>
    /\ wait[Head(Ready)].kind # "yield"
    /\ Current' = Head(Ready)
    /\ Ready' = Tail(Ready)
    /\ ret' \in Outcome(Head(Ready))
    /\ LeaveCall(Head(Ready))
    /\ phase' = "run"
    /\ UNCHANGED <<life, cancelled, now, horizon, todo, report, pollFailed,
                   spawned>>

(* A coroutine in Yield is activated only to queue itself up again.        *)
ActivateYielder ==
    /\ phase = "pick"
    /\ Ready # <<>>
    /\ wait[Head(Ready)].kind = "yield"
    /\ Current' = Head(Ready)
    /\ Ready' = PushBack(Tail(Ready), Head(Ready))
    /\ LeaveCall(Head(Ready))
    /\ phase' = "io"
    /\ UNCHANGED <<life, cancelled, ret, now, horizon, todo, report,
                   pollFailed, spawned>>

(* The loop of RunScheduler ends.                                          *)
Stop ==
    /\ phase = "pick"
    /\ Ready = <<>>
    /\ phase' = "stopped"
    /\ UNCHANGED <<Ready, Current, life, cancelled, wait, status, signalled,
                   IoWait, ret, now, horizon, todo, report, pollFailed,
                   spawned>>

(* The two conditions of WaitForIO's loop joined by || instead of &&.      *)
IoDoneBoth ==
    /\ phase = "io"
    /\ Ready # <<>> /\ IoWait = {}
    /\ phase' = "delete"
    /\ UNCHANGED <<Ready, Current, life, cancelled, wait, status, signalled,
                   IoWait, ret, now, horizon, todo, report, pollFailed,
                   spawned>>

(* WaitForIO has something to run or nothing to wait for.                  *)
IoDone ==
    /\ phase = "io"
    /\ Ready # <<>> \/ IoWait = {}
    /\ phase' = "delete"
    /\ UNCHANGED <<Ready, Current, life, cancelled, wait, status, signalled,
                   IoWait, ret, now, horizon, todo, report, pollFailed,
                   spawned>>

(* The poller is given the last deadline instead of the first.             *)
CancelTimedOutLast ==
    /\ phase = "io"
    /\ Ready = <<>>
    /\ IoWait # {}
    /\ \E e \in IoWait :
          /\ \A o \in IoWait : wait[o[1]].deadline <= wait[e[1]].deadline
          /\ IF wait[e[1]].deadline > now
             THEN horizon' = wait[e[1]].deadline /\ phase' = "poll"
             ELSE horizon' = now /\ phase' = "timeouts"
    /\ UNCHANGED <<Ready, Current, life, cancelled, wait, status, signalled,
                   IoWait, ret, now, todo, report, pollFailed, spawned>>

(* CancelTimedOut(Now()): the first deadline is ahead, poll until then; or *)
(* it has passed, wake what is due and poll without waiting.               *)
CancelTimedOut ==
    /\ phase = "io"
    /\ Ready = <<>>
    /\ IoWait # {}
    /\ \E e \in IoWait :
          /\ \A o \in IoWait : wait[e[1]].deadline <= wait[o[1]].deadline
          /\ IF wait[e[1]].deadline > now
             THEN horizon' = wait[e[1]].deadline /\ phase' = "poll"
             ELSE horizon' = now /\ phase' = "timeouts"
    /\ UNCHANGED <<Ready, Current, life, cancelled, wait, status, signalled,
                   IoWait, ret, now, todo, report, pollFailed, spawned>>

(* The do loop goes one event too far.                                     *)
ExpireOneMore(c, s) ==
    /\ phase \in {"timeouts", "expire"}
    /\ <<c, s>> \in IoWait
    /\ \A e \in IoWait : wait[c].deadline <= wait[e[1]].deadline
    /\ WakeWith(c, s, "ETIMEDOUT")
    /\ UNCHANGED <<phase, Current, life, cancelled, wait, signalled, ret, now,
                   horizon, todo, report, pollFailed, spawned>>

(* One iteration of the do loop of CancelTimedOut, in either of its calls. *)
Expire(c, s) ==
    /\ phase \in {"timeouts", "expire"}
    /\ <<c, s>> \in IoWait
    /\ wait[c].deadline <= horizon
    /\ \A e \in IoWait : wait[c].deadline <= wait[e[1]].deadline
    /\ WakeWith(c, s, "ETIMEDOUT")
    /\ UNCHANGED <<phase, Current, life, cancelled, wait, signalled, ret, now,
                   horizon, todo, report, pollFailed, spawned>>

ExpireDone ==
    /\ phase \in {"timeouts", "expire"}
    /\ \A e \in IoWait : wait[e[1]].deadline > horizon
    /\ phase' = IF phase = "timeouts" THEN "poll" ELSE "io"
    /\ UNCHANGED <<Ready, Current, life, cancelled, wait, status, signalled,
                   IoWait, ret, now, horizon, todo, report, pollFailed,
                   spawned>>

(* The poller has nothing to report by `horizon': the timers of that       *)
(* instant expire.  A poll(2) that fails looks the same to WaitForIO.      *)
PollNothing ==
    /\ phase = "poll"
    /\ \/ now >= horizon /\ UNCHANGED pollFailed
       \/ now < horizon /\ pollFailed' = TRUE
    /\ phase' = "expire"
    /\ UNCHANGED <<Ready, Current, life, cancelled, wait, status, signalled,
                   IoWait, ret, now, horizon, todo, report, spawned>>

(* The poller reports some channels with waiters (ready or in error), and  *)
(* outputs whose callback reschedules the coroutine that flushes them.     *)
PollEvents ==
    /\ phase = "poll"
    /\ \E r \in [Chans -> {"EINPROGRESS", "ok", "err"}], f \in SUBSET Conts :
          LET hit == {e \in Conts \X Chans :
                         /\ e[2] \in wait[e[1]].on
                         /\ r[e[2]] # "EINPROGRESS"}
          IN  /\ \A s \in Chans : r[s] # "EINPROGRESS" =>
                     \E c \in Conts : s \in wait[c].on
              /\ \A c \in f : wait[c].kind = "flush"
              /\ hit \cup (f \X {Timer}) # {}
              /\ todo' = hit \cup (f \X {Timer})
              /\ report' = [s \in Sources |->
                               IF s = Timer THEN "EINPROGRESS" ELSE r[s]]
    /\ phase' = "deliver"
    /\ UNCHANGED <<Ready, Current, life, cancelled, wait, status, signalled,
                   IoWait, ret, now, horizon, pollFailed, spawned>>

(* TFdEvent::OnPollEvent.  The event may have timed out in this very pass: *)
(* it is still in the poll list, and the report replaces the timeout.      *)
OnPollEvent(c, s) ==
    /\ phase = "deliver"
    /\ <<c, s>> \in todo
    /\ s # Timer
    /\ WakeWith(c, s, report[s])
    /\ todo' = todo \ {<<c, s>>}
    /\ UNCHANGED <<phase, Current, life, cancelled, wait, signalled, ret, now,
                   horizon, report, pollFailed, spawned>>

(* TSocketOut::OnPollEvent: Wake_->ReSchedule(), the timer is not touched. *)
OnFlushEvent(c) ==
    /\ phase = "deliver"
    /\ <<c, Timer>> \in todo
    /\ Ready' = PushBack(Ready, c)
    /\ todo' = todo \ {<<c, Timer>>}
    /\ UNCHANGED <<phase, Current, life, cancelled, wait, status, signalled,
                   IoWait, ret, now, horizon, report, pollFailed, spawned>>

DeliverDone ==
    /\ phase = "deliver"
    /\ todo = {}
    /\ phase' = "io"
    /\ report' = AllInProgress
    /\ UNCHANGED <<Ready, Current, life, cancelled, wait, status, signalled,
                   IoWait, ret, now, horizon, todo, pollFailed, spawned>>

(* DeleteScheduled gives the stacks of exited coroutines back to the pool. *)
DeleteScheduled ==
    /\ phase = "delete"
    /\ life' = [c \in Conts |-> IF life[c] = "dead" THEN "free" ELSE life[c]]
    /\ phase' = "pick"
    /\ UNCHANGED <<Ready, Current, cancelled, wait, status, signalled, IoWait,
                   ret, now, horizon, todo, report, pollFailed, spawned>>

Tick ==
    /\ now < MaxTime
    /\ now' = now + 1
    /\ UNCHANGED <<phase, Ready, Current, life, cancelled, wait, status,
                   signalled, IoWait, ret, horizon, todo, report, pollFailed,
                   spawned>>

-----------------------------------------------------------------------------
CoroutineStep ==
    \/ \E d \in Conts : Create(d) \/ Wake(d) \/ Cancel(d) \/ AbortWaiter(d)
    \/ SleepD \/ WaitD \/ FlushWait \/ SelectD \/ Yield
    \/ RefuseToBlock \/ YieldCancelled
    \/ Abort \/ AbortWaitersDone \/ AbortNextReady \/ AbortDone
    \/ Exit

SchedulerStep ==
    \/ Activate \/ ActivateYielder \/ Stop
    \/ IoDone \/ CancelTimedOut \/ ExpireDone
    \/ \E c \in Conts, s \in Sources : Expire(c, s) \/ OnPollEvent(c, s)
    \/ PollNothing \/ PollEvents
    \/ \E c \in Conts : OnFlushEvent(c)
    \/ DeliverDone \/ DeleteScheduled

Next == CoroutineStep \/ SchedulerStep \/ Tick

Spec == Init /\ [][Next]_vars

-----------------------------------------------------------------------------
TypeOK ==
    /\ phase \in CoroutinePhases \cup SchedulerPhases
    /\ Ready \in Seq(Conts)
    /\ Current \in Conts \cup {NoCont}
    /\ life \in [Conts -> {"free", "live", "dead"}]
    /\ cancelled \in [Conts -> BOOLEAN]
    /\ wait \in [Conts -> [kind : Kinds, on : SUBSET Sources, deadline : DeadLines]]
    /\ status \in [Conts -> [Sources -> Statuses]]
    /\ signalled \in [Conts -> BOOLEAN]
    /\ IoWait \subseteq Conts \X Sources
    /\ ret \in Results
    /\ now \in 0..MaxTime
    /\ horizon \in DeadLines
    /\ todo \subseteq Conts \X Sources
    /\ report \in [Sources -> {"EINPROGRESS", "ok", "err"}]
    /\ pollFailed \in BOOLEAN
    /\ spawned \in 0..MaxSpawn

(* A coroutine is in one place only: it is on the ready list at most once, *)
(* and never while it runs, after it ended, or before it was created.      *)
(* PushBack on an intrusive list and Register's Unlink have to see to it.  *)
OnePlace ==
    /\ \A i, j \in 1..Len(Ready) : Ready[i] = Ready[j] => i = j
    /\ \A c \in Conts : InReady(c) => life[c] = "live" /\ ~Running(c)

(* No coroutine is forgotten: one that lives and does not run is on the    *)
(* ready list, or every event it waits for is still in the tree, where     *)
(* CancelTimedOut or Abort will find it.                                   *)
NoneForgotten ==
    \A c \in Conts : life[c] = "live" /\ ~Running(c) =>
        \/ InReady(c)
        \/ /\ wait[c].on # {}
           /\ \A s \in wait[c].on : <<c, s>> \in IoWait

(* No wake-up is lost: a coroutine one of whose events fired, whose        *)
(* TContEvent was signalled, or which was cancelled, is on the ready list  *)
(* until it runs; a cancelled coroutine is never parked.                   *)
NoLostWakeup ==
    \A c \in Conts :
        (/\ life[c] = "live" /\ ~Running(c)
         /\ \/ cancelled[c]
            \/ signalled[c]
            \/ \E s \in wait[c].on : status[c][s] # "EINPROGRESS")
        => InReady(c)

(* The tree and the poll lists point only into calls in progress: an event *)
(* of a coroutine that runs or has ended would be a dangling pointer into  *)
(* its stack.                                                              *)
NoDanglingEvent ==
    /\ \A e \in IoWait : e[2] \in wait[e[1]].on
    /\ \A e \in todo : e[2] \in wait[e[1]].on
    /\ \A c \in Conts : wait[c].on # {} => life[c] = "live" /\ ~Running(c)

(* Unless a poll(2) failed, no timer fires before its deadline: WaitForIO  *)
(* passes the same instant to the poller and to CancelTimedOut.            *)
NoEarlyTimeout ==
    ~pollFailed => \A c \in Conts, s \in Sources :
        status[c][s] = "ETIMEDOUT" => wait[c].deadline <= now

(* RunScheduler returns only when no coroutine is left: it looks at the    *)
(* ready list alone, so WaitForIO must not come back with it empty while   *)
(* someone waits.                                                          *)
StopsWhenDone == phase = "stopped" => \A c \in Conts : life[c] = "free"

(* What a blocking call returns is true: EINPROGRESS never leaks out of a  *)
(* sleep, a wait or a poll (only Flush, which ignores it, is rescheduled   *)
(* without an event), EWAKEDUP means a signal, ECANCELED a cancellation,   *)
(* and a reported channel outranks the timeout of the same pass.           *)
TruthfulResult ==
    \A c \in Conts :
        phase = "pick" /\ phase' = "run" /\ Current' = c =>
            /\ ret' = "EINPROGRESS" => wait[c].kind = "flush"
            /\ ret' = "EWAKEDUP" => signalled[c]
            /\ ret' = "ECANCELED" => cancelled[c]
            /\ ret' = "ETIMEDOUT" => \A s \in wait[c].on : status[c][s] \notin {"ok", "err"}
            /\ ret' = "none" <=> wait[c].kind = "none"

ResultsAreTruthful == [][TruthfulResult]_vars

-----------------------------------------------------------------------------
(* Fairness: the scheduler runs, the clock advances, and every coroutine   *)
(* gives the thread up in the end by blocking, yielding or returning.      *)
Switch == SleepD \/ WaitD \/ FlushWait \/ SelectD \/ Yield \/ YieldCancelled \/ Exit

(* The poller need not report anything, or fail, before its deadline.      *)
SchedulerGoesOn == (phase = "poll" => now >= horizon) /\ SchedulerStep

Fairness == WF_vars(SchedulerGoesOn) /\ WF_vars(Tick) /\ SF_vars(Switch)

(* c was ready and is moved back on the list.                              *)
PutBack(c) ==
    \E i \in 1..Len(Ready) : Ready[i] = c /\ \E j \in (i + 1)..Len(Ready') : Ready'[j] = c

(* Every ready coroutine gets the thread, unless it is put back again and  *)
(* again: a wake-up moves a coroutine that is ready to the end of the      *)
(* list, so that two others that take turns to wake it hold it back.       *)
ReadyRuns ==
    \A c \in Conts : []<><<PutBack(c)>>_vars \/ (InReady(c) ~> Running(c))

(* Every wait with a deadline ends, if the scheduler finds the ready list  *)
(* empty again and again: only then are the timers looked at, and two      *)
(* coroutines that wake each other are enough to prevent it.               *)
DeadlineEnds ==
    []<>(phase \in SchedulerPhases /\ Ready = <<>>) =>
        \A c \in Conts : wait[c].on # {} /\ wait[c].deadline <= MaxTime ~> Running(c)

=============================================================================
