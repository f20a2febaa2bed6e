# TLA+ models of the balancer

The repository is an HTTP load balancer: a server (`web/httpd`) built as a tree
of modules that run on a cooperative coroutine engine (`util/green`). This
directory models the engine, the retry loop of the balancer module with its
round robin policies, the output side of a connection, the main task with its
listener and connections, the proxy below a keep-alive connection, and a SPDY
session. TLC checks the models on small instances. TLAPS
proves their main invariants for every value of the constants.

`PROJECT.json` holds the machine-readable part: the map from definitions to
source lines, the runs, the mutants, the hazards and the theorems.

## 1. The system

Everything runs in one thread. `TContExecutor` switches between coroutines,
which give the thread up only when they block. So the interleavings that matter
are those between blocking calls, poll callbacks, timers and cancellations.

| part | source | state | operations | what is hard about it |
|---|---|---|---|---|
| coroutine engine | `util/green/impl.h`, `impl.cpp` | ready list, tree of waiting events, poll lists, cancelled flags, event statuses | create, exit, sleep, wait, select, yield, wake, cancel, abort, scheduler loop | several wake-ups of one coroutine; a timeout and a report in one pass; events living on stacks; timers starved by ready coroutines |
| coroutine synchronisation | `util/green/events.h`, `mutex.h`, `condvar.h` | queue of waiters, token | lock, unlock, wait, signal | a signalled waiter that times out or is cancelled; a lock taken in between |
| socket output | `kernel/socket.cpp`, `split.h` | queue of chunks, `Wake_`, `Err_`, poll registration | send, flush, poll callback | partial writes across chunks; a single `Wake_`; errors found late; cancellation in a loop |
| balancer | `modules/balancer/module.cpp`, `iterator.h` | attempts left, backends tried, counters | the retry loop | failure after part of the answer; replay of the request; accounting on every path |
| rewindable input, counting output | `kernel/rewind.h`, `countio.h` | `Old_`, `Tmp_`, `Written_` | recv, rewind, send | replay of what several attempts read in part; a send that throws |
| arbiters | `modules/balancer/arbiter.cpp` | failure rate, `Enabled_` | register, authorize | shared by all requests |
| selection policies | `modules/balancer/*.cpp` | weights, usage counts, states | next, complete, fail | does every backend get its turn; values read before they are set |
| main task, listener, pinger, admin | `kernel/main.cpp`, `util/server/listen.cpp`, `modules/pinger`, `modules/admin` | connection list, listener, ping event | accept, evict, stop, start, shut down | shutdown against pinger; drain with a deadline |
| proxy | `modules/proxy` | two copying coroutines | start, copy, wait | one of the two outliving the call |
| spdy | `modules/spdy`, `kernel/queue.h`, `syncro.h` | stream table, per-stream queue | frames, streams | streams sharing an output; stream table against stream lifetime |
| http, tls, static, pass-through modules | `modules/*` | keep-alive loop, wrappers | run | text processing and third-party libraries for the most part |

`PROJECT.json` lists all components, including those that are not modelled and
why, and the hazards, each with the line where it bites and the properties that
would catch it.

## 2. Modules

| module | models | checked by | proved in |
|---|---|---|---|
| `Executor` | `TContExecutor`, `TCont`, `TContEvent` | `MCExecutor` with three configurations | `ExecutorProofs` |
| `Balancer` | the balancer module with iterator, arbiters, rewindable input, counting output | `MCBalancer` with two configurations | `BalancerProofs` |
| `BalancerContract` | what the balancer promises a client (abstract) | as a property of `Balancer` | as a theorem of `BalancerProofs` |
| `SocketOut` | `TSocketOut` and `Split` | `MCSocketOut` with two configurations | `SocketOutProofs` |
| `IntrusiveList` | `PushBack` and `Unlink` of the intrusive list, used by `Executor` and `Connections` | with these | with these |
| `Server` | the main task's control calls, the listener, the pinger with `TMyEvent`, `DoShutDown` | `MCServer` | `ServerProofs` |
| `Connections` | the connection list with "maxconn", descriptors, the poller's lists, poll(2) and epoll | `MCConnections` | `ConnectionsProofs` |
| `RoundRobin` | `TConnIterator` over the policies "rr" and "srr" | `MCRoundRobin` | `RoundRobinProofs` |
| `Proxy` | one keep-alive connection of the http module with a proxy below it | `MCProxy` | `ProxyProofs` |
| `Spdy` | a SPDY session: loop, stream table, streams, their queues, the shared output | `MCSpdy` | `SpdyProofs` |

Definitions with "Mutant of" in their comment (and, in `Executor`, the ones
placed before the definition they vary) are deliberately wrong versions of the
definition that follows. They are not part of a specification. Each property
has one that breaks it, which shows that the property depends on the code.

### Executor

`phase` says who owns the thread: the running coroutine (`"run"`), one of the
two loops of `Abort`, or a stage of the scheduler: `pick` (PopFront and
Activate), `io` (the head of `WaitForIO`), `timeouts` and `expire` (the two
calls of `CancelTimedOut`), `poll`, `deliver` (the loop over the reported
events), `delete` (`DeleteScheduled`), `stopped`. `Ready`, `IoWait`,
`cancelled`, `status` and `Current` are the fields of the same names. `wait`
is the blocking call a coroutine is inside of; the events on its stack are the
pairs of the coroutine and the sources it waits on. A loop of the code that
wakes or cancels several coroutines takes one step per iteration.

The clock (`Tick`) may move between any two steps. Descriptors are channels
that the poller may report as ready or in error at any poll. A failing poll(2)
is possible at any poll and remembered in `pollFailed`.

### Balancer

Each request is a coroutine inside `DoRun`. It is switched out only inside
`IModule::Run`, so the way from the return of one `Run` to the start of the next
(the handler, the arbiter, `Rewind`, `Next`) is one step; the reads and sends
of an attempt are steps of their own and interleave with other requests. An
attempt may read, answer, return, or throw one of four kinds of error at any
moment, and the client may go away at any moment.

Left open, so that the results hold for every choice: which untried backend a
policy names, and how far the mean of the watermark arbiter moves. The additive
arbiter's real numbers are whole multiples of a unit. Two things are assumed.
`attempts` is at most 16 (`AttemptsAssumption`): the code does not check it. And
a client's socket that has failed carries nothing more (`gone`): this is the
kernel's doing, since `DoSend` schedules the output whatever `Err_` is and
`OnPollEvent` does not look at it. An error that a later writev does not repeat
would break it.

`BalancerContract` has three variables per client: the attempt it hears, whether
it is gone, and the verdict. The refinement mapping takes the attempt heard from
the last chunk that reached the client.

### SocketOut

The bytes are numbered in the order in which `Send` accepted them, so that the
stream can be compared with what is on the wire. Chunk boundaries are kept,
because `Split` works on them. `FlushLoop` is the loop of `Flush`, which `DoSend`,
`Flush` and a sender that resumes enter; it returns, throws or sleeps. A sender
cancelled by `Abort` does not sleep: its loop never ends, which is the state
`stuck`.

### Server

What a coroutine does between two switches is one step. `Listener_.Reset` and
`Destroy` delete the old listener before they assign the pointer, and the
destructor yields in `Stop` until each accept coroutine has ended. This is where
control calls overlap: `"destroy"` is the state of whoever is inside it, and
`fault` says what went wrong. Any connection may fail or complete requests and
may call `DoShutDown` (the admin module). One of its coroutines may fall asleep in
`TSocketOut::Flush` or in the `Pop` of a SPDY stream (`"held"`), and may be left
there when the connection ends by an exception (`"stray"`): cancelled, such a
coroutine spins, and the model stops (`HeldSpins`). The arbiter is reduced to the
answer of `Authorize`. There is no limit on connections here ("maxconn" unset).

### Connections

This is the other half of the main task: with "maxconn" set, `OnAcceptFull` closes the
sockets of the connections at the head of the list, but does not cancel their
coroutines. `num` is the descriptor number a connection was given, `open` the
ones whose socket is not closed, `events` the poll events in the lists of
`TContPoller`, `interest` what the poller was told. The kernel is modelled from
how the code uses it: numbers are reused, poll(2) reports a closed number, epoll
forgets it and refuses changes to it. `stale` marks numbers whose list has
events that epoll does not know of. A refusal inside a handler that may not
throw ends the program (`fault`). A socket is also closed under a parked read
when the copy of an answer throws while a worker of `TProxy::Run` waits for the
client (`RunThrows`): the connection ends, and its worker (`orphans`) stays in
the list of the number until something wakes it.

### RoundRobin

Weights are kept relative to the least one, because only their order is used.
`Init` leaves `state` open for srr: the constructor does not set `State_`. The
counters of srr stop where `UpdateState` can no longer tell values apart.
`named` and `step` record turns for the property `Turns`; `well` is a backend
that from some time on answers everything. The configured weights are positive
multiples of a unit (`WeightAssumption`), and their sums exact. The code takes
any double: with a weight of zero the loop of the iterator would not end, and
what rounding does to large sums is not modelled.

### Proxy

A request is a head and some units of body, an answer a head and some units,
with one of three framings. A request says how long its body is, or does not
(`announced`): a chunked body without a Content-Length counts as none
(`ContentLength`), because the http module does not look at the Transfer-Encoding
of a request. `pc` is the connection's coroutine (parse, connect,
copy the answer, wait for the worker, finish), `worker` the one that copies the
request. The client does not pipeline. A malformed answer is treated like a reset.
When `Run` is left while the worker lives, the model stops at the worker's next
step (`halt`), because its object was on the stack of `Run`.

### Spdy

A queue holds something or nothing; the output is short, too long or failed,
with one `Wake_` for the loop and all streams. A DATA frame may be empty, as the
last one of a request often is: it only signals, and a `Pop` wakes to nothing.
The module below a stream may read, send, return or throw at any time. `misused` records that the
client went on with a stream whose request it had finished, or used an id
twice; `crowd` that two senders slept in `Flush` at once. The source calls the
module a proof of concept.

## 3. What the runs show

| run | instance | what it shows |
|---|---|---|
| `executor` | 3 coroutines, 1 channel, 2 instants, 2 creations | no coroutine is in two places, forgotten, or left with a wake-up nobody acts on; no event outlives its call; no early timeout |
| `executor_select` | 2 coroutines, 2 channels, 3 instants | what a blocking call returns is what happened, also when a timeout and a report meet |
| `executor_live` | 3 coroutines that wait for events and wake each other, 2 instants, fair | a ready coroutine runs, unless it is woken again and again; every wait with a deadline ends, if the ready list is empty again and again |
| `balancer` | 1 request of up to 3 chunks, 3 backends, 4 attempts | full replay, one voice, fresh backends, the contract |
| `balancer_shared` | 3 requests, 2 backends, 2 attempts | accounting, retry budget and hysteresis under interleaving |
| `socket_out` | 2 senders, lists of 1 or 2 chunks, up to 8 bytes, limit 2 | the stream is intact, the queue bounded, queued data scheduled, no stray wake-up, a flush that returns has written everything |
| `socket_out_owned` | the same with 1 sender | nobody sleeps in `Flush` out of reach of the callback |
| `server` | 3 connections, 2 addresses, fair | listener faults need overlapping control sequences; no refusal goes unnoticed; nothing listens after a shutdown has destroyed the listener; a shutdown lasts to its deadline and then ends, unless control calls overlapped or a coroutine was asleep in `Flush` or `Pop`; the pinger brings the listener back |
| `connections` | 3 connections, 3 numbers, limit 1, change to epoll beyond 1 number | sockets are bounded; the poller knows what open connections wait for; nobody writes to, and no open connection reads from, another's socket; only an eviction or an abandoned worker brings the lists out of step |
| `round_robin` | 2 requests, 2 backends, 3 attempts, window 1, both policies, fair | overtaking is bounded; the iterator's loop ends; a backend that recovered gets its share |
| `proxy` | bodies of up to 2 units, answers of 2, "maxqueue" 1 or 3, fair | when a worker outlives `Run`, a body is read as a request, a short answer passes for a whole one; every request ends |
| `spdy` | 2 streams, fair | a stream's queue loses no wake-up; a complete request ends |

Why these bounds. The executor needs a coroutine that acts, one that is acted on
and a third whose place in the lists may be disturbed; one deadline that has
passed, one ahead and one that never comes. The liveness run needs the third
coroutine too, because it takes two to keep another one from its turn; it leaves
out channels, yields and `Abort`. Two channels are needed to tell the
orders of `SelectD` apart. For the balancer four attempts on three backends
reach the case where every backend has been tried; a body of three chunks lets
three attempts read different parts of it. Three requests on an arbiter with an
allowance for two are enough to exceed it. For the output a limit of two with
chunks of up to three bytes puts cuts inside chunks, between them, and at the
end. Two addresses make the destructor of the listener yield twice, and three
connections let two shut the server down while a third fails requests. A limit
of one with three connections evicts a connection, gives its number to another,
and lets the evicted one come back into the list. Three attempts on two
backends reach the case where all have been tried; window and multipliers of
srr are scaled down (the multipliers 1, 2, 8, 64 to 1, 1, 2, 2, so that weights
stay small), with all its states kept; `Turns` is proved for all values. In `Proxy` the longest body exceeds one "maxqueue" and not the other,
and answers are long enough to break off in every place. Two streams and the
loop are three senders for one `Wake_`. Coroutines, backends, senders and
connections are symmetric where a configuration says SYMMETRY; no configuration
with a liveness property uses it.

CHECK_DEADLOCK is off where the program stops: an executor without coroutines,
requests that have all ended, bytes all accepted, a server after its shutdown, a
connection or session that is over, or an undefined behaviour at which the model
stops.

### Fairness

`executor_live` assumes that the scheduler loop and the clock go on, and that a
running coroutine in the end blocks or returns (otherwise nothing else can run:
the engine is cooperative). poll(2) is only assumed to return at its deadline; it
need not report anything earlier, or fail. Two premises are in the properties
themselves, because callers owe them to the engine. `ReadyRuns` is claimed for a
coroutine that is not put back in the list for ever: every `Wake` of a ready
coroutine moves it to the end. `DeadlineEnds` is claimed if the ready list is
empty again and again: timers and poll are looked at only then. A coroutine that
ignores ECANCELED keeps itself ready and breaks that premise. It is the reason
why `Flush` after `Abort` (the state `stuck` of `SocketOut`) is listed as a
hazard.

`server` assumes that the coroutines that are ready run, that the ten seconds of
a shutdown pass, that a cancelled connection ends or spins, and, for
`ListensAgain`, that pings which keep being made revive the arbiter in the end.
A cancelled coroutine gets ECANCELED from every blocking call. `Flush` and `Pop`
do not look at what their wait returns, so one that is asleep there does not
end; every other caller gives up, and ends its connection.
`round_robin` assumes only that something goes on: requests arrive or attempts
end. `proxy` assumes that both coroutines are scheduled and that the peers do
their part: the client sends the body it announced and reads, the backend reads,
answers and closes. This is needed because nothing in `TProxy::Run` after the
connect has a deadline; what `RunEnds` shows is that the two coroutines do not block each other
and that no signal is missed. It is claimed for a direct proxy, not through the
balancer. `spdy` assumes that streams are scheduled and that the client reads.
Of the module below it assumes that it makes only so many sends before it reads
on, and only so many before it ends once it has the whole request; this is
strong fairness, since a `Flush` may come between.

## 4. What is proved

All theorems hold for every value of the constants that meets the named
assumptions.

**ExecutorProofs.** The invariant `IInv` is the conjunction of the properties and
three facts that make it inductive. `PhaseFacts` says what each stage of the
scheduler knows: who may be dead when, that `pick` and `delete` are reached only
with something ready or nothing waiting, that events remain to be delivered only
in `deliver`, that what `Expire` takes is due unless poll(2) failed. `CallShape` says what each kind of
call waits on. `WokenForAReason` says that a coroutine inside a call is ready only
because it was cancelled or signalled, one of its events fired, or it is in
`Flush`. Without the last one `ResultsAreTruthful` does not follow: a call could
return EINPROGRESS. Without the first the scheduler could stop with coroutines
waiting. From `IInv` follow `TypeOK`, `OnePlace`, `NoneForgotten`, `NoLostWakeup`,
`NoDanglingEvent`, `NoEarlyTimeout`, `StopsWhenDone` and the action property
`ResultsAreTruthful`. The action property `KeepsTurn` is the safety core of
`ReadyRuns`: a step moves no coroutine back in the ready list but the one it
wakes, and a pick moves all others forward. It rests on three lemmas about what
`PushBack`, `Unlink` and `PopFront` do to the place of an element.

**BalancerProofs.** `LoopShape` says how the counter, the list of backends tried,
`running` and the verdict of a request fit together. `ReplayInv` adds to
`FullReplay` that `Tmp_` holds what was read and that `Old_` or `Tmp_` is empty,
which is why `Rewind` may append one to the other. `VoiceInv` says that a client
who is still there has heard the current attempt only, and has heard it exactly
if `Written_` is not zero; this is what a send that throws before it is counted
would break if the socket did not fail with it. `BudgetInv` says that the rate of
the additive arbiter covers the retries that the successes do not. The
accounting is an induction of its own over these (`BackendCharge`, for each
backend): a step opens an attempt of one request, settles one, or both, so that
the attempts made and the ones not settled change by one element each
(`BeginSets`, `LeaveSets`, `RethrowSets`) and stay finite. From these
follow `TypeOK`, `FullReplay`, `OneVoice`, `FreshBackends`, `ChargedOnce`,
`RetryBudget`, `Hysteresis` and the refinement of `BalancerContract`.

**SocketOutProofs.** For any number of senders queued data is scheduled and
`Wake_` names a sleeper. If there is one sender it is always within reach of the
callback. The data needs facts about chunk lists of any number and length: what
`Split` leaves of a list after a partial write, where each byte of a list lies,
and how long it is. They are proved by induction over sets of naturals, which
comes from the well-foundedness of < (the library's theorem takes the set as a
constant, so it can be instantiated). `DInv` is `StreamIntact` and `BackPressure` with the types; it is inductive
because `Split` leaves exactly the bytes after the ones written
(`SplitFlat`) and because the loop of `Flush` lets nobody through a queue that
is too long (`FlushLoopHolds`). `FlushedMeansWritten` follows: a queue of length
zero holds no byte, so all that was accepted is on the wire. The three are
`StreamIntact`, `BackPressure` and `FlushedMeansWritten` of the runs, for any
senders, any chunks and any way writev cuts them.

**ServerProofs.** `OneDestroyer` says who may be inside the destructor and what
the addresses look like then, unless calls overlapped; `PingerHasListener` that a
pinger in its loop has a listener; `CancelledByAbort` that it is cancelled only
after `Abort`. Without the first `FaultNeedsOverlap` is not inductive, because
nothing else keeps two destructors apart. From the invariant follow
`FaultNeedsOverlap`, `RefusedIsNoticed`, `NothingAfterDestroy`,
`WaitsWhileListening` and the action property `DrainLasts`. `StopInv` follows the
accept coroutines: one that was told to stop has somebody in the destructor who
waits for it, and the pinger pings with every address closed. With it the action
property `StopsInOrder` says that an accept coroutine ends itself before its object
goes, and that nothing is added to a listener that is being destroyed; so the
destructor has less to do with each step.

**ConnectionsProofs.** `LifeInv` and `OpenOnce` say which states have which events
and that an open number has one owner. `InSync` says that what the poller was
told is what the list holds, for every number that is not stale; `NoStray`
what holds before the first eviction and the first worker left behind; `ListInv`
that every open connection is in the list, from which its length bounds the
sockets. The four properties follow,
for any number of connections and numbers and any limits.

**RoundRobinProofs.** `Lag` relates, for each two backends, the turns since the last
one to the difference of their weights; with it `Turns` is inductive for any
positive whole weights and multipliers and any window. `LoopIsBounded` is the safety core of
`AskingEnds`: while a request has an untried backend, each round of the
iterator's loop uses up one of a bounded number of turns before that one.

**ProxyProofs.** `FrameInv` ties the life of the worker and its signal to the frame
of `Run`; `BodyInv` says what has been read of a body when the worker is done.
From these follow `OrphanNeedsThrow`, `MisparsedNeedsCause` and
`ShortNeedsClose` for any sizes. `NoMutualWait` is the safety core of `RunEnds`:
inside `Run` one of the two coroutines can go on, or a peer that has room to act
owes something. What each of the four waits for is written out as a state
predicate from the guards of its actions, since ENABLED is out of reach; a
separate run of TLC on the instance of `proxy` found them to imply that the
actions are enabled as long as the model has not stopped. `WaitInv` makes it inductive: a worker that is done has
signalled, and when `Run` waits for its worker the answer has been read, so that
the backend is not held up by it.

**SpdyProofs.** With the types `ParkedIsHeard` is inductive, for any number of
streams: only a wait clears the signal, and it looks at the queue afterwards.
`LoneSleeperIsHeard` says why `StreamEnds` has to except two senders in `Flush` at
once and nothing else of the output: a lone sleeper is named by `Wake_` or has
been rescheduled. It needs that before the first crowd there is at most one.

Every invariant and every action property that a run checks is also a theorem.
Only model-checked is liveness (`ReadyRuns`, `DeadlineEnds`, `ShutdownEnds`,
`ListensAgain`, `AskingEnds`, `Recovers`, `RunEnds`, `StreamEnds`), which is out of
the prover's reach. `KeepsTurn`, `StopsInOrder`, `WaitsWhileListening`,
`LoopIsBounded`, `NoMutualWait`, `ParkedIsHeard` and `LoneSleeperIsHeard` are the
part of it that speaks of single states and steps.

## 5. What the models say about the code

- A client never hears two attempts, even when a send throws before it is
  counted. The reason is not `Written_` alone: it is that the failed socket
  carries nothing more, which is an assumption about the kernel (section 2).
- The engine serves the ready list in order, but a wake-up of a coroutine that is
  ready already moves it to the end: two others that take turns to wake it keep
  it from running. And two coroutines that wake each other keep the list from
  getting empty, so that no timer and no descriptor is looked at.
- The number of attempts is safe only as long as the configuration keeps it
  within the 16 places of the iterator.
- `TSocketOut` serves one sender. With two senders, which SPDY streams have, the
  one that enters `Flush` second replaces the first in `Wake_`, and the first
  sleeps until something else reschedules it: `SleeperHeard` fails for two.
- After `Abort` a sender held back by a client that does not read spins, and
  the shutdown does not end. A SPDY stream that waits in `Pop` for the rest of a
  request spins too. `ShutdownEnds` holds only when no coroutine is asleep in
  either place.
- The listener is safe only while control sequences do not overlap. A shutdown
  that meets the pinger between `StopListener` and `StartListener`, or inside the
  destructor, leads to a null pointer, a second deletion or a pinger that spins.
- A shutdown always takes its ten seconds: the list it waits for holds the
  connection that asked for it.
- If a bind fails when the pinger restarts the listener, its coroutine ends by
  the exception and nobody listens again.
- An evicted connection never writes to the socket of its successor, because the
  output asks its holder for the descriptor; a parked read keeps the number,
  and may read what was sent to another. The successor may go unheard
  by epoll, because the list it inherits already has the flags it asks for.
- `TProxy::Run` waits for its worker only when the answer was copied without an
  exception; otherwise the worker is left with a frame that is gone. If it is
  parked on the client's socket, its poll event stays in the list of a number
  that is closed and given to the next connection, as after an eviction.
- With the default "maxqueue", which is unlimited, the worker never waits for the
  backend, and until the executor is aborted no rest of a body with a
  Content-Length is taken for a request. A chunked body without one always is,
  on a connection that is kept alive: nothing of it is passed on, and the http
  module looks for the next request where it begins. The output to the backend is
  destroyed without a flush.
- A chunk of a chunked answer is delivered only when the length of the next one
  has arrived. An answer that breaks off inside a chunk is passed on as a whole
  one, final chunk included; one that breaks off at a length is not.
- "fail_on_empty_reply" is parsed and handed on, and never looked at.
- The table of a SPDY session is never cleared, and the null test is all that
  stands before its pointers; no property of the models excludes their use. With
  one request and its answer in the usual order this does no harm. A stream that ends before its request,
  a reset after the client's own last frame, a repeated id, or the end of the
  session before its streams meets an object that is gone.

## 6. Not modelled

- Mutex, condition variable, simple event and wait queue of `util/green`: only
  the tests of `util/green` use them.
- The policies weighted, fair, robust, pidgroup and hashing draw lots. A loop that
  asks them ends with probability one, which TLC cannot express. weighted2 shares
  by weights that it adapts in floating point. `TTimeLimitedAvgTracker`
  (`average.h`) has a sum, and robust and weighted2 have counters, that are read
  before they are set; only srr's `State_` is modelled.
- Proxy and balancer are not composed: a worker that outlives its attempt is
  undefined behaviour at once, and the model stops there.
- Errors of accept, which are logged and retried; `StopListenAddr` and
  `StartListenAddr`, which the server does not call.
- The reuse of a chunk's tail by `TSocketIn`, stacks, the socket pool: memory
  management.
- The generated parsers, header tables, frame layouts and compressed headers:
  text and byte processing.
- TLS (a wrapper of OpenSSL), static files (sequential file I/O), the pass-through
  modules, configuration, logs and statistics.
- kqueue and select.

The repository is almost 700000 lines, most of them the general-purpose library,
third-party and generated code below the server. The system itself
(`web/httpd`, `util/green`, `util/server`) is about 14500 lines. The map covers
some 2190, nearly all of them there: a small share of the repository, and about
a seventh of the system. The library and third-party code has no state of the
balancer in it, and is not modelled beyond the calls that the modules use.
