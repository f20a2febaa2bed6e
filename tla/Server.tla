------------------------------- MODULE Server -------------------------------
(***************************************************************************)
(* The life of the server around its listener: the main task               *)
(* (kernel/main.cpp) with its control calls, the accept coroutines of      *)
(* TContListener (util/server/listen.cpp), the pinger that stops and       *)
(* restarts the listener when the arbiter refuses (modules/pinger), its    *)
(* latched event TMyEvent (kernel/syncro.h), and DoShutDown.               *)
(*                                                                         *)
(* Coroutines share one thread: what one does between two switches is one  *)
(* step, and while the pinger is at "loop" or "head" it holds the thread.  *)
(* Listener_.Reset destroys the old object before it assigns the pointer,  *)
(* and the destructor switches away in Stop: that is where calls overlap.  *)
(* The server is configured without "maxconn" here; see Connections.       *)
(***************************************************************************)
EXTENDS Naturals, FiniteSets

CONSTANTS
    Conns,    \* the connection coroutines that may be alive at once
    NAddrs    \* number of addresses in ListenAddrs_

ASSUME AddrsAssumption == NAddrs \in Nat \ {0}

VARIABLES
    listener,    \* Listener_: "null", or "there"
    acc,         \* per address: no object, bound, accepting, or told to stop
    conn,        \* what each connection does, or that it left a coroutine
    late,        \* Now() > deadLine for the DoShutDown of a connection
    cancelled,   \* cancelled coroutines: connections, and "pinger"
    pinger,      \* where the pinger coroutine is
    S,           \* PingActivator_.S_
    woken,       \* the event PingActivator_.Ev_ points to has been woken
    authorized,  \* Arbiter_->Authorize()
    aborted,     \* TContExecutor::Abort has been called
    bindFailed,  \* a bind or listen of the pinger's StartListener has failed
    overlapped,  \* a control sequence has begun inside another one
    fault        \* what undefined or endless behaviour has been reached

listenVars == <<listener, acc, bindFailed, overlapped, fault>>
pingVars == <<pinger, S, woken, authorized>>
connVars == <<conn, late, cancelled, aborted>>
vars == <<listenVars, pingVars, connVars>>

Addrs == 1 .. NAddrs
Pinger == "pinger"

ASSUME PingerAssumption == Pinger \notin Conns

(* "held": a coroutine of the connection is asleep in Flush or Pop;        *)
(* "stray": that coroutine is left and the connection has ended.           *)
ConnStates == {"free", "run", "held", "stray", "destroy", "drain"}

(* "off": no pinger configured; "wait": parked in PingActivator_.Wait;     *)
(* "destroy": in StopListener; "gone": the coroutine has ended.            *)
PingerStates ==
    {"off", "wait", "loop", "destroy", "head", "sleep", "ping", "gone"}

Nothing == [a \in Addrs |-> "none"]
Live == {a \in Addrs : acc[a] = "live"}
Told == {a \in Addrs : acc[a] = "told"}

(* The connection list: without a limit every connection stays in it until *)
(* its coroutine ends.                                                     *)
Connections == {c \in Conns : conn[c] \notin {"free", "stray"}}

(* Some coroutine is inside the destructor of the listener.                *)
Destroying == pinger = "destroy" \/ \E c \in Conns : conn[c] = "destroy"

(* Nobody holds the thread between two calls.                              *)
Free == fault = "none" /\ pinger \notin {"loop", "head"}

(* TMainTask's constructor: RestartListener has bound every address and    *)
(* created the accept coroutines, and a configured pinger is waiting.      *)
Init ==
    /\ listener = "there"
    /\ acc = [a \in Addrs |-> "live"]
    /\ conn = [c \in Conns |-> "free"]
    /\ late = [c \in Conns |-> FALSE]
    /\ cancelled = {}
    /\ pinger \in {"off", "wait"}
    /\ S = FALSE
    /\ woken = FALSE
    /\ authorized = TRUE
    /\ aborted = FALSE
    /\ bindFailed = FALSE
    /\ overlapped = FALSE
    /\ fault = "none"

-----------------------------------------------------------------------------
(* The accept coroutine of an address.                                     *)

(* AcceptI gives a connection, and OnAcceptFull creates its coroutine.     *)
Accept(a, c) ==
    /\ Free
    /\ acc[a] = "live"
    /\ conn[c] = "free"
    /\ conn' = [conn EXCEPT ![c] = "run"]
    /\ UNCHANGED <<listenVars, pingVars, late, cancelled, aborted>>

(* Told by Stop (Done_ and Cancel), it leaves its loop, closes its socket  *)
(* and clears C_, whether it was waiting or had not run yet.               *)
AcceptEnds(a) ==
    /\ Free
    /\ acc[a] = "told"
    /\ acc' = [acc EXCEPT ![a] = "none"]
    /\ UNCHANGED <<listener, bindFailed, overlapped, fault, pingVars, connVars>>

-----------------------------------------------------------------------------
(* The destructor of TContListener: the objects of L_ are deleted one      *)
(* after the other, and each one that has a coroutine is waited for.       *)

StopFirst ==
    LET first == CHOOSE a \in Live : \A b \in Live : a <= b
    IN  acc' = [a \in Addrs |-> IF a < first THEN "none"
                                ELSE IF a = first THEN "told" ELSE acc[a]]

(* No coroutine is left to wait for; the pointer becomes `left'.           *)
DestroyDone(left) ==
    /\ Live = {}
    /\ acc' = Nothing
    /\ listener' = left

(* Destroyed while it is being destroyed.                                  *)
DestroyTwice ==
    /\ Destroying
    /\ fault' = "twice"
    /\ UNCHANGED <<listener, acc>>

-----------------------------------------------------------------------------
(* TMyEvent of the pinger.                                                 *)

Signal ==
    /\ S' = TRUE
    /\ woken' = (woken \/ pinger = "wait")

(* What RegisterSucc and RegisterFail may do to the answer of Authorize,   *)
(* for any of the arbiters.                                                *)
RegisterSucc == authorized' \in {authorized, TRUE}
RegisterFail == authorized' \in {authorized, FALSE}

(* TModule::DoRun of the pinger around a request of connection c.          *)
RequestSucceeds(c) ==
    /\ Free
    /\ conn[c] = "run"
    /\ pinger # "off"
    /\ RegisterSucc
    /\ UNCHANGED <<listenVars, pinger, S, woken, connVars>>

(* Mutant of RefusesNow: the arbiter was asked before it was told.         *)
RefusedBefore == ~authorized

(* !Arbiter_->Authorize(), after RegisterFail.                             *)
RefusesNow == ~authorized'

RequestFails(c) ==
    /\ Free
    /\ conn[c] = "run"
    /\ pinger # "off"
    /\ RegisterFail
    /\ IF RefusesNow THEN Signal ELSE UNCHANGED <<S, woken>>
    /\ UNCHANGED <<listenVars, pinger, connVars>>

(* A coroutine of connection c, its own or that of a worker or of a SPDY   *)
(* stream, falls asleep in one of the two loops that look at nothing but   *)
(* their condition: TSocketOut::Flush, and Pop of a stream's queue.        *)
Hold(c) ==
    /\ Free
    /\ conn[c] = "run"
    /\ conn' = [conn EXCEPT ![c] = "held"]
    /\ UNCHANGED <<listenVars, pingVars, late, cancelled, aborted>>

(* The client has read or is gone, or a frame has come.                    *)
Release(c) ==
    /\ Free
    /\ conn[c] = "held"
    /\ conn' = [conn EXCEPT ![c] = "run"]
    /\ UNCHANGED <<listenVars, pingVars, late, cancelled, aborted>>

(* The connection ends by an exception and leaves that stream or worker.   *)
LeaveStray(c) ==
    /\ Free
    /\ conn[c] = "held"
    /\ conn' = [conn EXCEPT ![c] = "stray"]
    /\ UNCHANGED <<listenVars, pingVars, late, cancelled, aborted>>

(* Cancelled, its sleep returns at once, and the loop never gives up the   *)
(* thread.                                                                 *)
HeldSpins(c) ==
    /\ Free
    /\ conn[c] \in {"held", "stray"}
    /\ c \in cancelled
    /\ fault' = "held"
    /\ UNCHANGED <<listener, acc, bindFailed, overlapped, pingVars, connVars>>

(* Run and the last Flush return or throw, and the connection deletes      *)
(* itself.                                                                 *)
ConnectionEnds(c) ==
    /\ Free
    /\ conn[c] = "run"
    /\ conn' = [conn EXCEPT ![c] = "free"]
    /\ cancelled' = cancelled \ {c}
    /\ UNCHANGED <<listenVars, pingVars, late, aborted>>

-----------------------------------------------------------------------------
(* DoShutDown, called by the admin module in connection c.                 *)

(* A pinger between StopListener and StartListener, or another DoShutDown  *)
(* that is still destroying the listener.                                  *)
Busy == Destroying \/ pinger \in {"sleep", "ping"}

ShutDown(c) ==
    /\ Free
    /\ conn[c] = "run"
    /\ overlapped' = (overlapped \/ Busy)
    /\ \/ /\ DestroyTwice
          /\ conn' = [conn EXCEPT ![c] = "destroy"]
       \/ /\ ~Destroying
          /\ DestroyDone("null")
          /\ conn' = [conn EXCEPT ![c] = "drain"]
          /\ UNCHANGED fault
       \/ /\ ~Destroying
          /\ Live # {}
          /\ StopFirst
          /\ conn' = [conn EXCEPT ![c] = "destroy"]
          /\ UNCHANGED <<listener, fault>>
    /\ late' = [late EXCEPT ![c] = FALSE]
    /\ UNCHANGED <<bindFailed, pingVars, cancelled, aborted>>

(* Stop returns from Yield and finds C_ cleared.                           *)
DestroyGoesOn(c) ==
    /\ Free
    /\ conn[c] = "destroy"
    /\ Told = {}
    /\ \/ /\ DestroyDone("null")
          /\ conn' = [conn EXCEPT ![c] = "drain"]
       \/ /\ Live # {}
          /\ StopFirst
          /\ UNCHANGED <<listener, conn>>
    /\ UNCHANGED <<bindFailed, overlapped, fault, pingVars, late, cancelled,
                   aborted>>

(* The ten seconds of connection c's DoShutDown pass.                      *)
Tick(c) ==
    /\ Free
    /\ conn[c] = "drain"
    /\ ~late[c]
    /\ late' = [late EXCEPT ![c] = TRUE]
    /\ UNCHANGED <<listenVars, pingVars, conn, cancelled, aborted>>

(* Mutant of Drained: the caller's own connection is not counted.          *)
DrainedButOne == Cardinality(Connections) <= 1

(* Connections_.Empty().                                                   *)
Drained == Connections = {}

(* Mutant of Abort: the coroutines that wait for an event are left out.    *)
AbortConnections(c) ==
    /\ cancelled' = cancelled \cup {d \in Conns \ {c} : conn[d] # "free"}
    /\ UNCHANGED woken

(* TContExecutor::Abort: every coroutine is cancelled, and so made ready,  *)
(* but the one that runs.                                                  *)
Abort(c) ==
    /\ cancelled' = cancelled \cup {d \in Conns \ {c} : conn[d] # "free"}
                    \cup (IF pinger \in {"off", "gone"} THEN {} ELSE {Pinger})
    /\ woken' = (woken \/ pinger = "wait")

(* The list is empty or the time is over; the caller goes on.              *)
DrainEnds(c) ==
    /\ Free
    /\ conn[c] = "drain"
    /\ Drained \/ late[c]
    /\ Abort(c)
    /\ aborted' = TRUE
    /\ conn' = [conn EXCEPT ![c] = "run"]
    /\ UNCHANGED <<listenVars, pinger, S, authorized, late>>

-----------------------------------------------------------------------------
(* The pinger's coroutine.                                                 *)

(* Mutant of ListenerStarted: always true.                                 *)
ListenerAlwaysStarted == TRUE

(* DoListenerStarted.                                                      *)
ListenerStarted == listener # "null"

(* Mutant of FreshListener: the old listener is not replaced.              *)
NoListener == "null"

(* new TContListener(...), bound to nothing yet.                           *)
FreshListener == "there"

(* DoStopListener up to its first switch.                                  *)
StopListener ==
    /\ overlapped' = (overlapped \/ Destroying)
    /\ \/ DestroyTwice /\ pinger' = "destroy"
       \/ /\ ~Destroying
          /\ DestroyDone(FreshListener)
          /\ pinger' = "head"
          /\ UNCHANGED fault
       \/ /\ ~Destroying
          /\ Live # {}
          /\ StopFirst
          /\ pinger' = "destroy"
          /\ UNCHANGED <<listener, fault>>

(* Wait has returned: S_ is cleared, and the pinger looks at the listener. *)
WaitReturns ==
    /\ S' = FALSE
    /\ woken' = FALSE
    /\ \/ /\ ListenerStarted
          /\ StopListener
       \/ /\ ~ListenerStarted
          /\ pinger' = "gone"
          /\ UNCHANGED <<listener, acc, overlapped, fault>>

PingerResumes ==
    /\ Free
    /\ pinger = "wait"
    /\ woken
    /\ WaitReturns
    /\ UNCHANGED <<authorized, bindFailed, connVars>>

(* The next call of Wait: it parks unless a signal is latched or the       *)
(* coroutine is cancelled.                                                 *)
PingerWaits ==
    /\ fault = "none"
    /\ pinger = "loop"
    /\ \/ /\ ~S
          /\ Pinger \notin cancelled
          /\ pinger' = "wait"
          /\ UNCHANGED <<listener, acc, overlapped, fault, S, woken>>
       \/ /\ S \/ Pinger \in cancelled
          /\ WaitReturns
    /\ UNCHANGED <<authorized, bindFailed, connVars>>

(* StopListener goes on, as in DestroyGoesOn.                              *)
PingerGoesOn ==
    /\ Free
    /\ pinger = "destroy"
    /\ Told = {}
    /\ \/ /\ DestroyDone(FreshListener)
          /\ pinger' = "head"
       \/ /\ Live # {}
          /\ StopFirst
          /\ UNCHANGED <<listener, pinger>>
    /\ UNCHANGED <<bindFailed, overlapped, fault, S, woken, authorized, connVars>>

(* Mutant of Listening: bound, and not listened on.                        *)
BoundOnly == [a \in Addrs |-> "bound"]

(* What Bind for every address followed by Listen leaves.                  *)
Listening == [a \in Addrs |-> "live"]

(* DoStartListener: every address is bound, then listened on.  A failure   *)
(* at address k leaves the pinger's coroutine by an exception.             *)
StartListener ==
    \/ /\ listener = "there"
       /\ acc' = Listening
       /\ pinger' = "loop"
       /\ UNCHANGED <<bindFailed, fault>>
    \/ /\ listener = "there"
       /\ \E k \in Addrs :
              \/ acc' = [a \in Addrs |-> IF a < k THEN "bound" ELSE "none"]
              \/ acc' = [a \in Addrs |-> IF a < k THEN "live" ELSE "bound"]
       /\ pinger' = "gone"
       /\ bindFailed' = TRUE
       /\ UNCHANGED fault
    \/ /\ listener = "null"
       /\ fault' = "null"
       /\ UNCHANGED <<acc, pinger, bindFailed>>

(* while (!Arbiter_->Authorize()).                                         *)
PingerChecks ==
    /\ fault = "none"
    /\ pinger = "head"
    /\ \/ /\ ~authorized
          /\ pinger' = "sleep"
          /\ UNCHANGED <<acc, bindFailed, fault>>
       \/ /\ authorized
          /\ StartListener
    /\ UNCHANGED <<listener, overlapped, S, woken, authorized, connVars>>

PingerPings ==
    /\ Free
    /\ pinger = "sleep"
    /\ pinger' = "ping"
    /\ UNCHANGED <<listenVars, S, woken, authorized, connVars>>

PingEnds(ok) ==
    /\ Free
    /\ pinger = "ping"
    /\ IF ok THEN RegisterSucc ELSE RegisterFail
    /\ pinger' = "head"
    /\ UNCHANGED <<listenVars, S, woken, connVars>>

(* In a cancelled coroutine neither SleepT nor the ping waits: while the   *)
(* pings fail the loop never gives up the thread.                          *)
PingerSpins ==
    /\ Free
    /\ pinger \in {"sleep", "ping"}
    /\ Pinger \in cancelled
    /\ fault' = "spin"
    /\ UNCHANGED <<listener, acc, bindFailed, overlapped, pingVars, connVars>>

(* A ping that succeeds and makes the arbiter authorize again.             *)
PingRevives == PingEnds(TRUE) /\ authorized'

PingerNext ==
    \/ PingerResumes
    \/ PingerWaits
    \/ PingerGoesOn
    \/ PingerChecks
    \/ PingerPings
    \/ \E ok \in BOOLEAN : PingEnds(ok)
    \/ PingerSpins

ConnectionNext(c) ==
    \/ RequestSucceeds(c)
    \/ RequestFails(c)
    \/ Hold(c)
    \/ Release(c)
    \/ LeaveStray(c)
    \/ HeldSpins(c)
    \/ ConnectionEnds(c)
    \/ ShutDown(c)
    \/ DestroyGoesOn(c)
    \/ Tick(c)
    \/ DrainEnds(c)

Next ==
    \/ \E a \in Addrs : AcceptEnds(a) \/ \E c \in Conns : Accept(a, c)
    \/ \E c \in Conns : ConnectionNext(c)
    \/ PingerNext

Spec == Init /\ [][Next]_vars

(* The scheduler runs every coroutine that is ready, time passes, a ping   *)
(* ends.  A cancelled connection is ready: what it waits for fails, and it *)
(* ends, unless it is held in a loop that does not look at the failure.    *)
FairSpec ==
    /\ Spec
    /\ \A a \in Addrs : WF_vars(AcceptEnds(a))
    /\ \A c \in Conns :
           /\ WF_vars(DestroyGoesOn(c))
           /\ WF_vars(Tick(c))
           /\ WF_vars(DrainEnds(c))
           /\ SF_vars(c \in cancelled /\ (ConnectionEnds(c) \/ HeldSpins(c)))
    /\ WF_vars(PingerNext)
    /\ SF_vars(PingRevives)

-----------------------------------------------------------------------------
TypeOK ==
    /\ listener \in {"null", "there"}
    /\ acc \in [Addrs -> {"none", "bound", "live", "told"}]
    /\ conn \in [Conns -> ConnStates]
    /\ late \in [Conns -> BOOLEAN]
    /\ cancelled \subseteq Conns \cup {Pinger}
    /\ pinger \in PingerStates
    /\ S \in BOOLEAN
    /\ woken \in BOOLEAN
    /\ authorized \in BOOLEAN
    /\ aborted \in BOOLEAN
    /\ bindFailed \in BOOLEAN
    /\ overlapped \in BOOLEAN
    /\ fault \in {"none", "twice", "null", "spin", "held"}

(* The listener is destroyed once and never used afterwards, and the       *)
(* pinger does not spin, unless a control sequence (DoShutDown, or the     *)
(* pinger's StopListener ... StartListener) began inside another one.      *)
FaultNeedsOverlap == fault \notin {"none", "held"} => overlapped

(* While the pinger waits unsignalled the arbiter authorizes: no failed    *)
(* request that made it refuse goes unnoticed, whatever requests and pings *)
(* did to it since, and a signal is never lost by TMyEvent.                *)
RefusedIsNoticed == pinger = "wait" /\ ~woken => authorized

(* Once a DoShutDown has destroyed the listener no address is listened on  *)
(* and no accept coroutine is left: the pinger does not bring it back.     *)
NothingAfterDestroy ==
    aborted \/ (\E c \in Conns : conn[c] = "drain")
        => listener = "null" /\ acc = Nothing

(* DoShutDown calls Abort only when its ten seconds are over: the list it  *)
(* waits for holds the connection of the request that called it.           *)
DrainStep == \A c \in Conns : conn[c] = "drain" /\ conn'[c] = "run" => late[c]

DrainLasts == [][DrainStep]_vars

(* Unless a bind failed or somebody shuts the server down, the pinger      *)
(* waits only while every address is listened on.                          *)
WaitsWhileListening ==
    pinger = "wait" /\ ~aborted /\ (\A c \in Conns : conn[c] \notin {"destroy", "drain"})
        => Live = Addrs

(* After Abort every coroutine ends but the one that called it, whose      *)
(* client may keep its connection, unless the shutdown overlapped the      *)
(* pinger, or Abort found or left a coroutine asleep in Flush or Pop: in   *)
(* these loops a cancelled coroutine turns for ever.                       *)
ShutdownEnds ==
    aborted ~> \/ fault # "none"
               \/ /\ pinger \in {"off", "gone"}
                  /\ \A c \in Conns : conn[c] = "free" \/ c \notin cancelled

(* A server the pinger has taken off the network listens again once pings  *)
(* revive the arbiter, unless a bind fails or it is shut down.             *)
ListensAgain ==
    Live = {} ~> \/ Live = Addrs
                 \/ bindFailed
                 \/ listener = "null"
                 \/ fault # "none"
=============================================================================
