---------------------------- MODULE Connections -----------------------------
(***************************************************************************)
(* The connections of the main task (kernel/main.cpp) with a limit         *)
(* ("maxconn"), their descriptors, and the poller that waits for them      *)
(* (TContPoller of util/green/impl.h over the pollers of poller.cpp).      *)
(*                                                                         *)
(* An evicted connection is not cancelled: its socket is closed, and its   *)
(* coroutine goes on with events that are still in the poller's list of    *)
(* that descriptor number.  The kernel gives the number to the next        *)
(* connection.  So it does when a connection ends by an exception while a  *)
(* worker of TProxy::Run (see Proxy) is parked on its socket.  poll(2) is  *)
(* told of all numbers each time and reports a closed one; epoll forgets a *)
(* number that is closed and refuses a change to it.  The server begins    *)
(* with the first and changes to the second.                               *)
(*                                                                         *)
(* The connection's coroutine reads the head of a request, a worker its    *)
(* body: one of them at a time.  While the worker reads, the coroutine     *)
(* sends the answer.                                                       *)
(***************************************************************************)
EXTENDS Naturals, Sequences, FiniteSets, IntrusiveList

CONSTANTS
    Conns,           \* the connections that may be alive at once
    Fds,             \* descriptor numbers
    MaxConnections,  \* MaxConnections_, 0 for no limit
    SwitchAt         \* numbers in the poller beyond which epoll is used

ASSUME LimitAssumption == MaxConnections \in Nat /\ SwitchAt \in Nat
ASSUME FiniteAssumption == IsFiniteSet(Conns)

VARIABLES
    list,        \* Connections_, the connection that sent last at the end
    st,          \* where the coroutine that reads from the connection is
    orphans,     \* connections that have ended and left a worker
    num,         \* the number of the descriptor a connection was given
    open,        \* connections whose S_ is not closed
    events,      \* <<connection, direction>>: poll events in their lists
    interest,    \* per number, the directions the poller was told of
    mode,        \* "poll" or "epoll"
    stale,       \* numbers with events epoll does not know of
    canceled,    \* Canceled_ # 0
    misread,     \* connections that have read from the socket of another
    miswritten,  \* connections that have written to the socket of another
    aborted,     \* TContExecutor::Abort has been called
    fault        \* an exception has ended the program, or an orphan has run

ioVars == <<events, interest, stale>>
logVars == <<misread, miswritten>>
vars == <<list, st, orphans, num, open, ioVars, mode, canceled, logVars,
          aborted, fault>>

Dirs == {"read", "write"}
Owned(op, fd) == {c \in op : num[c] = fd}

(* TPollEventList::Flags of the list of a number.                          *)
Flags(ev, fd) == {d \in Dirs : \E c \in Conns : <<c, d>> \in ev /\ num[c] = fd}

Init ==
    /\ list = <<>>
    /\ st = [c \in Conns |-> "free"]
    /\ orphans = {}
    /\ num \in [Conns -> Fds]
    /\ open = {}
    /\ events = {}
    /\ interest = [fd \in Fds |-> {}]
    /\ mode = "poll"
    /\ stale = {}
    /\ canceled = FALSE
    /\ misread = {}
    /\ miswritten = {}
    /\ aborted = FALSE
    /\ fault = FALSE

-----------------------------------------------------------------------------
(* TContPoller::Schedule and Remove: the list of fd becomes what it is in  *)
(* ev, and the poller is told if the flags have changed.                   *)

(* Mutant of Changed: a list that is not empty has been told already.      *)
FirstOnly(ev, fd) == (Flags(events, fd) = {}) # (Flags(ev, fd) = {})

Changed(ev, fd) == Flags(events, fd) # Flags(ev, fd)

(* epoll_ctl fails: the number is not open.                                *)
Refused(ev, fd, op) ==
    /\ mode = "epoll"
    /\ Changed(ev, fd)
    /\ Flags(ev, fd) # {}
    /\ Owned(op, fd) = {}

Relist(ev, fd, op) ==
    /\ events' = ev
    /\ IF Changed(ev, fd) /\ ~Refused(ev, fd, op)
       THEN /\ interest' = [interest EXCEPT ![fd] = Flags(ev, fd)]
            /\ stale' = stale \ {fd}
       ELSE /\ stale' = IF Refused(ev, fd, op) THEN stale \cup {fd} ELSE stale
            /\ UNCHANGED interest

(* The numbers in `gone' are closed: epoll forgets them at once.           *)
Forgotten(gone) ==
    [fd \in Fds |-> IF mode = "epoll" /\ fd \in gone THEN {} ELSE interest[fd]]
LeftBehind(gone) ==
    {fd \in gone : mode = "epoll" /\ Flags(events, fd) # {}}

-----------------------------------------------------------------------------
(* Mutant of Excess: the limit is compared with one more connection.       *)
ExcessMore == IF MaxConnections > 0 /\ Len(list) > MaxConnections + 1
              THEN Len(list) - MaxConnections - 1 ELSE 0

(* How many connections the loop of OnAcceptFull evicts.                   *)
Excess == IF MaxConnections > 0 /\ Len(list) > MaxConnections
          THEN Len(list) - MaxConnections ELSE 0

(* OnAcceptFull: the connections at the head of the list are evicted and   *)
(* their sockets closed, and the new one joins it.  Its number was free    *)
(* before that.                                                            *)
OnAcceptFull(c, fd) ==
    /\ ~fault
    /\ ~aborted
    /\ st[c] = "free"
    /\ Owned(open, fd) = {}
    /\ LET victims == {list[i] : i \in 1 .. Excess}
           gone == {num[v] : v \in victims \cap open}
       IN  /\ list' = Append(SubSeq(list, Excess + 1, Len(list)), c)
           /\ open' = (open \ victims) \cup {c}
           /\ interest' = Forgotten(gone)
           /\ stale' = stale \cup LeftBehind(gone)
           /\ canceled' = (canceled \/ victims # {})
    /\ st' = [st EXCEPT ![c] = "new"]
    /\ num' = [num EXCEPT ![c] = fd]
    /\ UNCHANGED <<orphans, events, mode, logVars, aborted, fault>>

(* The coroutine starts: TSocketIo takes the number; a closed socket makes *)
(* its constructor throw, and the connection ends (see ConnectionEnds).    *)
Start(c) ==
    /\ ~fault
    /\ st[c] = "new"
    /\ c \in open
    /\ st' = [st EXCEPT ![c] = "run"]
    /\ UNCHANGED <<list, orphans, num, open, ioVars, mode, canceled, logVars,
                   aborted, fault>>

(* The connection's coroutine runs, or may while its worker reads.         *)
Lives(c) == st[c] \notin {"free", "new"} /\ c \notin orphans

(* DoSend of a connection: the output enters the list of its number, and   *)
(* unless that throws UpPriority moves the connection to the end.          *)
Send(c) ==
    /\ ~fault
    /\ Lives(c)
    /\ LET ev == events \cup {<<c, "write">>}
       IN  /\ Relist(ev, num[c], open)
           /\ list' = IF Refused(ev, num[c], open) THEN list
                      ELSE PushBack(list, c)
    /\ UNCHANGED <<st, orphans, num, open, mode, canceled, logVars, aborted,
                   fault>>

(* ReadI on an open socket that has nothing to read: PollD.                *)
Park(c) ==
    /\ ~fault
    /\ ~aborted
    /\ st[c] = "run"
    /\ c \in open
    /\ Relist(events \cup {<<c, "read">>}, num[c], open)
    /\ st' = [st EXCEPT ![c] = "parked"]
    /\ UNCHANGED <<list, orphans, num, open, mode, canceled, logVars, aborted,
                   fault>>

(* PollD returns with an error (or ECANCELED), and so does ReadI.          *)
ResumeError(c) ==
    /\ ~fault
    /\ st[c] = "failed" /\ c \notin orphans
    /\ LET ev == events \ {<<c, "read">>}
       IN  Relist(ev, num[c], open) /\ fault' = Refused(ev, num[c], open)
    /\ st' = [st EXCEPT ![c] = "run"]
    /\ UNCHANGED <<list, orphans, num, open, mode, canceled, logVars, aborted>>

(* PollD returns, and ReadI reads from the number it was called with: it   *)
(* gets something, or EBADF if nobody has that number.                     *)
ResumeRead(c) ==
    /\ ~fault
    /\ st[c] = "ready" /\ c \notin orphans
    /\ LET ev == events \ {<<c, "read">>}
       IN  Relist(ev, num[c], open) /\ fault' = Refused(ev, num[c], open)
    /\ misread' = IF Owned(open, num[c]) \ {c} # {} THEN misread \cup {c} ELSE misread
    /\ st' = [st EXCEPT ![c] = "run"]
    /\ UNCHANGED <<list, orphans, num, open, mode, canceled, miswritten, aborted>>

(* Or there is nothing to read, and PollD is called again: the event       *)
(* leaves the list and enters it.                                          *)
ResumePark(c) ==
    /\ ~fault
    /\ st[c] = "ready" /\ c \notin orphans
    /\ Owned(open, num[c]) # {}
    /\ IF Changed(events \ {<<c, "read">>}, num[c])
       THEN /\ interest' = [interest EXCEPT ![num[c]] = Flags(events, num[c])]
            /\ stale' = stale \ {num[c]}
       ELSE UNCHANGED <<interest, stale>>
    /\ st' = [st EXCEPT ![c] = "parked"]
    /\ UNCHANGED <<list, orphans, num, open, events, mode, canceled, logVars,
                   aborted, fault>>

(* Mutant of LeftByOutput: the output stays in the poller's list.          *)
OutputStays(c) == events

(* ~TSocketOut takes the output off the poller's list.                     *)
LeftByOutput(c) == events \ {<<c, "write">>}

(* TSocketOut is destroyed, then the connection, which closes the socket   *)
(* and leaves the list.                                                    *)
Close(c) ==
    /\ LET ev == LeftByOutput(c)
           fd == num[c]
           closes == c \in open /\ mode = "epoll"
           ghosts == Flags(ev, fd) # {}
           told == Changed(ev, fd) /\ ~fault'
       IN  /\ events' = ev
           /\ fault' = Refused(ev, fd, open)
           /\ interest' = [interest EXCEPT ![fd] = IF closes THEN {}
                               ELSE IF told THEN Flags(ev, fd) ELSE @]
           /\ stale' = IF (closes /\ ghosts) \/ fault' THEN stale \cup {fd}
                       ELSE IF closes \/ told THEN stale \ {fd} ELSE stale
    /\ open' = open \ {c}
    /\ list' = Unlink(list, c)
    /\ misread' = misread \ {c}
    /\ UNCHANGED <<num, mode, canceled, miswritten, aborted>>

(* The connection's work is done or failed, and no worker is alive.        *)
ConnectionEnds(c) ==
    /\ ~fault
    /\ st[c] = "run" \/ (st[c] = "new" /\ c \notin open)
    /\ Close(c)
    /\ st' = [st EXCEPT ![c] = "free"]
    /\ UNCHANGED orphans

(* The copy of the answer throws, and Run is left without a wait for the   *)
(* worker, which reads or is asleep before the backend: a read event stays *)
(* where it is.                                                            *)
RunThrows(c) ==
    /\ ~fault
    /\ Lives(c)
    /\ Close(c)
    /\ orphans' = orphans \cup {c}
    /\ UNCHANGED st

(* The worker goes on with what was the stack of Run.                      *)
OrphanRuns(c) ==
    /\ ~fault
    /\ c \in orphans
    /\ st[c] # "parked"
    /\ fault' = TRUE
    /\ UNCHANGED <<list, st, orphans, num, open, ioVars, mode, canceled, logVars,
                   aborted>>

-----------------------------------------------------------------------------
(* The scheduler, when no coroutine is ready.                              *)

(* Mutant of Target: the number in the poll event.                         *)
CachedTarget(c) == {num[c]}

(* *S_, the descriptor OnPollEvent writes to.                              *)
Target(c) == IF c \in open THEN {num[c]} ELSE {}

(* The poller reports number fd: readers become ready, outputs write to    *)
(* their socket; an output whose queue is empty or that fails leaves the   *)
(* list.  An error goes to every event of the list.                        *)
Report(fd, dirs, err) ==
    /\ ~fault
    /\ \A c \in Conns : st[c] \notin {"ready", "failed"}
    /\ LET heard == {c \in Conns : num[c] = fd /\ <<c, "read">> \in events
                                   /\ "read" \in dirs}
           written == {c \in Conns : num[c] = fd /\ <<c, "write">> \in events
                                     /\ "write" \in dirs}
       IN  \E done \in SUBSET written :
              /\ \A c \in written : err \/ c \notin open => c \in done
              /\ Relist(events \ (done \X {"write"}), fd, open)
              /\ st' = [c \in Conns |-> IF c \notin heard THEN st[c]
                                        ELSE IF err THEN "failed" ELSE "ready"]
              /\ miswritten' = miswritten \cup
                     {c \in written : ~err /\ \E n \in Target(c) : Owned(open \ {c}, n) # {}}
    /\ UNCHANGED <<list, orphans, num, open, mode, canceled, misread, aborted,
                   fault>>

(* What the kernel may report: an open number with some of what it was     *)
(* asked for, or an error; poll(2) reports a closed number (POLLNVAL).     *)
PollReports(fd) ==
    /\ interest[fd] # {}
    /\ \/ /\ Owned(open, fd) # {}
          /\ \E dirs \in SUBSET interest[fd] : dirs # {} /\ Report(fd, dirs, FALSE)
       \/ Report(fd, Dirs, TRUE)

(* Too many numbers for poll(2): all of them are given to epoll.           *)
SwitchPoller ==
    /\ ~fault
    /\ \A c \in Conns : st[c] \notin {"ready", "failed"}
    /\ mode = "poll"
    /\ Cardinality({fd \in Fds : interest[fd] # {}}) > SwitchAt
    /\ mode' = "epoll"
    /\ fault' = \E fd \in Fds : interest[fd] # {} /\ Owned(open, fd) = {}
    /\ UNCHANGED <<list, st, orphans, num, open, ioVars, canceled, logVars, aborted>>

(* TContExecutor::Abort, after the listener was destroyed: the coroutines  *)
(* in PollD wake up with ECANCELED.                                        *)
Abort ==
    /\ ~fault
    /\ ~aborted
    /\ aborted' = TRUE
    /\ st' = [c \in Conns |-> IF st[c] \in {"parked", "ready"} THEN "failed" ELSE st[c]]
    /\ UNCHANGED <<list, orphans, num, open, ioVars, mode, canceled, logVars, fault>>

Next ==
    \/ \E c \in Conns :
           \/ \E fd \in Fds : OnAcceptFull(c, fd)
           \/ Start(c)
           \/ Send(c)
           \/ Park(c)
           \/ ResumeError(c)
           \/ ResumeRead(c)
           \/ ResumePark(c)
           \/ ConnectionEnds(c)
           \/ RunThrows(c)
           \/ OrphanRuns(c)
    \/ \E fd \in Fds : PollReports(fd)
    \/ SwitchPoller
    \/ Abort

Spec == Init /\ [][Next]_vars

-----------------------------------------------------------------------------
TypeOK ==
    /\ list \in Seq(Conns)
    /\ st \in [Conns -> {"free", "new", "run", "parked", "ready", "failed"}]
    /\ orphans \subseteq Conns
    /\ num \in [Conns -> Fds]
    /\ open \subseteq Conns
    /\ events \subseteq Conns \X Dirs
    /\ interest \in [Fds -> SUBSET Dirs]
    /\ mode \in {"poll", "epoll"}
    /\ stale \subseteq Fds
    /\ canceled \in BOOLEAN
    /\ misread \subseteq Conns
    /\ miswritten \subseteq Conns
    /\ aborted \in BOOLEAN
    /\ fault \in BOOLEAN

(* With a limit, never more than one client socket beyond it is open: the  *)
(* loop of OnAcceptFull bounds the sockets although evicted connections    *)
(* come back into its list when they send.                                 *)
OpenBound == MaxConnections > 0 => Cardinality(open) <= MaxConnections + 1

(* The poller has been told what every open connection waits for, unless   *)
(* its number was inherited with the events of an evicted connection or of *)
(* an orphaned worker: Schedule and Remove speak to the poller only when   *)
(* the flags change.                                                       *)
Heard ==
    \A c \in open, d \in Dirs :
        <<c, d>> \in events /\ num[c] \notin stale => d \in interest[num[c]]

(* A connection writes to its own socket only, even after it was evicted   *)
(* and its number given to another one; an open one reads its own only.    *)
OwnSocketOnly == miswritten = {} /\ misread \cap open = {}

(* The poller's lists get out of step with the kernel, and the program     *)
(* ends by an exception of epoll, only if a connection was evicted or a    *)
(* worker outlived its connection: an ordinary end takes every event off   *)
(* the lists before it gives the number away.                              *)
TroubleNeedsStray == fault \/ stale # {} => canceled \/ orphans # {}
=============================================================================
