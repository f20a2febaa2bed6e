----------------------------- MODULE SocketOut ------------------------------
(***************************************************************************)
(* The output side of a connection (kernel/socket.cpp): TSocketOut queues  *)
(* chunks in W_, a poll callback writes them with writev and splits what   *)
(* is left, and Flush holds the sender back while the queue is too long.   *)
(*                                                                         *)
(* Bytes are numbered in the order in which Send accepted them.  Only one  *)
(* thread runs, so what a sender does between two switches is one step;    *)
(* the callback runs in the scheduler, when no sender is ready.  The model *)
(* covers the life of the object, up to its destructor.                    *)
(***************************************************************************)
EXTENDS Integers, Sequences, SequencesExt

CONSTANTS
    Senders,     \* the coroutines that send through this output
    NoCont,      \* a null TCont*
    Messages,    \* what a Send may carry: the lengths of its chunks
    MaxInQueue,  \* MaxInQueue_
    MaxAccepted  \* bound: bytes accepted in all

ASSUME NoContAssumption == NoCont \notin Senders
ASSUME MessagesAssumption == Messages \subseteq Seq(Nat)
ASSUME QueueAssumption == MaxInQueue \in Nat /\ MaxAccepted \in Nat

VARIABLES
    W,           \* W_: the chunks not written yet
    Wake,        \* Wake_: the sender the callback reschedules
    Err,         \* Err_ # 0
    scheduled,   \* the object is in the poller's list
    accepted,    \* bytes taken over from the senders so far
    wire,        \* bytes written to the socket, in order
    asleep,      \* senders inside the SleepI of Flush
    keep,        \* the argument of the Flush a sender is in, or was in last
    ready,       \* sleeping senders that have been rescheduled
    last,        \* how the last call of a sender ended
    aborted,     \* TContExecutor::Abort has cancelled every coroutine
    stuck        \* the cancelled sender that spins in Flush, or NoCont

queueVars == <<W, scheduled, accepted, wire>>
senderVars == <<Wake, asleep, keep, ready, last, stuck>>
vars == <<queueVars, senderVars, Err, aborted>>

Outcomes == {"none", "sent", "flushed", "thrown"}

Bytes(from, n) == [i \in 1 .. n |-> from + i]

Flat(list) == IF list = <<>> THEN <<>> ELSE FlattenSeq(list)
FullLength(list) == Len(Flat(list))

Init ==
    /\ W = <<>>
    /\ Wake = NoCont
    /\ Err = FALSE
    /\ scheduled = FALSE
    /\ accepted = 0
    /\ wire = <<>>
    /\ asleep = {}
    /\ keep = [c \in Senders |-> 0]
    /\ ready = {}
    /\ last = [c \in Senders |-> "none"]
    /\ aborted = FALSE
    /\ stuck = NoCont

-----------------------------------------------------------------------------
(* The chunks of a message, numbered on from the bytes accepted so far.    *)
Chunks(m) ==
    [i \in 1 .. Len(m) |->
        Bytes(accepted + FullLength([j \in 1 .. i - 1 |-> Bytes(0, m[j])]), m[i])]

(* Chunks of `list' that fit in len bytes as they are.                     *)
Whole(len, list) ==
    {k \in 0 .. Len(list) : FullLength(SubSeq(list, 1, k)) <= len}

(* Mutant of SplitAfter: the chunk the cut falls in is dropped.            *)
SplitAfterWhole(len, list) ==
    LET k == CHOOSE i \in Whole(len, list) : \A j \in Whole(len, list) : j <= i
    IN  SubSeq(list, k + 2, Len(list))

(* Split: what of `list' comes after its first len bytes.  The chunk the   *)
(* cut falls in is shortened; the chunks before it are given up.           *)
SplitAfter(len, list) ==
    LET k == CHOOSE i \in Whole(len, list) : \A j \in Whole(len, list) : j <= i
        done == FullLength(SubSeq(list, 1, k))
    IN  IF k = Len(list) THEN <<>>
        ELSE <<SubSeq(list[k + 1], len - done + 1, Len(list[k + 1]))>>
                 \o SubSeq(list, k + 2, Len(list))

-----------------------------------------------------------------------------
(* Mutant of FlushLoop: the queue is looked at once, not after each sleep. *)
FlushLoopOnce(c, k, list, how) ==
    \/ /\ FullLength(list) <= k \/ c \in asleep
       /\ Wake' = IF c \in asleep THEN NoCont ELSE Wake
       /\ asleep' = asleep \ {c}
       /\ last' = [last EXCEPT ![c] = how]
       /\ UNCHANGED stuck
    \/ /\ FullLength(list) > k /\ c \notin asleep
       /\ Err
       /\ last' = [last EXCEPT ![c] = "thrown"]
       /\ UNCHANGED <<Wake, asleep, stuck>>
    \/ /\ FullLength(list) > k /\ c \notin asleep
       /\ ~Err
       /\ Wake' = c
       /\ asleep' = asleep \cup {c}
       /\ stuck' = IF aborted THEN c ELSE stuck
       /\ UNCHANGED last

(* Mutant of FlushLoop: Wake_ is not cleared when the sender resumes.      *)
FlushLoopKeepsWake(c, k, list, how) ==
    \/ /\ FullLength(list) <= k
       /\ asleep' = asleep \ {c}
       /\ last' = [last EXCEPT ![c] = how]
       /\ UNCHANGED <<Wake, stuck>>
    \/ /\ FullLength(list) > k
       /\ Err
       /\ asleep' = asleep \ {c}
       /\ last' = [last EXCEPT ![c] = "thrown"]
       /\ UNCHANGED <<Wake, stuck>>
    \/ /\ FullLength(list) > k
       /\ ~Err
       /\ Wake' = c
       /\ asleep' = asleep \cup {c}
       /\ stuck' = IF aborted THEN c ELSE stuck
       /\ UNCHANGED last

(* The loop of Flush(k), entered from Send or on waking up (then Wake_ is  *)
(* cleared first, whoever it names): it returns, throws, or sleeps again.  *)
(* SleepI of a cancelled coroutine returns at once and nothing the loop    *)
(* tests can change meanwhile, so the loop then never gives up the thread. *)
FlushLoop(c, k, list, how) ==
    \/ /\ FullLength(list) <= k
       /\ Wake' = IF c \in asleep THEN NoCont ELSE Wake
       /\ asleep' = asleep \ {c}
       /\ last' = [last EXCEPT ![c] = how]
       /\ UNCHANGED stuck
    \/ /\ FullLength(list) > k
       /\ Err
       /\ Wake' = IF c \in asleep THEN NoCont ELSE Wake
       /\ asleep' = asleep \ {c}
       /\ last' = [last EXCEPT ![c] = "thrown"]
       /\ UNCHANGED stuck
    \/ /\ FullLength(list) > k
       /\ ~Err
       /\ Wake' = c
       /\ asleep' = asleep \cup {c}
       /\ stuck' = IF aborted THEN c ELSE stuck
       /\ UNCHANGED last

(* Mutant of DoSend: the queue is flushed before the chunks join it.       *)
DoSendLate(c, m) ==
    /\ stuck = NoCont
    /\ c \notin asleep
    /\ accepted + FullLength(Chunks(m)) <= MaxAccepted
    /\ accepted' = accepted + FullLength(Chunks(m))
    /\ W' = W \o Chunks(m)
    /\ scheduled' = TRUE
    /\ keep' = [keep EXCEPT ![c] = MaxInQueue]
    /\ FlushLoop(c, MaxInQueue, W, "sent")
    /\ UNCHANGED <<wire, ready, Err, aborted>>

(* TSocketOut::DoSend.                                                     *)
DoSend(c, m) ==
    /\ stuck = NoCont
    /\ c \notin asleep
    /\ accepted + FullLength(Chunks(m)) <= MaxAccepted
    /\ accepted' = accepted + FullLength(Chunks(m))
    /\ W' = W \o Chunks(m)
    /\ scheduled' = TRUE
    /\ keep' = [keep EXCEPT ![c] = MaxInQueue]
    /\ FlushLoop(c, MaxInQueue, W', "sent")
    /\ UNCHANGED <<wire, ready, Err, aborted>>

(* Flush(), called when the connection's work is done.                     *)
Flush(c) ==
    /\ stuck = NoCont
    /\ c \notin asleep
    /\ keep' = [keep EXCEPT ![c] = 0]
    /\ FlushLoop(c, 0, W, "flushed")
    /\ UNCHANGED <<queueVars, ready, Err, aborted>>

(* The scheduler activates a sender that was rescheduled.                  *)
Resume(c) ==
    /\ stuck = NoCont
    /\ c \in ready
    /\ ready' = ready \ {c}
    /\ FlushLoop(c, keep[c], W, IF keep[c] = 0 THEN "flushed" ELSE "sent")
    /\ UNCHANGED <<queueVars, keep, Err, aborted>>

-----------------------------------------------------------------------------
(* if (Wake_) Wake_->ReSchedule().                                         *)
WakeSender ==
    ready' = IF Wake = NoCont THEN ready ELSE ready \cup {Wake}

(* The poller reports an error, or writev fails.  The object leaves the    *)
(* poller's list and keeps the error; the queue stays as it is.            *)
OnPollError ==
    /\ stuck = NoCont /\ ready = {}
    /\ scheduled
    /\ WakeSender
    /\ Err' = TRUE
    /\ scheduled' = FALSE
    /\ UNCHANGED <<W, accepted, wire, Wake, asleep, keep, last, stuck, aborted>>

(* writev took the whole queue.                                            *)
OnPollFull ==
    /\ stuck = NoCont /\ ready = {}
    /\ scheduled
    /\ WakeSender
    /\ wire' = wire \o Flat(W)
    /\ W' = <<>>
    /\ scheduled' = FALSE
    /\ UNCHANGED <<accepted, Wake, asleep, keep, last, stuck, Err, aborted>>

(* Mutant of OnPollPart: the object leaves the poller's list here too.     *)
OnPollPartRemoved(res) ==
    /\ stuck = NoCont /\ ready = {}
    /\ scheduled
    /\ WakeSender
    /\ wire' = wire \o SubSeq(Flat(W), 1, res)
    /\ W' = SplitAfter(res, W)
    /\ scheduled' = FALSE
    /\ UNCHANGED <<accepted, Wake, asleep, keep, last, stuck, Err, aborted>>

(* writev took the first res bytes.                                        *)
OnPollPart(res) ==
    /\ stuck = NoCont /\ ready = {}
    /\ scheduled
    /\ WakeSender
    /\ wire' = wire \o SubSeq(Flat(W), 1, res)
    /\ W' = SplitAfter(res, W)
    /\ UNCHANGED <<scheduled, accepted, Wake, asleep, keep, last, stuck, Err,
                   aborted>>

OnPollEvent ==
    \/ OnPollError
    \/ OnPollFull
    \/ \E res \in 1 .. FullLength(W) - 1 : OnPollPart(res)

(* A poll(2) that fails while nobody has a nearer deadline than SleepI's   *)
(* expires that one: every sender in Flush wakes up for nothing.           *)
PollFails ==
    /\ stuck = NoCont /\ ready = {}
    /\ ready' = asleep
    /\ UNCHANGED <<queueVars, Wake, asleep, keep, last, stuck, Err, aborted>>

(* DoShutDown: every coroutine is cancelled, and so rescheduled.           *)
Abort ==
    /\ stuck = NoCont
    /\ ~aborted
    /\ aborted' = TRUE
    /\ ready' = asleep
    /\ UNCHANGED <<queueVars, Wake, asleep, keep, last, stuck, Err>>

Next ==
    \/ \E c \in Senders :
           \/ \E m \in Messages : DoSend(c, m)
           \/ Flush(c)
           \/ Resume(c)
    \/ OnPollEvent
    \/ PollFails
    \/ Abort

Spec == Init /\ [][Next]_vars

-----------------------------------------------------------------------------
TypeOK ==
    /\ W \in Seq(Seq(Nat))
    /\ Wake \in Senders \cup {NoCont}
    /\ Err \in BOOLEAN
    /\ scheduled \in BOOLEAN
    /\ accepted \in 0 .. MaxAccepted
    /\ wire \in Seq(Nat)
    /\ asleep \subseteq Senders
    /\ keep \in [Senders -> {0, MaxInQueue}]
    /\ ready \subseteq asleep
    /\ last \in [Senders -> Outcomes]
    /\ aborted \in BOOLEAN
    /\ stuck \in Senders \cup {NoCont}

(* What is on the wire followed by what is queued is what was accepted,    *)
(* byte for byte: however writev cuts the queue across its chunks, Split   *)
(* loses nothing, repeats nothing and keeps the order.                     *)
StreamIntact == wire \o Flat(W) = Bytes(0, accepted)

(* The queue is longer than MaxInQueue_ only while some sender is held     *)
(* back for it, unless the socket has failed: DoSend does not return.      *)
BackPressure ==
    FullLength(W) > MaxInQueue /\ ~Err => asleep # {}

(* Data is never left behind: as long as the socket has not failed, a      *)
(* queue with something in it is in the poller's list, although the        *)
(* callback takes it off and DoSend puts it back.                          *)
QueuedIsScheduled == W # <<>> /\ ~Err => scheduled

(* The callback reschedules only a sender that sleeps in Flush.  (Wake_    *)
(* left behind would reschedule a coroutine that waits for something else  *)
(* and has no event to report.)                                            *)
NoStrayWake == Wake # NoCont => Wake \in asleep

(* The last Flush() of a connection returns only when every byte accepted  *)
(* is on the wire; otherwise it throws.                                    *)
FlushedStep ==
    \A c \in Senders :
        last[c] # "flushed" /\ last'[c] = "flushed" => wire' = Bytes(0, accepted')

FlushedMeansWritten == [][FlushedStep]_vars

(* With one sender at a time nobody is forgotten in Flush: who sleeps is   *)
(* rescheduled already, or is the one Wake_ names while the object is in   *)
(* the poller's list.  (Two senders share the single Wake_; see README.)   *)
SleeperHeard ==
    \A c \in asleep : c \in ready \/ stuck = c \/ (Wake = c /\ scheduled)
=============================================================================
