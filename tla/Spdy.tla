-------------------------------- MODULE Spdy --------------------------------
(***************************************************************************)
(* A SPDY session (modules/spdy/module.cpp) with the queue of a stream     *)
(* (kernel/queue.h) and its TMyEvent (kernel/syncro.h).  TProto::Loop      *)
(* reads frames and hands them to streams; a stream is an object with a    *)
(* coroutine of its own that runs the module below, pops the request from  *)
(* its queue, answers through the session's output and deletes itself.     *)
(*                                                                         *)
(* A queue holds something or nothing, and a DATA frame has data or, as    *)
(* the last one often, none.  The module below may read, send a part of    *)
(* its answer, return or throw at any time, and mostly answers when it has *)
(* read the whole request, in several sends.  The output is the            *)
(* TSocketOut of SocketOut: one Wake_ for the loop and all streams.  The   *)
(* model stops where an object is used that has been deleted.              *)
(***************************************************************************)
EXTENDS FiniteSets

CONSTANTS
    Streams,   \* the stream ids a client uses
    Loop,      \* the session's own coroutine, as a sender
    NoOne      \* a null Wake_

ASSUME SendersAssumption == Loop \notin Streams /\ NoOne \notin Streams /\ Loop # NoOne

VARIABLES
    loop,      \* Loop: "read", "flush" inside Send, or "left"
    co,        \* where the coroutine of a stream is
    chunks,    \* Chunks_ of the stream's queue is not empty
    AllDone,   \* AllDone_ of the queue: the request is complete
    S,         \* S_ of the queue's event
    out,       \* the output's queue: "short", too "long", or "failed"
    Wake,      \* Wake_ of the output
    woken,     \* senders asleep in Flush that have been rescheduled
    crowd,     \* two senders have been in Flush at once
    twin,      \* a stream object with two owners exists
    misused,   \* a frame followed the last one of its stream, or an id came twice
    aborted,   \* the executor has cancelled every coroutine
    halt       \* the model has stopped: "fault" or "spin"

queueVars == <<chunks, AllDone, S>>
outputVars == <<out, Wake, woken, crowd>>
vars == <<loop, co, queueVars, outputVars, twin, misused, aborted, halt>>

Running == {"new", "read", "last"}
Alive == Running \cup {"pop", "flush", "lastflush"}

Init ==
    /\ loop = "read"
    /\ co = [i \in Streams |-> "none"]
    /\ chunks = [i \in Streams |-> FALSE]
    /\ AllDone = [i \in Streams |-> FALSE]
    /\ S = [i \in Streams |-> FALSE]
    /\ out = "short"
    /\ Wake = NoOne
    /\ woken = {}
    /\ crowd = FALSE
    /\ twin = FALSE
    /\ misused = FALSE
    /\ aborted = FALSE
    /\ halt = "no"

-----------------------------------------------------------------------------
(* Send through the session's output: DoSend and Flush of TSocketOut.      *)

Sleepers ==
    {i \in Streams : co[i] \in {"flush", "lastflush"}} \cup (IF loop = "flush" THEN {Loop} ELSE {})

SendReturns == out # "long" /\ UNCHANGED outputVars

SendSleeps(x) ==
    /\ out # "failed"
    /\ out' = "long"
    /\ Wake' = x
    /\ crowd' = (crowd \/ Sleepers # {})
    /\ UNCHANGED woken

SendThrows == out = "failed" /\ UNCHANGED outputVars

(* The sleep of x in Flush ends: it has been rescheduled, or is cancelled. *)
FlushResumes(x) ==
    /\ x \in woken \/ aborted
    /\ Wake' = IF out = "long" THEN x ELSE NoOne
    /\ woken' = woken \ {x}
    /\ UNCHANGED <<out, crowd>>

Woken == IF Wake = NoOne THEN woken ELSE woken \cup {Wake}

(* OnPollEvent: the client has read, in part or enough, or is gone.  Err_  *)
(* is never cleared.                                                       *)
OutputEvent(now) ==
    /\ now = "failed" \/ (now = "long" /\ out = "long") \/ (now = "short" /\ out # "failed")
    /\ out' = now
    /\ woken' = Woken
    /\ UNCHANGED <<loop, co, queueVars, Wake, crowd, twin, misused, aborted, halt>>

-----------------------------------------------------------------------------
(* TProto::Loop: one frame is one step.                                    *)

Signal(i) == S' = [S EXCEPT ![i] = TRUE]

(* Mutant of Push: one signal for both, and none when there is no data.    *)
PushSignalsData(i, fin, data) ==
    /\ chunks' = [chunks EXCEPT ![i] = @ \/ data]
    /\ AllDone' = [AllDone EXCEPT ![i] = @ \/ fin]
    /\ IF data THEN Signal(i) ELSE UNCHANGED S

(* TChunkQueue::Push of a frame's data, if it has any, then Stop if it is  *)
(* the last one.  Either signals, so that a Pop may wake to nothing.       *)
Push(i, fin, data) ==
    /\ chunks' = [chunks EXCEPT ![i] = @ \/ data]
    /\ AllDone' = [AllDone EXCEPT ![i] = @ \/ fin]
    /\ Signal(i)

(* Mutant of Stop: a stream parked in Pop is not told.                     *)
StopSilently(i) ==
    /\ AllDone' = [AllDone EXCEPT ![i] = TRUE]
    /\ UNCHANGED <<chunks, S>>

(* TChunkQueue::Stop, by Reset or FLAG_FIN.                                *)
Stop(i) ==
    /\ AllDone' = [AllDone EXCEPT ![i] = TRUE]
    /\ Signal(i)
    /\ UNCHANGED chunks

(* SendRst from the loop.                                                  *)
LoopSendsRst ==
    \/ SendReturns /\ loop' = "read"
    \/ SendSleeps(Loop) /\ loop' = "flush"
    \/ SendThrows /\ loop' = "left"

(* A frame finds the pointer of a stream that has deleted itself.          *)
UsesDeleted ==
    /\ halt' = "fault"
    /\ UNCHANGED <<loop, co, queueVars, outputVars, twin>>

(* SYN_STREAM with a new id: the object and its coroutine are created.     *)
Syn(i, fin) ==
    /\ loop = "read" /\ co[i] = "none"
    /\ co' = [co EXCEPT ![i] = "new"]
    /\ IF fin THEN Stop(i) ELSE UNCHANGED queueVars
    /\ UNCHANGED <<loop, outputVars, twin, misused, aborted, halt>>

(* SYN_STREAM with an id of the table: the stream there is reset, and the  *)
(* new object is deleted although its coroutine, which owns it too, has    *)
(* been created.                                                           *)
SynAgain(i) ==
    /\ loop = "read" /\ co[i] # "none"
    /\ misused' = TRUE
    /\ \/ co[i] = "ended" /\ UsesDeleted
       \/ /\ co[i] # "ended"
          /\ Stop(i)
          /\ LoopSendsRst
          /\ twin' = TRUE
          /\ UNCHANGED <<co, halt>>
    /\ UNCHANGED aborted

(* The pointer in the table is not null.                                   *)
Known(i) == co[i] # "none"

DataFrame(i, fin, data) ==
    /\ loop = "read"
    /\ misused' = (misused \/ AllDone[i])
    /\ \/ ~Known(i) /\ LoopSendsRst /\ UNCHANGED <<co, queueVars, twin, halt>>
       \/ Known(i) /\ co[i] \notin Alive /\ UsesDeleted
       \/ /\ co[i] \in Alive /\ Push(i, fin, data)
          /\ UNCHANGED <<loop, co, outputVars, twin, halt>>
    /\ UNCHANGED aborted

RstFrame(i) ==
    /\ loop = "read" /\ Known(i)
    /\ misused' = (misused \/ AllDone[i])
    /\ \/ co[i] \notin Alive /\ UsesDeleted
       \/ co[i] \in Alive /\ Stop(i) /\ UNCHANGED <<loop, co, outputVars, twin, halt>>
    /\ UNCHANGED aborted

LoopFlushed ==
    /\ loop = "flush"
    /\ FlushResumes(Loop)
    /\ \/ out # "long" /\ loop' = "read"
       \/ out = "failed" /\ loop' = "left"
       \/ out = "long" /\ loop' = "flush"
    /\ halt' = IF out = "long" /\ aborted THEN "spin" ELSE halt
    /\ UNCHANGED <<co, queueVars, twin, misused, aborted>>

(* The end of the stream, a malformed frame, or a cancelled read.          *)
LoopLeaves ==
    /\ loop = "read"
    /\ loop' = "left"
    /\ UNCHANGED <<co, queueVars, outputVars, twin, misused, aborted, halt>>

-----------------------------------------------------------------------------
(* The coroutine of a stream.                                              *)

Moves(i, to) == co' = [co EXCEPT ![i] = to]

Starts(i) ==
    /\ loop # "left" /\ co[i] = "new"
    /\ Moves(i, "read")
    /\ UNCHANGED <<loop, queueVars, outputVars, twin, misused, aborted, halt>>

(* TChunkQueue::Pop, from the call or from its wait.  A latched signal     *)
(* ends one wait only, and the loop looks again; cancelled, the loop turns *)
(* for ever.                                                               *)
Pop(i) ==
    /\ co[i] = "read" \/ (co[i] = "pop" /\ (S[i] \/ aborted))
    /\ \/ /\ chunks[i]
          /\ chunks' = [chunks EXCEPT ![i] = FALSE]
          /\ Moves(i, "read")
          /\ S' = IF co[i] = "pop" THEN [S EXCEPT ![i] = FALSE] ELSE S
          /\ UNCHANGED halt
       \/ /\ ~chunks[i] /\ AllDone[i]
          /\ Moves(i, "last")
          /\ S' = IF co[i] = "pop" THEN [S EXCEPT ![i] = FALSE] ELSE S
          /\ UNCHANGED <<chunks, halt>>
       \/ /\ ~chunks[i] /\ ~AllDone[i]
          /\ Moves(i, "pop")
          /\ S' = [S EXCEPT ![i] = FALSE]
          /\ halt' = IF aborted THEN "spin" ELSE halt
          /\ UNCHANGED chunks
    /\ UNCHANGED <<loop, AllDone, outputVars, twin, misused, aborted>>

(* The module below sends a part of its answer.  A Send that returns at    *)
(* once changes nothing; after a Flush the module goes on, and reads on    *)
(* where a finished queue gives it nothing again.                          *)
Answers(i) ==
    /\ loop # "left" /\ co[i] \in {"read", "last"}
    /\ \/ SendSleeps(i) /\ Moves(i, "flush")
       \/ SendThrows /\ Moves(i, "ended")
    /\ UNCHANGED <<loop, queueVars, twin, misused, aborted, halt>>

(* The module below returns or throws: SendFin or SendRst, and the object  *)
(* is deleted, whether that worked or not.                                 *)
Ends(i) ==
    /\ loop # "left" /\ co[i] \in {"read", "last"}
    /\ \/ SendReturns /\ Moves(i, "ended")
       \/ SendSleeps(i) /\ Moves(i, "lastflush")
       \/ SendThrows /\ Moves(i, "ended")
    /\ UNCHANGED <<loop, queueVars, twin, misused, aborted, halt>>

Flushed(i) ==
    /\ loop # "left" /\ co[i] \in {"flush", "lastflush"}
    /\ FlushResumes(i)
    /\ \/ out # "long" /\ Moves(i, IF co[i] = "flush" THEN "read" ELSE "ended")
       \/ out = "failed" /\ Moves(i, "ended")
       \/ out = "long" /\ UNCHANGED co
    /\ halt' = IF out = "long" /\ aborted THEN "spin" ELSE halt
    /\ UNCHANGED <<loop, queueVars, twin, misused, aborted>>

(* A stream that is not parked.                                            *)
CanRun(i) ==
    co[i] \in Running \/ (co[i] \in {"flush", "lastflush"} /\ (i \in woken \/ aborted))

(* A stream uses the session although the loop, and with it the session,   *)
(* has left, or an object goes on that its other owner has deleted.        *)
StrayRuns ==
    /\ twin \/ (loop = "left" /\ \E i \in Streams : CanRun(i))
    /\ halt' = "fault"
    /\ UNCHANGED <<loop, co, queueVars, outputVars, twin, misused, aborted>>

Abort ==
    /\ ~aborted
    /\ aborted' = TRUE
    /\ UNCHANGED <<loop, co, queueVars, outputVars, twin, misused, halt>>

-----------------------------------------------------------------------------
Next ==
    /\ halt = "no"
    /\ \/ \E i \in Streams :
             \/ \E fin \in BOOLEAN : Syn(i, fin) \/ \E data \in BOOLEAN : DataFrame(i, fin, data)
             \/ SynAgain(i) \/ RstFrame(i)
             \/ Starts(i) \/ Pop(i) \/ Answers(i) \/ Ends(i) \/ Flushed(i)
       \/ \E now \in {"short", "long", "failed"} : OutputEvent(now)
       \/ LoopFlushed \/ LoopLeaves \/ StrayRuns \/ Abort

Spec == Init /\ [][Next]_vars

(* A stream that can go on is scheduled, and the client goes on reading.   *)
(* Of the module below, that it sends only so often before it reads on,    *)
(* and before it ends once it has the whole request.                       *)
FairSpec ==
    /\ Spec
    /\ \A i \in Streams :
          /\ WF_vars(halt = "no" /\ (Starts(i) \/ Flushed(i)))
          /\ SF_vars(halt = "no" /\ Pop(i))
          /\ SF_vars(halt = "no" /\ co[i] = "last" /\ Ends(i))
    /\ WF_vars(halt = "no" /\ OutputEvent("short"))

-----------------------------------------------------------------------------
TypeOK ==
    /\ loop \in {"read", "flush", "left"}
    /\ co \in [Streams -> {"none", "ended"} \cup Alive]
    /\ chunks \in [Streams -> BOOLEAN]
    /\ AllDone \in [Streams -> BOOLEAN]
    /\ S \in [Streams -> BOOLEAN]
    /\ out \in {"short", "long", "failed"}
    /\ Wake \in Streams \cup {Loop, NoOne}
    /\ woken \subseteq Streams \cup {Loop}
    /\ crowd \in BOOLEAN /\ twin \in BOOLEAN /\ misused \in BOOLEAN /\ aborted \in BOOLEAN
    /\ halt \in {"no", "fault", "spin"}

(* A stream parked in Pop has an empty queue and an incomplete request, or *)
(* its event has been signalled: whatever frames came, with data or        *)
(* without, while the stream ran, slept in Flush or woke to nothing,       *)
(* TChunkQueue loses no wake-up.                                           *)
ParkedIsHeard ==
    \A i \in Streams : co[i] = "pop" /\ (chunks[i] \/ AllDone[i]) => S[i]

(* A stream whose request is complete comes to its end while the session   *)
(* lasts and the client sends it no more, unless two senders have slept in *)
(* Flush at once, one of which the single Wake_ of the output has          *)
(* forgotten.                                                              *)
StreamEnds ==
    \A i \in Streams :
        AllDone[i] ~> (co[i] = "ended" \/ loop = "left" \/ misused \/ crowd \/ halt # "no")
=============================================================================
