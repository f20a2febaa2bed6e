------------------------------- MODULE Proxy --------------------------------
(***************************************************************************)
(* One client connection served by the "http" module with a "proxy" below  *)
(* it (modules/http/module.cpp, modules/proxy/proxy.cpp and module.cpp).   *)
(* The connection's coroutine parses a request, connects to the backend    *)
(* and runs TProxy::Run: a second coroutine, the worker, copies the        *)
(* request to the backend, the connection's own coroutine copies the       *)
(* answer back and then waits for the worker on a TMyEvent.  When Run has  *)
(* returned, the http module looks for the next request in the same        *)
(* stream.                                                                 *)
(*                                                                         *)
(* A request is its head and `body' more units, an answer its head and     *)
(* Answer more; a "chunked" answer ends with one more unit, the chunk of   *)
(* length zero.  The client sends a request only after the answer to the   *)
(* one before.  What a peer `takes' has left the queue of the TSocketOut   *)
(* in front of it.  A step is what a coroutine does between two switches.  *)
(* The worker lives on the stack of Run: when Run is left early the model  *)
(* stops at the next step of the worker.                                   *)
(***************************************************************************)
EXTENDS Integers

CONSTANTS
    MaxBody,     \* bound: units of a request's body
    Answer,      \* units of an answer after its head
    Pipe,        \* answer units under way, with the one a chunked copy holds
    ClientQueue, \* the queue allowed in front of the client, in units
    Queues,      \* the values of "maxqueue" for the backend, in units
    KeepAlive    \* the "keepalive" of the http module

ASSUME SizesAssumption ==
    /\ MaxBody \in Nat
    /\ Answer \in Nat \ {0}
    /\ Pipe \in Nat /\ Pipe >= 2
    /\ ClientQueue \in Nat
    /\ Queues \subseteq Nat
    /\ KeepAlive \in BOOLEAN

VARIABLES
    pc,          \* where the connection's coroutine is
    outcome,     \* how DoRun of the http module ended
    worker,      \* where the worker is
    S,           \* S_ of the worker's TMyEvent
    orphans,     \* a worker was alive when the frame of its Run was left
    http11,      \* the request is HTTP/1.1
    parsed,      \* the head of the client's last request has been parsed
    body,        \* units of the request's body
    announced,   \* the head says how long the body is (Content-Length)
    csent,       \* units of the request the client has sent
    taken,       \* units of the request the worker has passed on
    client,      \* the client's end of its connection
    toClient,    \* units queued for the client
    maxqueue,    \* the backend's "maxqueue"
    toBack,      \* units queued for the backend
    backend,     \* the backend's end of its connection
    framing,     \* how the answer says where it ends
    asent,       \* units of the answer the backend has sent
    aread,       \* units of the answer passed on
    cut,         \* where a chunked answer broke off
    aborted,     \* the executor has cancelled every coroutine
    halt         \* the model has stopped: "fault" or "spin"

requestVars == <<http11, parsed, body, announced, csent, client>>
answerVars == <<framing, asent, cut, backend>>
vars == <<pc, outcome, worker, S, orphans, requestVars, taken, toClient,
          maxqueue, toBack, answerVars, aread, aborted, halt>>

Framings == {"chunked", "length", "close"}
Alive == {"new", "recv", "send"}
InRun == {"recv", "send", "wait"}

(* Props.ContentLength of the request.  Its Transfer-Encoding is not read: *)
(* a chunked body without a Content-Length counts as none.                 *)
ContentLength == IF announced THEN body ELSE 0

Units == IF framing = "chunked" THEN Answer + 2 ELSE Answer + 1

Init ==
    /\ pc = "peek"
    /\ outcome = "none"
    /\ worker = "none"
    /\ S = FALSE
    /\ orphans = FALSE
    /\ http11 = TRUE
    /\ parsed = TRUE
    /\ body = 0
    /\ announced = TRUE
    /\ csent = 1
    /\ taken = 1
    /\ client = "open"
    /\ toClient = 0
    /\ maxqueue \in Queues
    /\ toBack = 0
    /\ backend = "closed"
    /\ framing = "close"
    /\ asent = 0
    /\ aread = 0
    /\ cut = "size"
    /\ aborted = FALSE
    /\ halt = "no"

-----------------------------------------------------------------------------
(* The peers.                                                              *)

ClientRequests ==
    /\ pc = "peek" /\ parsed /\ client = "open" /\ csent = body + 1
    /\ taken = csent
    /\ body' \in 0 .. MaxBody
    /\ announced' \in {TRUE, body' = 0}
    /\ http11' \in BOOLEAN
    /\ csent' = 1
    /\ taken' = 0
    /\ parsed' = FALSE
    /\ UNCHANGED <<pc, outcome, worker, S, orphans, client, toClient, maxqueue,
                   toBack, answerVars, aread, aborted, halt>>

ClientSends ==
    /\ pc # "over" /\ client = "open" /\ csent <= body
    /\ csent' = csent + 1
    /\ UNCHANGED <<pc, outcome, worker, S, orphans, http11, parsed, body,
                   announced, taken, client, toClient, maxqueue, toBack,
                   answerVars, aread, aborted, halt>>

ClientTakes ==
    /\ pc # "over" /\ client = "open" /\ toClient > 0
    /\ toClient' = toClient - 1
    /\ UNCHANGED <<pc, outcome, worker, S, orphans, requestVars, taken, maxqueue,
                   toBack, answerVars, aread, aborted, halt>>

ClientCloses ==
    /\ pc # "over" /\ client = "open"
    /\ client' = "closed"
    /\ UNCHANGED <<pc, outcome, worker, S, orphans, http11, parsed, body,
                   announced, csent, taken, toClient, maxqueue, toBack,
                   answerVars, aread, aborted, halt>>

(* A backend reads on only while what it has to say finds room.            *)
BackTakes ==
    /\ pc \in InRun /\ backend = "open" /\ toBack > 0
    /\ asent - aread < Pipe \/ asent = Units
    /\ toBack' = toBack - 1
    /\ UNCHANGED <<pc, outcome, worker, S, orphans, requestVars, taken, toClient,
                   maxqueue, answerVars, aread, aborted, halt>>

BackSends ==
    /\ pc \in InRun /\ backend = "open" /\ taken > toBack
    /\ asent < Units /\ asent - aread < Pipe
    /\ asent' = asent + 1
    /\ UNCHANGED <<pc, outcome, worker, S, orphans, requestVars, taken, toClient,
                   maxqueue, toBack, framing, cut, backend, aread, aborted, halt>>

(* The backend closes its end, in order or not.  A chunked answer can      *)
(* break off inside a chunk or where the length of the next one is due.    *)
BackCloses(how) ==
    /\ pc \in InRun /\ backend = "open"
    /\ backend' = how
    /\ cut' \in {"size"} \cup (IF asent > 0 /\ asent + 1 < Units THEN {"data"} ELSE {})
    /\ UNCHANGED <<pc, outcome, worker, S, orphans, requestVars, taken, toClient,
                   maxqueue, toBack, framing, asent, aread, aborted, halt>>

BackFinishes ==
    /\ asent = Units
    /\ BackCloses("closed")

-----------------------------------------------------------------------------
(* Leaving the frame of Run.                                               *)

(* An exception leaves Run, DoRun and the connection.  The backend's       *)
(* TSocketOut goes with what is still in its queue.                        *)
Throws ==
    /\ pc' = "over"
    /\ outcome' = "thrown"
    /\ orphans' = (orphans \/ worker \in Alive)
    /\ worker' = "none"
    /\ toBack' = 0

(* After Finish of the encoder: the next request, or the end.              *)
Loops(p) ==
    IF http11 /\ KeepAlive
    THEN p = "peek" /\ outcome' = outcome
    ELSE p = "over" /\ outcome' = "closed"

(* Run returns; Finish ends a chunked answer with a last chunk, which      *)
(* waits like every other Send while the queue is too long.                *)
Returns ==
    /\ S' = FALSE
    /\ orphans' = (orphans \/ worker \in Alive)
    /\ worker' = "none"
    /\ toBack' = 0
    /\ toClient' = IF http11 THEN toClient + 1 ELSE toClient
    /\ IF http11 /\ toClient' > ClientQueue
       THEN pc' = "finish" /\ outcome' = outcome
       ELSE Loops(pc')

-----------------------------------------------------------------------------
(* The connection's coroutine.                                             *)

(* Units the client sent that neither the parser nor the worker has read.  *)
Leftover == csent > taken /\ csent > 1

(* TParsedRequest of the next request.  What the last one left unread is   *)
(* taken for a request.                                                    *)
Parse ==
    /\ pc = "peek"
    /\ \/ /\ ~parsed
          /\ pc' = "connect"
          /\ parsed' = TRUE
          /\ outcome' = outcome
       \/ /\ parsed /\ Leftover
          /\ pc' = "over"
          /\ parsed' = parsed
          /\ outcome' = "misparsed"
    /\ UNCHANGED <<worker, S, orphans, http11, body, announced, csent, client,
                   taken, toClient, maxqueue, toBack, answerVars, aread, aborted,
                   halt>>

(* Peek finds the end of the stream, or fails and says the same.           *)
PeekEnds ==
    /\ pc = "peek" /\ parsed /\ ~Leftover
    /\ client = "closed" \/ aborted
    /\ pc' = "over"
    /\ outcome' = "closed"
    /\ UNCHANGED <<worker, S, orphans, requestVars, taken, toClient, maxqueue,
                   toBack, answerVars, aread, aborted, halt>>

(* Connect succeeds: Run starts the worker and goes on to the answer.      *)
Connects ==
    /\ pc = "connect"
    /\ pc' = "recv"
    /\ worker' = "new"
    /\ S' = FALSE
    /\ taken' = 0
    /\ toBack' = 0
    /\ backend' = "open"
    /\ framing' \in Framings
    /\ asent' = 0
    /\ aread' = 0
    /\ cut' = "size"
    /\ UNCHANGED <<outcome, orphans, requestVars, toClient, maxqueue, aborted, halt>>

ConnectFails ==
    /\ pc = "connect"
    /\ Throws
    /\ UNCHANGED <<S, requestVars, taken, toClient, maxqueue, answerVars, aread,
                   aborted, halt>>

(* The backend has closed and everything it sent is there to be read.      *)
AtEnd == backend = "closed" /\ aread = asent

(* Recv has something to return.  TChunkedTransfer reads the length of the *)
(* next chunk before it returns the last part of this one.                 *)
Deliverable ==
    IF framing = "chunked"
    THEN /\ aread + 1 < Units
         /\ \/ asent > aread + 1
            \/ asent = aread + 1 /\ backend = "closed" /\ cut = "data"
    ELSE aread < asent

(* Mutant of BreaksOff: a missing chunk length is the end of the answer.   *)
NeverBreaksOff == FALSE

(* A chunk length is due and the stream is at its end.                     *)
BreaksOff ==
    /\ framing = "chunked" /\ backend = "closed" /\ cut = "size"
    /\ asent < Units /\ asent <= aread + 1

(* Recv returns nothing: for the copy that is the end of the answer.       *)
AnswerEnds ==
    /\ ~Deliverable
    /\ ~BreaksOff
    /\ aread > 0
    /\ \/ framing = "chunked" /\ (aread + 1 = Units \/ (backend = "closed" /\ asent <= aread + 1))
       \/ framing = "length" /\ (aread = Units \/ AtEnd)
       \/ framing = "close" /\ AtEnd

(* Recv throws: an error of the socket, an answer that ends before its     *)
(* head, or a wait that is cancelled.                                      *)
AnswerFails ==
    \/ backend = "reset"
    \/ AtEnd /\ aread = 0
    \/ BreaksOff
    \/ aborted /\ ~Deliverable /\ ~AnswerEnds

CopyAnswer ==
    /\ pc = "recv" /\ Deliverable /\ backend # "reset"
    /\ aread' = aread + 1
    /\ toClient' = toClient + 1
    /\ pc' = IF toClient' > ClientQueue THEN "send" ELSE "recv"
    /\ UNCHANGED <<outcome, worker, S, orphans, requestVars, taken, maxqueue,
                   toBack, answerVars, aborted, halt>>

(* Mutant of MustWait: Run does not wait for its worker.                   *)
NeedNotWait == FALSE

(* TMyEvent::WaitD: no wait when the signal came first.                    *)
MustWait == ~S

AnswerCopied ==
    /\ pc = "recv" /\ AnswerEnds /\ backend # "reset"
    /\ IF MustWait
       THEN /\ pc' = "wait"
            /\ UNCHANGED <<outcome, worker, S, orphans, toClient, toBack>>
       ELSE Returns
    /\ UNCHANGED <<requestVars, taken, maxqueue, answerVars, aread, aborted, halt>>

AnswerLost ==
    /\ pc = "recv" /\ AnswerFails
    /\ Throws
    /\ UNCHANGED <<S, requestVars, taken, toClient, maxqueue, answerVars, aread,
                   aborted, halt>>

(* Flush of the client's TSocketOut: the loop goes on until the queue is   *)
(* short enough or the socket fails; cancelled, it turns for ever.         *)
ClientFlush ==
    /\ pc \in {"send", "finish"}
    /\ \/ /\ toClient <= ClientQueue
          /\ IF pc = "send" THEN pc' = "recv" /\ outcome' = outcome ELSE Loops(pc')
          /\ UNCHANGED <<worker, orphans, toBack, halt>>
       \/ /\ toClient > ClientQueue /\ client = "closed"
          /\ Throws
          /\ UNCHANGED halt
       \/ /\ toClient > ClientQueue /\ client = "open" /\ aborted
          /\ halt' = "spin"
          /\ UNCHANGED <<pc, outcome, worker, orphans, toBack>>
    /\ UNCHANGED <<S, requestVars, taken, toClient, maxqueue, answerVars, aread,
                   aborted>>

(* The wait for the worker ends, or is cancelled.                          *)
WaitEnds ==
    /\ pc = "wait" /\ (S \/ aborted)
    /\ Returns
    /\ UNCHANGED <<requestVars, taken, maxqueue, answerVars, aread, aborted, halt>>

-----------------------------------------------------------------------------
(* The worker.                                                             *)

(* Mutant of Signal: only a Run that waits is told.                        *)
SignalIfAwaited == S' = (pc = "wait")

Signal == S' = TRUE

(* Whatever ended the copy, an exception included, Run is told.            *)
WorkerEnds ==
    /\ worker' = "done"
    /\ Signal

(* Mutant of BodyEnds: the last unit of a body is left in the stream.      *)
BodyEndsEarly == taken >= ContentLength /\ taken > 0

(* TFixedLengthInput returns nothing once the body has been read, and      *)
(* TNullStream, of a request without a Content-Length, never anything.     *)
BodyEnds == taken = ContentLength + 1

(* The head comes from memory, the body from the client.                   *)
WorkerCopies ==
    /\ pc \in InRun /\ worker \in {"new", "recv"}
    /\ \/ /\ ~BodyEnds
          /\ taken = 0 \/ taken < csent
          /\ taken' = taken + 1
          /\ toBack' = toBack + 1
          /\ worker' = IF toBack' > maxqueue THEN "send" ELSE "recv"
          /\ S' = S
       \/ /\ BodyEnds \/ (taken > 0 /\ taken = csent /\ (client = "closed" \/ aborted))
          /\ WorkerEnds
          /\ UNCHANGED <<taken, toBack>>
    /\ UNCHANGED <<pc, outcome, orphans, requestVars, toClient, maxqueue,
                   answerVars, aread, aborted, halt>>

(* Flush of the backend's TSocketOut.                                      *)
WorkerFlush ==
    /\ pc \in InRun /\ worker = "send"
    /\ \/ toBack <= maxqueue /\ worker' = "recv" /\ UNCHANGED <<S, halt>>
       \/ toBack > maxqueue /\ backend # "open" /\ WorkerEnds /\ UNCHANGED halt
       \/ /\ toBack > maxqueue /\ backend = "open" /\ aborted
          /\ halt' = "spin"
          /\ UNCHANGED <<worker, S>>
    /\ UNCHANGED <<pc, outcome, orphans, requestVars, taken, toClient, maxqueue,
                   toBack, answerVars, aread, aborted>>

(* A worker whose Run has been left runs on what was the stack of Run.     *)
OrphanRuns ==
    /\ orphans
    /\ halt' = "fault"
    /\ UNCHANGED <<pc, outcome, worker, S, orphans, requestVars, taken, toClient,
                   maxqueue, toBack, answerVars, aread, aborted>>

Abort ==
    /\ ~aborted
    /\ aborted' = TRUE
    /\ UNCHANGED <<pc, outcome, worker, S, orphans, requestVars, taken, toClient,
                   maxqueue, toBack, answerVars, aread, halt>>

-----------------------------------------------------------------------------
Main ==
    \/ Parse \/ PeekEnds \/ Connects \/ ConnectFails
    \/ CopyAnswer \/ AnswerCopied \/ AnswerLost \/ ClientFlush \/ WaitEnds

Worker == WorkerCopies \/ WorkerFlush

Next ==
    /\ halt = "no"
    /\ \/ ClientRequests \/ ClientSends \/ ClientTakes \/ ClientCloses
       \/ BackTakes \/ BackSends \/ \E how \in {"closed", "reset"} : BackCloses(how)
       \/ Parse \/ PeekEnds \/ Connects \/ ConnectFails
       \/ CopyAnswer \/ AnswerCopied \/ AnswerLost \/ ClientFlush \/ WaitEnds
       \/ WorkerCopies \/ WorkerFlush \/ OrphanRuns \/ Abort

Spec == Init /\ [][Next]_vars

(* The scheduler comes to every coroutine that can go on.  Nothing in Run  *)
(* has a deadline, so the peers must do their part: a client sends the     *)
(* body it announced and reads, a backend reads, answers and closes.       *)
Going(A) == halt = "no" /\ A
FairSpec ==
    /\ Spec
    /\ WF_vars(Going(Main))
    /\ WF_vars(Going(Worker))
    /\ WF_vars(Going(ClientSends))
    /\ WF_vars(Going(ClientTakes))
    /\ WF_vars(Going(BackTakes))
    /\ WF_vars(Going(BackSends))
    /\ WF_vars(Going(BackFinishes))

-----------------------------------------------------------------------------
TypeOK ==
    /\ pc \in {"peek", "connect", "finish", "over"} \cup InRun
    /\ outcome \in {"none", "closed", "thrown", "misparsed"}
    /\ worker \in {"none", "done"} \cup Alive
    /\ S \in BOOLEAN /\ orphans \in BOOLEAN /\ http11 \in BOOLEAN
    /\ parsed \in BOOLEAN /\ aborted \in BOOLEAN
    /\ body \in 0 .. MaxBody
    /\ csent \in 1 .. body + 1
    /\ announced \in BOOLEAN
    /\ taken \in 0 .. ContentLength + 1
    /\ client \in {"open", "closed"}
    /\ toClient \in Nat
    /\ maxqueue \in Queues
    /\ toBack \in 0 .. taken
    /\ backend \in {"open", "closed", "reset"}
    /\ framing \in Framings
    /\ asent \in 0 .. Units
    /\ aread \in 0 .. asent
    /\ cut \in {"size", "data"}
    /\ halt \in {"no", "fault", "spin"}

(* The worker of TProxy::Run outlives the frame it lives on only when the  *)
(* copy of the answer threw, which leaves Run before f.Wait(), or when the *)
(* executor cancelled the wait: a Run that returns has waited.             *)
OrphanNeedsThrow == orphans => outcome = "thrown" \/ aborted

(* The http module reads units of a body as the next request only when the *)
(* head did not say how long the body is (a chunked body, of which         *)
(* RunDecoded passes on nothing), when the backend was gone before it had  *)
(* read the body and "maxqueue" was less than the body, so that the        *)
(* worker's Send could fail and leave the rest unread, or when the wait    *)
(* for the worker was cancelled.                                           *)
MisparsedNeedsCause ==
    outcome = "misparsed" =>
        ~announced \/ aborted \/ (backend # "open" /\ maxqueue < body)

(* Run returns without an error although the client did not get the whole  *)
(* answer only when the backend closed its connection too early, and then  *)
(* a chunked answer broke off inside a chunk.                              *)
ShortNeedsClose ==
    (pc = "wait" \/ pc = "finish") /\ aread < Answer + 1 =>
        backend = "closed" /\ (framing = "chunked" => cut = "data")

(* Every request comes to an end, whatever order the answer, the request   *)
(* and the signal take, and however slow the peers are, as long as they do *)
(* their part: both directions are copied at once, and no wait misses its  *)
(* signal.                                                                 *)
RunEnds == (pc \notin {"peek", "over"}) ~> (pc \in {"peek", "over"} \/ halt # "no")
=============================================================================
