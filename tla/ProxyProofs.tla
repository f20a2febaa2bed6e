----------------------------- MODULE ProxyProofs ----------------------------
(***************************************************************************)
(* Proofs about Proxy, for bodies and answers of any length and queues of  *)
(* any size.                                                               *)
(***************************************************************************)
EXTENDS Proxy, TLAPS

(* Outside of Run there is no worker and nothing queued for a backend, and *)
(* the signal of the worker at hand means that it is done.  DoRun has an   *)
(* outcome only when it is over.                                           *)
FrameInv ==
    /\ pc \notin InRun => worker = "none" /\ toBack = 0
    /\ pc \in InRun /\ S => worker = "done"
    /\ outcome # "none" => pc = "over"
    /\ OrphanNeedsThrow

(* What a worker that is done says about the body of its request.          *)
BodyRead ==
    \/ taken = ContentLength + 1
    \/ client = "closed" /\ taken = csent
    \/ aborted
    \/ backend # "open" /\ maxqueue < body

BodyInv ==
    /\ worker = "done" => BodyRead
    /\ pc \in {"peek", "finish"} /\ parsed => BodyRead
    /\ ~parsed => pc \in {"peek", "over"}
    /\ MisparsedNeedsCause

IInv == TypeOK /\ FrameInv /\ BodyInv /\ ShortNeedsClose

-----------------------------------------------------------------------------
(* The type invariant in three parts.                                      *)
ControlOK ==
    /\ pc \in {"peek", "connect", "finish", "over"} \cup InRun
    /\ outcome \in {"none", "closed", "thrown", "misparsed"}
    /\ worker \in {"none", "done"} \cup Alive
    /\ S \in BOOLEAN /\ orphans \in BOOLEAN /\ http11 \in BOOLEAN
    /\ parsed \in BOOLEAN /\ aborted \in BOOLEAN
    /\ client \in {"open", "closed"}
    /\ halt \in {"no", "fault", "spin"}

RequestOK ==
    /\ body \in 0 .. MaxBody
    /\ csent \in 1 .. body + 1
    /\ announced \in BOOLEAN
    /\ taken \in 0 .. ContentLength + 1
    /\ toClient \in Nat
    /\ maxqueue \in Queues
    /\ toBack \in 0 .. taken

AnswerOK ==
    /\ backend \in {"open", "closed", "reset"}
    /\ framing \in Framings
    /\ asent \in 0 .. Units
    /\ aread \in 0 .. asent
    /\ cut \in {"size", "data"}

LEMMA TypeParts == TypeOK <=> ControlOK /\ RequestOK /\ AnswerOK
  BY Zenon DEF TypeOK, ControlOK, RequestOK, AnswerOK

LEMMA UnitsType ==
    /\ Units \in Nat /\ Units > Answer
    /\ framing = "chunked" => Units = Answer + 2
    /\ framing # "chunked" => Units = Answer + 1
  BY SizesAssumption DEF Units

LEMMA LengthType ==
    ASSUME RequestOK
    PROVE  /\ body \in Nat /\ ContentLength \in Nat /\ ContentLength <= body
           /\ announced => ContentLength = body
  BY SizesAssumption DEF RequestOK, ContentLength

LEMMA InitInv == Init => IInv
  <1> SUFFICES ASSUME Init PROVE IInv
    OBVIOUS
  <1>1. ControlOK
    BY Zenon DEF Init, ControlOK, InRun, Alive
  <1>2. RequestOK
    BY SizesAssumption DEF Init, RequestOK, ContentLength
  <1>3. AnswerOK
    BY UnitsType DEF Init, AnswerOK, Framings
  <1>4. FrameInv /\ BodyInv /\ ShortNeedsClose
    BY DEF Init, FrameInv, OrphanNeedsThrow, BodyInv, BodyRead, ContentLength,
           MisparsedNeedsCause, ShortNeedsClose, InRun
  <1> QED
    BY <1>1, <1>2, <1>3, <1>4, TypeParts DEF IInv

-----------------------------------------------------------------------------
(* The steps of the peers, and the cancellation of every coroutine.        *)
Peers ==
    \/ ClientRequests \/ ClientSends \/ ClientTakes \/ ClientCloses
    \/ BackTakes \/ BackSends \/ \E how \in {"closed", "reset"} : BackCloses(how)
    \/ OrphanRuns \/ Abort

LEMMA PeersControl == ControlOK /\ Peers => ControlOK'
  <1> SUFFICES ASSUME ControlOK, Peers PROVE ControlOK'
    OBVIOUS
  <1>1. /\ UNCHANGED <<pc, outcome, worker, S, orphans>>
        /\ http11' \in BOOLEAN /\ parsed' \in BOOLEAN /\ aborted' \in BOOLEAN
        /\ client' \in {"open", "closed"} /\ halt' \in {"no", "fault", "spin"}
    BY ZenonT(60) DEF ControlOK, Peers, ClientRequests, ClientSends, ClientTakes, ClientCloses,
           BackTakes, BackSends, BackCloses, OrphanRuns, Abort, requestVars
  <1> QED
    BY <1>1 DEF ControlOK

LEMMA MainControl == ControlOK /\ (Main \/ Worker) => ControlOK'
  <1> SUFFICES ASSUME ControlOK, Main \/ Worker PROVE ControlOK'
    OBVIOUS
  <1> USE DEF InRun, Alive, requestVars
  <1>1. /\ http11' = http11 /\ client' = client /\ aborted' = aborted
        /\ parsed' = parsed \/ parsed' = TRUE
        /\ halt' = halt \/ halt' = "spin"
    BY DEF Main, Worker, Parse, PeekEnds, Connects, ConnectFails, CopyAnswer,
           AnswerCopied, AnswerLost, ClientFlush, WaitEnds, WorkerCopies, WorkerFlush
  <1>2. /\ pc' \in {"peek", "connect", "finish", "over"} \cup InRun
        /\ outcome' \in {"none", "closed", "thrown", "misparsed"}
    BY ZenonT(60) DEF ControlOK, Main, Worker, Parse, PeekEnds, Connects, ConnectFails, CopyAnswer,
           AnswerCopied, AnswerLost, ClientFlush, WaitEnds, WorkerCopies, WorkerFlush,
           Throws, Returns, Loops
  <1>3. worker' \in {"none", "done"} \cup Alive /\ S' \in BOOLEAN /\ orphans' \in BOOLEAN
    BY ZenonT(60) DEF ControlOK, Main, Worker, Parse, PeekEnds, Connects, ConnectFails, CopyAnswer,
           AnswerCopied, AnswerLost, ClientFlush, WaitEnds, WorkerCopies, WorkerFlush,
           Throws, Returns, WorkerEnds, Signal
  <1> QED
    BY <1>1, <1>2, <1>3, ZenonT(60) DEF ControlOK

LEMMA PeersRequest == RequestOK /\ FrameInv /\ Peers => RequestOK'
  <1> SUFFICES ASSUME RequestOK, FrameInv, Peers PROVE RequestOK'
    OBVIOUS
  <1> USE DEF requestVars
  <1>1. CASE ClientRequests
    <2>1. /\ body' \in 0 .. MaxBody /\ csent' = 1 /\ taken' = 0 /\ announced' \in BOOLEAN
          /\ UNCHANGED <<toClient, maxqueue>> /\ toBack' = 0
      BY <1>1 DEF ClientRequests, FrameInv, InRun
    <2>2. body' \in 0 .. MaxBody /\ MaxBody \in Nat
      BY <2>1, SizesAssumption
    <2>3. /\ \A n \in 0 .. MaxBody : 1 \in 1 .. n + 1 /\ 0 \in 0 .. n + 1
          /\ 0 \in 0 .. 0 /\ ContentLength' \in 0 .. MaxBody
      BY <2>2, SizesAssumption DEF ContentLength
    <2>4. toClient \in Nat /\ maxqueue \in Queues
      BY DEF RequestOK
    <2> QED
      BY <2>1, <2>2, <2>3, <2>4, Zenon DEF RequestOK
  <1>2. CASE ClientSends
    BY <1>2, SizesAssumption DEF ClientSends, RequestOK, ContentLength
  <1>3. CASE ClientTakes
    BY <1>3, SizesAssumption DEF ClientTakes, RequestOK, ContentLength
  <1>4. CASE BackTakes
    BY <1>4, SizesAssumption DEF BackTakes, RequestOK, ContentLength
  <1>5. CASE \/ ClientCloses \/ BackSends \/ OrphanRuns \/ Abort
             \/ \E how \in {"closed", "reset"} : BackCloses(how)
    <2>1. UNCHANGED <<body, announced, csent, taken, toClient, maxqueue, toBack>>
      BY <1>5 DEF ClientCloses, BackSends, OrphanRuns, Abort, BackCloses
    <2> QED
      BY <2>1 DEF RequestOK, ContentLength
  <1> QED
    BY <1>1, <1>2, <1>3, <1>4, <1>5 DEF Peers

LEMMA MainRequest == RequestOK /\ (Main \/ Worker) => RequestOK'
  <1> SUFFICES ASSUME RequestOK, Main \/ Worker PROVE RequestOK'
    OBVIOUS
  <1> USE DEF requestVars
  <1>1. CASE Main
    <2>1. /\ UNCHANGED <<body, announced, csent, maxqueue>>
          /\ \/ taken' = taken /\ toBack' = toBack
             \/ taken' = taken /\ toBack' = 0
             \/ taken' = 0 /\ toBack' = 0
      BY <1>1, ZenonT(60) DEF Main, Parse, PeekEnds, Connects, ConnectFails, CopyAnswer,
           AnswerCopied, AnswerLost, ClientFlush, WaitEnds, Throws, Returns
    <2>2. toClient' = toClient \/ toClient' = toClient + 1
      BY <1>1, Zenon DEF Main, Parse, PeekEnds, Connects, ConnectFails, CopyAnswer,
           AnswerCopied, AnswerLost, ClientFlush, WaitEnds, Returns
    <2> QED
      BY <2>1, <2>2, SizesAssumption, SMTT(60) DEF RequestOK, ContentLength
  <1>2. CASE Worker
    <2>1. /\ UNCHANGED <<body, announced, csent, maxqueue, toClient>>
          /\ \/ taken' = taken /\ toBack' = toBack
             \/ ~BodyEnds /\ taken' = taken + 1 /\ toBack' = toBack + 1
      BY <1>2 DEF Worker, WorkerCopies, WorkerFlush
    <2>2. ContentLength' = ContentLength
      BY <2>1 DEF ContentLength
    <2> QED
      BY <2>1, <2>2, LengthType, SizesAssumption, SMTT(60) DEF RequestOK, BodyEnds
  <1> QED
    BY <1>1, <1>2

LEMMA AnswerKept == AnswerOK /\ (Peers \/ Main \/ Worker) => AnswerOK'
  <1> SUFFICES ASSUME AnswerOK, Peers \/ Main \/ Worker PROVE AnswerOK'
    OBVIOUS
  <1> USE DEF answerVars
  <1>1. CASE BackSends
    BY <1>1, UnitsType DEF BackSends, AnswerOK, Units
  <1>2. CASE \E how \in {"closed", "reset"} : BackCloses(how)
    BY <1>2 DEF BackCloses, AnswerOK, Units
  <1>3. CASE Connects
    BY <1>3, SizesAssumption DEF Connects, AnswerOK, Units
  <1>4. CASE CopyAnswer
    <2>1. aread' = aread + 1 /\ UNCHANGED <<framing, asent, cut, backend>> /\ aread < asent
      BY <1>4 DEF CopyAnswer, Deliverable, AnswerOK
    <2> QED
      BY <2>1, UnitsType DEF AnswerOK, Units
  <1>5. CASE \/ ClientRequests \/ ClientSends \/ ClientTakes \/ ClientCloses \/ BackTakes
             \/ OrphanRuns \/ Abort \/ Parse \/ PeekEnds \/ ConnectFails \/ AnswerCopied
             \/ AnswerLost \/ ClientFlush \/ WaitEnds \/ Worker
    <2>1. UNCHANGED <<framing, asent, cut, backend, aread>>
      BY <1>5 DEF ClientRequests, ClientSends, ClientTakes, ClientCloses, BackTakes,
         OrphanRuns, Abort, Parse, PeekEnds, ConnectFails, AnswerCopied, AnswerLost,
         ClientFlush, WaitEnds, Worker, WorkerCopies, WorkerFlush
    <2> QED
      BY <2>1, SMTT(60) DEF AnswerOK, Units
  <1> QED
    BY <1>1, <1>2, <1>3, <1>4, <1>5 DEF Peers, Main

-----------------------------------------------------------------------------
(* A Run that returns has waited for its worker or was cancelled.          *)
LEMMA FrameKept == ControlOK /\ FrameInv /\ (Peers \/ Main \/ Worker) => FrameInv'
  <1> SUFFICES ASSUME ControlOK, FrameInv, Peers \/ Main \/ Worker PROVE FrameInv'
    OBVIOUS
  <1> USE DEF InRun, Alive
  <1>1. CASE Peers
    <2>1. UNCHANGED <<pc, outcome, worker, S, orphans>> /\ (aborted' = aborted \/ aborted' = TRUE)
      BY <1>1, ZenonT(60) DEF Peers, ClientRequests, ClientSends, ClientTakes, ClientCloses,
           BackTakes, BackSends, BackCloses, OrphanRuns, Abort, requestVars
    <2>2. pc \notin InRun => toBack' = toBack
      BY <1>1 DEF Peers, ClientRequests, ClientSends, ClientTakes, ClientCloses,
           BackTakes, BackSends, BackCloses, OrphanRuns, Abort
    <2> QED
      BY <2>1, <2>2, SMTT(60) DEF FrameInv, OrphanNeedsThrow
  <1>2. CASE Worker
    BY <1>2 DEF Worker, WorkerCopies, WorkerFlush, WorkerEnds, Signal, FrameInv, OrphanNeedsThrow
  <1>3. CASE Parse \/ PeekEnds \/ Connects \/ CopyAnswer
    BY <1>3 DEF Parse, PeekEnds, Connects, CopyAnswer, FrameInv, OrphanNeedsThrow
  <1>4. CASE ConnectFails \/ AnswerLost
    BY <1>4 DEF ConnectFails, AnswerLost, Throws, FrameInv, OrphanNeedsThrow
  <1>5. CASE AnswerCopied
    BY <1>5 DEF ControlOK, AnswerCopied, MustWait, Returns, Loops, FrameInv, OrphanNeedsThrow
  <1>6. CASE WaitEnds
    BY <1>6 DEF ControlOK, WaitEnds, Returns, Loops, FrameInv, OrphanNeedsThrow
  <1>7. CASE ClientFlush
    BY <1>7 DEF ClientFlush, Loops, Throws, FrameInv, OrphanNeedsThrow
  <1> QED
    BY <1>1, <1>2, <1>3, <1>4, <1>5, <1>6, <1>7 DEF Main

(* No step but the worker's last makes it done, and what its being done    *)
(* says of the body lasts until the next request.                          *)
LEMMA BodyKept ==
    ControlOK /\ RequestOK /\ FrameInv /\ BodyInv /\ (Peers \/ Main \/ Worker) => BodyInv'
  <1> SUFFICES ASSUME ControlOK, RequestOK, FrameInv, BodyInv, Peers \/ Main \/ Worker
               PROVE  BodyInv'
    BY SMTT(60)
  <1> USE DEF InRun, requestVars, answerVars
  <1>1. CASE ClientRequests
    BY <1>1, Zenon DEF ClientRequests, FrameInv, BodyInv, BodyRead, MisparsedNeedsCause
  <1>2. CASE \/ ClientSends \/ ClientTakes \/ ClientCloses \/ BackTakes \/ BackSends
             \/ OrphanRuns \/ Abort \/ \E how \in {"closed", "reset"} : BackCloses(how)
    <2>1. /\ UNCHANGED <<pc, outcome, worker, parsed, body, announced, taken, maxqueue>>
          /\ client = "closed" => client' = "closed" /\ csent' = csent
          /\ aborted => aborted'
          /\ backend # "open" => backend' # "open"
      BY <1>2 DEF ClientSends, ClientTakes, ClientCloses, BackTakes, BackSends,
         OrphanRuns, Abort, BackCloses
    <2>2. BodyRead => BodyRead'
      BY <2>1 DEF BodyRead, ContentLength
    <2> QED
      BY <2>1, <2>2 DEF BodyInv, MisparsedNeedsCause
  <1>3. CASE WorkerCopies
    <2>1. worker' = "done" => BodyRead'
      BY <1>3 DEF WorkerCopies, BodyEnds, BodyRead, ContentLength
    <2> QED
      BY <1>3, <2>1 DEF WorkerCopies, BodyInv, MisparsedNeedsCause
  <1>4. CASE WorkerFlush
    <2>1. worker' = "done" => BodyRead'
      <3> SUFFICES ASSUME worker' = "done" PROVE BodyRead'
        OBVIOUS
      <3>1. toBack > maxqueue /\ backend' # "open" /\ UNCHANGED <<taken, body, announced, maxqueue>>
        BY <1>4 DEF WorkerFlush
      <3>2. maxqueue \in Nat /\ taken \in 0 .. ContentLength + 1 /\ toBack \in 0 .. taken
        BY SizesAssumption DEF RequestOK
      <3>3. ContentLength' = ContentLength
        BY <3>1 DEF ContentLength
      <3> QED
        BY <3>1, <3>2, <3>3, LengthType DEF BodyRead
    <2> QED
      BY <1>4, <2>1 DEF WorkerFlush, BodyInv, MisparsedNeedsCause
  <1>5. CASE Parse
    <2>1. Leftover /\ BodyRead =>
              ~announced \/ aborted \/ (backend # "open" /\ maxqueue < body)
      BY LengthType, SizesAssumption, SMTT(60) DEF Leftover, BodyRead, RequestOK
    <2> QED
      BY <1>5, <2>1 DEF Parse, FrameInv, BodyInv, BodyRead, MisparsedNeedsCause
  <1>6. CASE PeekEnds \/ Connects \/ ConnectFails \/ AnswerLost \/ CopyAnswer
    BY <1>6 DEF PeekEnds, Connects, ConnectFails, AnswerLost, CopyAnswer, Throws,
                FrameInv, BodyInv, BodyRead, ContentLength, MisparsedNeedsCause
  <1>7. CASE AnswerCopied \/ WaitEnds
    <2>1. /\ UNCHANGED <<parsed, body, announced, csent, taken, client, maxqueue, backend,
                       aborted>>
          /\ outcome' # "misparsed" /\ parsed
          /\ worker' = worker \/ worker' = "none"
          /\ pc' \in {"peek", "finish"} => worker = "done" \/ aborted
      BY <1>7, SMTT(60) DEF AnswerCopied, WaitEnds, MustWait, Returns, Loops, FrameInv, BodyInv
    <2> QED
      BY <2>1, SMTT(60) DEF BodyInv, BodyRead, ContentLength, MisparsedNeedsCause
  <1>8. CASE ClientFlush
    BY <1>8 DEF ClientFlush, Loops, Throws, FrameInv, BodyInv, BodyRead, ContentLength,
                MisparsedNeedsCause
  <1> QED
    BY <1>1, <1>2, <1>3, <1>4, <1>5, <1>6, <1>7, <1>8 DEF Peers, Main, Worker

(* The copy of the answer ends only where the framing says so, or where    *)
(* the backend closed.                                                     *)
LEMMA ShortKept ==
    AnswerOK /\ ShortNeedsClose /\ (Peers \/ Main \/ Worker) => ShortNeedsClose'
  <1> SUFFICES ASSUME AnswerOK, ShortNeedsClose, Peers \/ Main \/ Worker
               PROVE  ShortNeedsClose'
    OBVIOUS
  <1> USE DEF answerVars, requestVars
  <1>1. CASE AnswerCopied
    <2>1. UNCHANGED <<framing, asent, cut, backend, aread>> /\ AnswerEnds
      BY <1>1 DEF AnswerCopied
    <2>2. aread < Answer + 1 => backend = "closed" /\ (framing = "chunked" => cut = "data")
      <3>1. aread \in Nat /\ asent \in Nat /\ asent <= Units /\ cut \in {"size", "data"}
        BY UnitsType, SMTT(60) DEF AnswerOK
      <3> QED
        BY <2>1, <3>1, UnitsType, SizesAssumption DEF AnswerEnds, BreaksOff, AtEnd
    <2> QED
      BY <2>1, <2>2 DEF ShortNeedsClose
  <1>2. CASE Parse \/ PeekEnds \/ Connects \/ ConnectFails \/ AnswerLost \/ CopyAnswer
    BY <1>2 DEF Parse, PeekEnds, Connects, ConnectFails, AnswerLost, CopyAnswer, Throws,
                ShortNeedsClose
  <1>3. CASE WaitEnds
    BY <1>3 DEF WaitEnds, ShortNeedsClose
  <1>4. CASE ClientFlush
    BY <1>4 DEF ClientFlush, Loops, Throws, ShortNeedsClose
  <1>5. CASE Peers \/ Worker
    <2>1. /\ UNCHANGED <<pc, aread, framing>>
          /\ backend = "closed" => backend' = "closed" /\ cut' = cut
      BY <1>5, Zenon DEF Peers, ClientRequests, ClientSends, ClientTakes, ClientCloses,
           BackTakes, BackSends, BackCloses, OrphanRuns, Abort, Worker, WorkerCopies,
           WorkerFlush
    <2> QED
      BY <2>1, SMTT(60) DEF ShortNeedsClose
  <1> QED
    BY <1>1, <1>2, <1>3, <1>4, <1>5 DEF Main

-----------------------------------------------------------------------------
(* The inductive invariant holds in every state.                           *)
THEOREM Invariance == Spec => []IInv
  <1>1. IInv /\ [Next]_vars => IInv'
    <2> SUFFICES ASSUME IInv, [Next]_vars PROVE IInv'
      OBVIOUS
    <2>1. ControlOK /\ RequestOK /\ AnswerOK /\ FrameInv /\ BodyInv /\ ShortNeedsClose
      BY TypeParts DEF IInv
    <2>2. CASE Peers \/ Main \/ Worker
      <3>1. ControlOK'
        BY <2>1, <2>2, PeersControl, MainControl
      <3>2. RequestOK'
        BY <2>1, <2>2, PeersRequest, MainRequest
      <3>3. AnswerOK'
        BY <2>1, <2>2, AnswerKept
      <3>4. FrameInv' /\ BodyInv' /\ ShortNeedsClose'
        BY <2>1, <2>2, FrameKept, BodyKept, ShortKept
      <3>5. TypeOK'
        BY <3>1, <3>2, <3>3, Zenon DEF TypeOK, ControlOK, RequestOK, AnswerOK
      <3> QED
        BY <3>4, <3>5 DEF IInv
    <2>3. CASE UNCHANGED vars
      BY <2>3 DEF vars, requestVars, answerVars, IInv, TypeOK, Units, ContentLength,
         FrameInv, OrphanNeedsThrow, BodyInv, BodyRead, MisparsedNeedsCause, ShortNeedsClose
    <2> QED
      BY <2>2, <2>3 DEF Next, Peers, Main, Worker
  <1> QED
    BY InitInv, <1>1, PTL DEF Spec

(* Every variable keeps to its type; no worker passes on more than the     *)
(* request, and no copy more than the answer.                              *)
THEOREM TypeCorrect == Spec => []TypeOK
  <1>1. IInv => TypeOK
    BY DEF IInv
  <1> QED
    BY <1>1, Invariance, PTL

(* Only an exception or a cancelled wait leaves a worker behind.           *)
THEOREM OrphansNeedThrow == Spec => []OrphanNeedsThrow
  <1>1. IInv => OrphanNeedsThrow
    BY DEF IInv, FrameInv
  <1> QED
    BY <1>1, Invariance, PTL

(* A body whose length the head says is read as a request only after its   *)
(* worker failed at a backend with a short "maxqueue", or after a          *)
(* cancelled wait.                                                         *)
THEOREM RequestsStartAtHeads == Spec => []MisparsedNeedsCause
  <1>1. IInv => MisparsedNeedsCause
    BY DEF IInv, BodyInv
  <1> QED
    BY <1>1, Invariance, PTL

(* A short answer passes for a whole one only when the backend closed, and *)
(* never where the length of a chunk is due.                               *)
THEOREM ShortAnswersNeedClose == Spec => []ShortNeedsClose
  <1>1. IInv => ShortNeedsClose
    BY DEF IInv
  <1> QED
    BY <1>1, Invariance, PTL

-----------------------------------------------------------------------------
(* Why the two coroutines do not block each other: the core of RunEnds.    *)
(* What each actor waits for is written out.                               *)

(* The connection's coroutine, inside Run, can go on.                      *)
MainReady ==
    \/ pc = "recv" /\ (Deliverable \/ AnswerEnds \/ AnswerFails)
    \/ pc = "send" /\ (toClient <= ClientQueue \/ client = "closed" \/ aborted)
    \/ pc = "wait" /\ (S \/ aborted)

(* The worker can go on.                                                   *)
WorkerReady ==
    \/ /\ worker \in {"new", "recv"}
       /\ taken = 0 \/ taken < csent \/ BodyEnds \/ client = "closed" \/ aborted
    \/ worker = "send" /\ (toBack <= maxqueue \/ backend # "open" \/ aborted)

(* The client has not sent its whole body, or not read what is there.      *)
ClientOwes ==
    /\ client = "open"
    /\ \/ worker \in {"new", "recv"} /\ csent <= body
       \/ pc = "send" /\ toClient > 0

(* The backend has something to read, to say, or to close, and room to.    *)
BackendOwes ==
    /\ backend = "open"
    /\ \/ toBack > 0 /\ (asent - aread < Pipe \/ asent = Units)
       \/ taken > toBack /\ asent < Units /\ asent - aread < Pipe
       \/ asent = Units

(* Inside Run somebody can always go on: the two coroutines and the two    *)
(* peers never all wait for each other.                                    *)
NoMutualWait ==
    pc \in InRun => MainReady \/ WorkerReady \/ ClientOwes \/ BackendOwes

(* Run has a worker, and a worker that is done has signalled; when Run     *)
(* waits for it and the backend is there, the answer has been read; no     *)
(* more is passed on than has been sent.                                   *)
WaitInv ==
    /\ pc \in InRun => worker # "none" /\ (worker = "done" => S)
    /\ pc = "wait" /\ backend = "open" => aread + 1 >= Units
    /\ taken <= csent
    /\ framing = "chunked" => aread < Units

(* Before the first request there is no Run.                               *)
LEMMA WaitInit == Init => WaitInv
  <1> SUFFICES ASSUME Init PROVE WaitInv
    OBVIOUS
  <1> QED
    BY DEF Init, WaitInv, InRun

(* The worker's part.                                                      *)
LEMMA SignalKept ==
    ASSUME IInv, WaitInv, [Next]_vars
    PROVE  pc' \in InRun => worker' # "none" /\ (worker' = "done" => S')
  <1> USE DEF InRun, Alive, requestVars, answerVars
  <1>0. ControlOK /\ FrameInv
    BY TypeParts DEF IInv
  <1>1. CASE Peers \/ UNCHANGED vars
    <2>1. UNCHANGED <<pc, worker, S>>
      BY <1>1, Zenon DEF Peers, ClientRequests, ClientSends, ClientTakes, ClientCloses,
           BackTakes, BackSends, BackCloses, OrphanRuns, Abort, vars
    <2> QED
      BY <2>1 DEF WaitInv
  <1>2. CASE Worker
    BY <1>2 DEF Worker, WorkerCopies, WorkerFlush, WorkerEnds, Signal, WaitInv
  <1>3. CASE Parse \/ PeekEnds \/ Connects \/ ConnectFails \/ AnswerLost
    BY <1>3 DEF Parse, PeekEnds, Connects, ConnectFails, AnswerLost, Throws
  <1>4. CASE CopyAnswer \/ ClientFlush
    BY <1>4 DEF CopyAnswer, ClientFlush, Loops, Throws, WaitInv
  <1>5. CASE AnswerCopied \/ WaitEnds
    BY <1>5 DEF AnswerCopied, WaitEnds, Returns, Loops, WaitInv
  <1> QED
    BY <1>1, <1>2, <1>3, <1>4, <1>5 DEF Next, Peers, Main, Worker

(* The part of the answer.                                                 *)
LEMMA AnswerRead ==
    ASSUME IInv, WaitInv, [Next]_vars
    PROVE  /\ pc' = "wait" /\ backend' = "open" => aread' + 1 >= Units'
           /\ framing' = "chunked" => aread' < Units'
  <1> USE DEF requestVars, answerVars
  <1>0. ControlOK /\ AnswerOK
    BY TypeParts DEF IInv
  <1>1. Units \in Nat /\ aread \in Nat /\ asent \in Nat /\ aread <= asent /\ asent <= Units
    BY <1>0, UnitsType DEF AnswerOK
  <1>2. CASE Connects
    BY <1>2, SizesAssumption DEF Connects, Units
  <1>3. CASE CopyAnswer
    <2>1. aread' = aread + 1 /\ framing' = framing /\ pc' # "wait"
          /\ (framing = "chunked" => aread + 1 < Units)
      BY <1>3 DEF CopyAnswer, Deliverable
    <2>2. Units' = Units
      BY <2>1 DEF Units
    <2> QED
      BY <1>1, <2>1, <2>2
  <1>4. CASE AnswerCopied
    <2>1. AnswerEnds /\ UNCHANGED <<framing, asent, cut, backend, aread>>
      BY <1>4 DEF AnswerCopied
    <2>2. Units' = Units
      BY <2>1 DEF Units
    <2>3. backend = "open" => aread + 1 >= Units
      BY <1>1, <2>1 DEF AnswerEnds, AtEnd
    <2> QED
      BY <2>1, <2>2, <2>3 DEF WaitInv
  <1>5. CASE \/ Peers \/ Worker \/ UNCHANGED vars
             \/ Parse \/ PeekEnds \/ ConnectFails \/ AnswerLost \/ ClientFlush \/ WaitEnds
    <2>1. /\ UNCHANGED <<framing, aread>>
          /\ backend' = "open" => backend = "open"
      BY <1>5, Zenon DEF Peers, ClientRequests, ClientSends, ClientTakes, ClientCloses,
           BackTakes, BackSends, BackCloses, OrphanRuns, Abort, vars, Worker,
           WorkerCopies, WorkerFlush, Parse, PeekEnds, ConnectFails, AnswerLost,
           ClientFlush, WaitEnds
    <2>2. pc' = "wait" => pc = "wait"
      BY <1>5, Zenon DEF Peers, ClientRequests, ClientSends, ClientTakes, ClientCloses,
           BackTakes, BackSends, BackCloses, OrphanRuns, Abort, vars, Worker,
           WorkerCopies, WorkerFlush, Parse, PeekEnds, ConnectFails, AnswerLost,
           ClientFlush, WaitEnds, Throws, Returns, Loops
    <2>3. Units' = Units
      BY <2>1 DEF Units
    <2> QED
      BY <2>1, <2>2, <2>3 DEF WaitInv
  <1> QED
    BY <1>2, <1>3, <1>4, <1>5 DEF Next, Peers, Main, Worker

(* The part of the request.                                                *)
LEMMA TakenKept ==
    ASSUME IInv, WaitInv, [Next]_vars
    PROVE  taken' <= csent'
  <1> USE DEF requestVars, answerVars
  <1>1. /\ taken \in Nat /\ csent \in Nat \ {0} /\ taken <= csent
    BY TypeParts, SizesAssumption DEF IInv, RequestOK, WaitInv
  <1>2. \/ taken' = taken /\ csent' = csent
        \/ taken' = taken /\ csent' = csent + 1
        \/ taken' = 0 /\ csent' = 1
        \/ taken' = 0 /\ csent' = csent
        \/ taken' = taken + 1 /\ csent' = csent /\ (taken = 0 \/ taken < csent)
    BY ZenonT(60) DEF Next, ClientRequests, ClientSends, ClientTakes, ClientCloses, BackTakes,
       BackSends, BackCloses, OrphanRuns, Abort, vars, WorkerCopies, WorkerFlush, Parse,
       PeekEnds, Connects, ConnectFails, CopyAnswer, AnswerCopied, AnswerLost,
       ClientFlush, WaitEnds
  <1> QED
    BY <1>1, <1>2

(* A copy of the answer that cannot go on has a backend that owes it some, *)
(* or a worker that has not passed on the head of the request.             *)
LEMMA RecvGoesOn ==
    ASSUME IInv, WaitInv, pc = "recv"
    PROVE  MainReady \/ WorkerReady \/ BackendOwes
  <1> SUFFICES ASSUME ~Deliverable, ~AnswerEnds, ~AnswerFails, ~WorkerReady
               PROVE  BackendOwes
    BY DEF MainReady
  <1>0. ControlOK /\ RequestOK /\ AnswerOK /\ BodyInv
    BY TypeParts DEF IInv
  <1>1. /\ Units \in Nat /\ aread \in Nat /\ asent \in Nat /\ aread <= asent /\ asent <= Units
        /\ Units >= 2 /\ Pipe \in Nat /\ Pipe >= 2
        /\ framing = "chunked" => aread < Units /\ Units >= 3
        /\ framing \in {"chunked", "length", "close"}
    BY <1>0, UnitsType, SizesAssumption DEF AnswerOK, WaitInv, Framings
  <1>2. ~aborted /\ backend # "reset"
    BY DEF AnswerFails
  <1>3. backend = "open"
    <2> SUFFICES ASSUME backend = "closed" PROVE FALSE
      BY <1>0, <1>2 DEF AnswerOK
    <2>1. ~BreaksOff /\ cut \in {"size", "data"} /\ ~(AtEnd /\ aread = 0)
      BY <1>0 DEF AnswerFails, AnswerOK
    <2>2. CASE framing = "chunked"
      BY <1>1, <2>1, <2>2 DEF Deliverable, AnswerEnds, BreaksOff, AtEnd
    <2>3. CASE framing # "chunked"
      BY <1>1, <2>1, <2>3 DEF Deliverable, AnswerEnds, BreaksOff, AtEnd
    <2> QED
      BY <2>2, <2>3
  <1>4. asent = Units \/ (asent < Units /\ asent - aread < Pipe)
    <2>1. CASE framing = "chunked"
      BY <1>1, <1>3, <2>1 DEF Deliverable
    <2>2. CASE framing # "chunked"
      BY <1>1, <2>2 DEF Deliverable
    <2> QED
      BY <2>1, <2>2
  <1>5. taken > toBack \/ toBack > 0
    <2>1. taken \in Nat /\ toBack \in Nat /\ toBack <= taken /\ body \in Nat /\ csent \in Nat \ {0}
          /\ maxqueue \in Nat
      BY <1>0, SizesAssumption DEF RequestOK
    <2>2. worker \in {"new", "recv"} => taken # 0
      BY DEF WorkerReady
    <2>3. worker = "send" => toBack > maxqueue
      BY <2>1 DEF WorkerReady
    <2>4. worker = "done" => taken # 0
      BY <1>0, <1>2, <1>3, <2>1, LengthType DEF BodyInv, BodyRead
    <2>5. worker \in {"new", "recv", "send", "done"}
      BY <1>0 DEF ControlOK, WaitInv, Alive, InRun
    <2> QED
      BY <2>1, <2>2, <2>3, <2>4, <2>5
  <1> QED
    BY <1>1, <1>3, <1>4, <1>5 DEF BackendOwes

(* A Run that waits has a worker that goes on, or that waits for a peer    *)
(* that is not held up by the answer.                                      *)
LEMMA WaitGoesOn ==
    ASSUME IInv, WaitInv, pc = "wait"
    PROVE  MainReady \/ WorkerReady \/ ClientOwes \/ BackendOwes
  <1> SUFFICES ASSUME ~S, ~aborted, ~WorkerReady
               PROVE  ClientOwes \/ BackendOwes
    BY DEF MainReady
  <1>0. ControlOK /\ RequestOK /\ AnswerOK
    BY TypeParts DEF IInv
  <1>1. worker \in {"new", "recv", "send"}
    BY <1>0 DEF ControlOK, WaitInv, Alive, InRun
  <1>2. /\ taken \in Nat /\ csent \in Nat /\ body \in Nat /\ toBack \in Nat /\ maxqueue \in Nat
        /\ taken <= csent /\ taken <= body + 1 /\ csent <= body + 1
    BY <1>0, LengthType, SizesAssumption, SMTT(60) DEF RequestOK, WaitInv
  <1>3. CASE worker \in {"new", "recv"}
    <2>1. taken # 0 /\ ~(taken < csent) /\ taken # ContentLength + 1 /\ client = "open"
      BY <1>0, <1>3 DEF WorkerReady, BodyEnds, ControlOK
    <2>2. taken <= ContentLength
      BY <1>0, <2>1, LengthType DEF RequestOK
    <2>3. csent <= body
      BY <1>0, <1>2, <2>1, <2>2, LengthType
    <2> QED
      BY <1>3, <2>1, <2>3 DEF ClientOwes
  <1>4. CASE worker = "send"
    <2>1. toBack > 0 /\ backend = "open"
      BY <1>2, <1>4 DEF WorkerReady
    <2>2. aread + 1 >= Units
      BY <2>1 DEF WaitInv
    <2>3. /\ Units \in Nat /\ aread \in Nat /\ asent \in Nat /\ asent <= Units
          /\ Pipe \in Nat /\ Pipe >= 2
      BY <1>0, UnitsType, SizesAssumption DEF AnswerOK
    <2> QED
      BY <2>1, <2>2, <2>3 DEF BackendOwes
  <1> QED
    BY <1>1, <1>3, <1>4

(* Both directions are copied at once, the worker signals whatever ends    *)
(* it, and Run waits only when it has read the answer: for bodies,         *)
(* answers and queues of any size the copies never block each other.       *)
THEOREM CopiesDoNotBlock == Spec => []NoMutualWait
  <1>1. IInv /\ WaitInv /\ [Next]_vars => WaitInv'
    BY SignalKept, AnswerRead, TakenKept DEF WaitInv
  <1>2. IInv /\ WaitInv => NoMutualWait
    <2> SUFFICES ASSUME IInv, WaitInv, pc \in InRun
                 PROVE  MainReady \/ WorkerReady \/ ClientOwes \/ BackendOwes
      BY DEF NoMutualWait
    <2>1. CASE pc = "send"
      <3>1. toClient \in Nat /\ ClientQueue \in Nat /\ client \in {"open", "closed"}
        BY TypeParts, SizesAssumption DEF IInv, RequestOK, ControlOK
      <3> QED
        BY <2>1, <3>1 DEF MainReady, ClientOwes
    <2> QED
      BY <2>1, RecvGoesOn, WaitGoesOn DEF InRun
  <1> QED
    BY Invariance, WaitInit, <1>1, <1>2, PTL DEF Spec
=============================================================================
