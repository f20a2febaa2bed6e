----------------------------- MODULE SpdyProofs -----------------------------
(***************************************************************************)
(* Proofs about Spdy for any number of streams.                            *)
(***************************************************************************)
EXTENDS Spdy, TLAPS

Inv == TypeOK /\ ParkedIsHeard

(* Sending changes the output only, and leaves it well typed.              *)
LEMMA SendTyped ==
    ASSUME TypeOK, NEW x \in Streams \cup {Loop}, SendReturns \/ SendSleeps(x) \/ SendThrows
    PROVE  /\ out' \in {"short", "long", "failed"}
           /\ Wake' \in Streams \cup {Loop, NoOne}
           /\ woken' \subseteq Streams \cup {Loop}
           /\ crowd' \in BOOLEAN
  BY Zenon DEF TypeOK, SendReturns, SendSleeps, SendThrows, outputVars

LEMMA FlushTyped ==
    ASSUME TypeOK, NEW x \in Streams \cup {Loop}, FlushResumes(x)
    PROVE  /\ out' \in {"short", "long", "failed"}
           /\ Wake' \in Streams \cup {Loop, NoOne}
           /\ woken' \subseteq Streams \cup {Loop}
           /\ crowd' \in BOOLEAN
  BY DEF TypeOK, FlushResumes

(* The steps of the loop preserve the invariant.                           *)
LEMMA FramesPreserve ==
    ASSUME Inv, halt = "no", NEW i \in Streams, NEW fin \in BOOLEAN, NEW data \in BOOLEAN,
           Syn(i, fin) \/ DataFrame(i, fin, data) \/ SynAgain(i) \/ RstFrame(i)
    PROVE  Inv'
  <1> USE DEF Inv
  <1>1. CASE Syn(i, fin)
    <2>1. TypeOK'
      BY <1>1, ZenonT(60) DEF TypeOK, Syn, Stop, Signal, queueVars, outputVars, Alive, Running
    <2>2. ParkedIsHeard'
      BY <1>1 DEF TypeOK, ParkedIsHeard, Syn, Stop, Signal, queueVars
    <2> QED
      BY <1>1, <2>1, <2>2 DEF Syn
  <1>2. CASE SynAgain(i)
    <2>1. CASE co[i] = "ended" /\ UsesDeleted
      BY <1>2, <2>1
         DEF SynAgain, UsesDeleted, queueVars, outputVars, TypeOK, ParkedIsHeard
    <2>2. CASE co[i] # "ended" /\ Stop(i) /\ LoopSendsRst /\ twin' = TRUE /\ UNCHANGED <<co, halt>>
      <3>1. TypeOK'
        <4>1. loop' \in {"read", "flush", "left"}
          BY <2>2 DEF LoopSendsRst
        <4>2. SendReturns \/ SendSleeps(Loop) \/ SendThrows
          BY <2>2 DEF LoopSendsRst
        <4>3. /\ AllDone' \in [Streams -> BOOLEAN]
              /\ S' \in [Streams -> BOOLEAN]
              /\ chunks' \in [Streams -> BOOLEAN]
          BY <2>2 DEF Stop, Signal, TypeOK
        <4> QED
          BY <1>2, <2>2, <4>1, <4>2, <4>3, SendTyped DEF SynAgain, TypeOK
      <3>2. ParkedIsHeard'
        BY <2>2 DEF Stop, Signal, TypeOK, ParkedIsHeard
      <3> QED
        BY <1>2, <2>2, <3>1, <3>2 DEF SynAgain
    <2> QED
      BY <1>2, <2>1, <2>2, Zenon DEF SynAgain
  <1>3. ASSUME UsesDeleted, misused' = (misused \/ AllDone[i]), UNCHANGED aborted
        PROVE  Inv'
    BY <1>3 DEF UsesDeleted, queueVars, outputVars, TypeOK, ParkedIsHeard
  <1>4. CASE DataFrame(i, fin, data)
    <2>1. CASE ~Known(i) /\ LoopSendsRst /\ UNCHANGED <<co, queueVars, twin, halt>>
      <3>1. SendReturns \/ SendSleeps(Loop) \/ SendThrows
        BY <2>1 DEF LoopSendsRst
      <3>2. TypeOK'
        BY <1>4, <2>1, <3>1, SendTyped DEF DataFrame, LoopSendsRst, queueVars, TypeOK
      <3> QED
        BY <1>4, <2>1, <3>2, Zenon
           DEF DataFrame, queueVars, ParkedIsHeard
    <2>2. CASE Known(i) /\ co[i] \notin Alive /\ UsesDeleted
      BY <1>3, <1>4, <2>2 DEF DataFrame, Known
    <2>3. CASE co[i] \in Alive /\ Push(i, fin, data) /\ UNCHANGED <<loop, co, outputVars, twin, halt>>
      <3>1. TypeOK'
        BY <1>4, <2>3 DEF DataFrame, Push, Signal, outputVars, TypeOK
      <3>2. ParkedIsHeard'
        BY <2>3 DEF Push, Signal, TypeOK, ParkedIsHeard
      <3> QED
        BY <1>4, <2>3, <3>1, <3>2, Zenon DEF DataFrame
    <2> QED
      BY <1>4, <2>1, <2>2, <2>3 DEF DataFrame
  <1>5. CASE RstFrame(i)
    <2>1. CASE co[i] \notin Alive /\ UsesDeleted
      BY <1>3, <1>5, <2>1 DEF RstFrame, Known
    <2>2. CASE co[i] \in Alive /\ Stop(i) /\ UNCHANGED <<loop, co, outputVars, twin, halt>>
      <3>1. TypeOK'
        BY <1>5, <2>2 DEF RstFrame, Stop, Signal, outputVars, TypeOK
      <3>2. ParkedIsHeard'
        BY <2>2 DEF Stop, Signal, TypeOK, ParkedIsHeard
      <3> QED
        BY <1>5, <2>2, <3>1, <3>2, Zenon DEF RstFrame
    <2> QED
      BY <1>5, <2>1, <2>2 DEF RstFrame
  <1> QED
    BY <1>1, <1>2, <1>4, <1>5

(* The steps of a stream preserve the invariant.                           *)
LEMMA StreamsPreserve ==
    ASSUME Inv, halt = "no", NEW i \in Streams,
           Starts(i) \/ Pop(i) \/ Answers(i) \/ Ends(i) \/ Flushed(i)
    PROVE  Inv'
  <1> USE DEF Inv
  <1>1. CASE Starts(i)
    BY <1>1
       DEF Starts, Moves, queueVars, outputVars, Alive, Running, TypeOK, ParkedIsHeard
  <1>2. CASE Pop(i)
    <2>1. TypeOK'
      <3>1. /\ co' \in [Streams -> {"none", "ended"} \cup Alive]
            /\ S' \in [Streams -> BOOLEAN]
            /\ chunks' \in [Streams -> BOOLEAN]
            /\ halt' \in {"no", "fault", "spin"}
        BY <1>2, Zenon DEF Pop, Moves, Alive, Running, TypeOK
      <3> QED
        BY <1>2, <3>1 DEF Pop, outputVars, TypeOK
    <2>2. ParkedIsHeard'
      BY <1>2 DEF Pop, Moves, TypeOK, ParkedIsHeard
    <2> QED
      BY <2>1, <2>2
  <1>3. CASE Answers(i) \/ Ends(i)
    <2>1. SendReturns \/ SendSleeps(i) \/ SendThrows
      BY <1>3 DEF Answers, Ends
    <2>2. PICK to \in {"read", "flush", "lastflush", "ended"} : Moves(i, to)
      BY <1>3 DEF Answers, Ends
    <2>3. UNCHANGED <<loop, queueVars, twin, misused, aborted, halt>>
      BY <1>3 DEF Answers, Ends
    <2>4. TypeOK'
      <3>1. co' \in [Streams -> {"none", "ended"} \cup Alive]
        BY <2>2 DEF Moves, Alive, Running, TypeOK
      <3> QED
        BY <2>1, <2>3, <3>1, SendTyped DEF queueVars, TypeOK
    <2> QED
      BY <2>2, <2>3, <2>4
         DEF Moves, queueVars, TypeOK, ParkedIsHeard
  <1>4. CASE Flushed(i)
    <2>1. FlushResumes(i) /\ UNCHANGED <<loop, queueVars, twin, misused, aborted>>
      BY <1>4 DEF Flushed
    <2>2. PICK to \in {"read", "ended", "flush", "lastflush"} : co' = [co EXCEPT ![i] = to]
      BY <1>4 DEF Flushed, Moves, TypeOK
    <2>3. halt' \in {"no", "spin"}
      BY <1>4 DEF Flushed
    <2>4. TypeOK'
      <3>1. co' \in [Streams -> {"none", "ended"} \cup Alive]
        BY <2>2 DEF Alive, Running, TypeOK
      <3> QED
        BY <2>1, <2>3, <3>1, FlushTyped DEF queueVars, TypeOK
    <2> QED
      BY <2>1, <2>2, <2>3, <2>4
         DEF queueVars, TypeOK, ParkedIsHeard
  <1> QED
    BY <1>1, <1>2, <1>3, <1>4

(* The steps of the session and its surroundings preserve the invariant.   *)
LEMMA OthersPreserve ==
    ASSUME Inv, halt = "no",
           \/ \E now \in {"short", "long", "failed"} : OutputEvent(now)
           \/ LoopFlushed \/ LoopLeaves \/ StrayRuns \/ Abort
    PROVE  Inv'
  <1> USE DEF Inv
  <1>1. ASSUME NEW now \in {"short", "long", "failed"}, OutputEvent(now)
        PROVE  Inv'
    BY <1>1
       DEF OutputEvent, Woken, queueVars, TypeOK, ParkedIsHeard
  <1>2. CASE LoopFlushed
    <2>1. FlushResumes(Loop) /\ UNCHANGED <<co, queueVars, twin, misused, aborted>>
      BY <1>2 DEF LoopFlushed
    <2>2. halt' \in {"no", "spin"} /\ loop' \in {"read", "flush", "left"}
      BY <1>2 DEF LoopFlushed
    <2>3. TypeOK'
      BY <2>1, <2>2, FlushTyped DEF queueVars, TypeOK
    <2> QED
      BY <2>1, <2>2, <2>3 DEF queueVars, ParkedIsHeard
  <1>3. CASE LoopLeaves
    BY <1>3
       DEF LoopLeaves, queueVars, outputVars, TypeOK, ParkedIsHeard
  <1>4. CASE StrayRuns
    BY <1>4 DEF StrayRuns, queueVars, outputVars, TypeOK, ParkedIsHeard
  <1>5. CASE Abort
    BY <1>5
       DEF Abort, queueVars, outputVars, TypeOK, ParkedIsHeard
  <1> QED
    BY <1>1, <1>2, <1>3, <1>4, <1>5

(* The inductive invariant holds in every state of a session.              *)
THEOREM Invariance == Spec => []Inv
  <1>1. Init => Inv
    BY Zenon DEF Init, Inv, TypeOK, ParkedIsHeard
  <1>2. Inv /\ [Next]_vars => Inv'
    <2> SUFFICES ASSUME Inv, [Next]_vars PROVE Inv'
      OBVIOUS
    <2>1. CASE Next
      BY <2>1, FramesPreserve, StreamsPreserve, OthersPreserve, Zenon DEF Next
    <2>2. CASE UNCHANGED vars
      BY <2>2
         DEF vars, queueVars, outputVars, Inv, TypeOK, ParkedIsHeard
    <2> QED
      BY <2>1, <2>2
  <1> QED
    BY <1>1, <1>2, PTL DEF Spec

(* The variables of a session keep their types.                            *)
THEOREM TypeCorrect == Spec => []TypeOK
  BY Invariance, PTL DEF Inv

(* No stream is parked in Pop with something in its queue, or with its     *)
(* request complete, and no signal to end the wait.                        *)
THEOREM QueueLosesNoWakeUp == Spec => []ParkedIsHeard
  BY Invariance, PTL DEF Inv

-----------------------------------------------------------------------------
(* Why StreamEnds must except a crowd and nothing else of the output: as   *)
(* long as no two senders have been in Flush at once, the one that is has  *)
(* its own name in Wake_ or has been rescheduled.                          *)
LoneSleeperIsHeard ==
    ~crowd => \A x \in Sleepers : Wake = x \/ x \in woken

SleepInv ==
    /\ LoneSleeperIsHeard
    /\ ~crowd => \A x, y \in Sleepers : x = y

(* What a step may do to those asleep in Flush: wake some, put one more to *)
(* sleep, or let one look at the queue again.                              *)
Passes ==
    /\ Sleepers' \subseteq Sleepers
    /\ Wake' = Wake /\ woken \subseteq woken' /\ crowd' = crowd

Sleeps(x) == SendSleeps(x) /\ Sleepers' \subseteq Sleepers \cup {x}

Looks(x) ==
    /\ x \in Sleepers /\ FlushResumes(x)
    /\ \/ out = "long" /\ Sleepers' = Sleepers
       \/ Sleepers' \subseteq Sleepers \ {x}

LEMMA SleepKept ==
    ASSUME SleepInv, Passes \/ \E x \in Streams \cup {Loop} : Sleeps(x) \/ Looks(x)
    PROVE  SleepInv'
  <1>1. CASE Passes
    BY <1>1, Zenon DEF Passes, SleepInv, LoneSleeperIsHeard
  <1>2. ASSUME NEW x \in Streams \cup {Loop}, Sleeps(x) PROVE SleepInv'
    <2> SUFFICES ASSUME ~crowd' PROVE /\ \A y \in Sleepers' : Wake' = y \/ y \in woken'
                                      /\ \A y, z \in Sleepers' : y = z
      BY Zenon DEF SleepInv, LoneSleeperIsHeard
    <2>1. Sleepers = {} /\ Wake' = x /\ Sleepers' \subseteq Sleepers \cup {x}
      BY <1>2 DEF Sleeps, SendSleeps
    <2> QED
      BY <2>1
  <1>3. ASSUME NEW x \in Streams \cup {Loop}, Looks(x) PROVE SleepInv'
    <2> SUFFICES ASSUME ~crowd' PROVE /\ \A y \in Sleepers' : Wake' = y \/ y \in woken'
                                      /\ \A y, z \in Sleepers' : y = z
      BY Zenon DEF SleepInv, LoneSleeperIsHeard
    <2>1. ~crowd /\ x \in Sleepers
      BY <1>3 DEF Looks, FlushResumes
    <2>2. \A y \in Sleepers : y = x
      BY <2>1 DEF SleepInv
    <2>3. CASE out = "long" /\ Sleepers' = Sleepers
      <3>1. Wake' = x
        BY <1>3, <2>3 DEF Looks, FlushResumes
      <3> QED
        BY <2>2, <2>3, <3>1
    <2>4. CASE Sleepers' \subseteq Sleepers \ {x}
      BY <2>2, <2>4
    <2> QED
      BY <1>3, <2>3, <2>4 DEF Looks
  <1> QED
    BY <1>1, <1>2, <1>3

(* Every step of a session does one of the three.                          *)
LEMMA SleepSteps ==
    ASSUME TypeOK, [Next]_vars
    PROVE  Passes \/ \E x \in Streams \cup {Loop} : Sleeps(x) \/ Looks(x)
  <1> USE DEF queueVars, outputVars
  <1>1. CASE UNCHANGED vars
    BY <1>1 DEF vars, Passes, Sleepers
  <1>2. ASSUME NEW i \in Streams, NEW fin \in BOOLEAN, Syn(i, fin) PROVE Passes
    <2>1. Sleepers' \subseteq Sleepers
      BY <1>2 DEF Syn, Sleepers, TypeOK
    <2> QED
      BY <1>2, <2>1 DEF Syn, Passes
  <1>3. ASSUME LoopSendsRst, loop = "read", UNCHANGED co
        PROVE  Passes \/ Sleeps(Loop)
    <2>1. CASE SendSleeps(Loop) /\ loop' = "flush"
      BY <1>3, <2>1 DEF Sleeps, Sleepers
    <2>2. CASE (SendReturns \/ SendThrows) /\ loop' # "flush"
      BY <1>3, <2>2 DEF SendReturns, SendThrows, Passes, Sleepers
    <2> QED
      BY <1>3, <2>1, <2>2 DEF LoopSendsRst
  <1>4. ASSUME UNCHANGED <<loop, co, outputVars>> PROVE Passes
    BY <1>4 DEF Passes, Sleepers
  <1>5. ASSUME NEW i \in Streams, SynAgain(i) PROVE Passes \/ Sleeps(Loop)
    BY <1>3, <1>4, <1>5, Zenon DEF SynAgain, UsesDeleted
  <1>6. ASSUME NEW i \in Streams, NEW fin \in BOOLEAN, NEW data \in BOOLEAN,
               DataFrame(i, fin, data)
        PROVE  Passes \/ Sleeps(Loop)
    BY <1>3, <1>4, <1>6, Zenon DEF DataFrame, UsesDeleted
  <1>7. ASSUME NEW i \in Streams, RstFrame(i) PROVE Passes
    BY <1>4, <1>7, Zenon DEF RstFrame, UsesDeleted
  <1>8. ASSUME NEW i \in Streams, Starts(i) \/ Pop(i) PROVE Passes
    <2>1. Sleepers' \subseteq Sleepers
      BY <1>8 DEF Starts, Pop, Moves, Sleepers, TypeOK
    <2> QED
      BY <1>8, <2>1 DEF Starts, Pop, Passes
  <1>9. ASSUME NEW i \in Streams, Answers(i) \/ Ends(i) PROVE Passes \/ Sleeps(i)
    <2>1. CASE SendSleeps(i) /\ loop' = loop /\ \E to \in {"flush", "lastflush"} : Moves(i, to)
      BY <2>1 DEF Sleeps, Moves, Sleepers, TypeOK
    <2>2. CASE (SendReturns \/ SendThrows) /\ loop' = loop /\ Moves(i, "ended")
      <3>1. Sleepers' \subseteq Sleepers
        BY <2>2 DEF Moves, Sleepers, TypeOK
      <3> QED
        BY <2>2, <3>1 DEF SendReturns, SendThrows, Passes
    <2> QED
      BY <1>9, <2>1, <2>2 DEF Answers, Ends
  <1>10. ASSUME NEW i \in Streams, Flushed(i) PROVE Looks(i)
    <2>1. i \in Sleepers /\ FlushResumes(i) /\ loop' = loop
      BY <1>10 DEF Flushed, Sleepers
    <2>2. CASE out = "long" /\ UNCHANGED co
      BY <2>1, <2>2 DEF Looks, Sleepers
    <2>3. CASE Moves(i, "read") \/ Moves(i, "ended")
      <3>1. Sleepers' \subseteq Sleepers \ {i}
        BY <2>1, <2>3, SendersAssumption DEF Moves, Sleepers, TypeOK
      <3> QED
        BY <2>1, <3>1 DEF Looks
    <2> QED
      BY <1>10, <2>2, <2>3 DEF Flushed
  <1>11. CASE LoopFlushed
    <2>1. Loop \in Sleepers /\ FlushResumes(Loop) /\ co' = co
      BY <1>11 DEF LoopFlushed, Sleepers
    <2>2. \/ out = "long" /\ loop' = loop
          \/ loop' # "flush"
      BY <1>11 DEF LoopFlushed
    <2>3. \/ out = "long" /\ Sleepers' = Sleepers
          \/ Sleepers' \subseteq Sleepers \ {Loop}
      BY <2>1, <2>2, SendersAssumption DEF Sleepers
    <2>4. Looks(Loop)
      BY <2>1, <2>3 DEF Looks
    <2> QED
      BY <2>4
  <1>12. ASSUME NEW now \in {"short", "long", "failed"}, OutputEvent(now) PROVE Passes
    BY <1>12 DEF OutputEvent, Woken, Passes, Sleepers
  <1>13. CASE LoopLeaves
    BY <1>13 DEF LoopLeaves, Passes, Sleepers
  <1>14. CASE StrayRuns \/ Abort
    BY <1>4, <1>14 DEF StrayRuns, Abort
  <1> QED
    BY <1>1, <1>2, <1>5, <1>6, <1>7, <1>8, <1>9, <1>10, <1>11, <1>12, <1>13, <1>14, Zenon DEF Next

(* Whatever streams and frames there are, a sender that sleeps in Flush    *)
(* alone is not forgotten: only a second sleeper overwrites Wake_.         *)
THEOREM LoneSleepersAreHeard == Spec => []LoneSleeperIsHeard
  <1>1. Init => SleepInv
    BY DEF Init, SleepInv, LoneSleeperIsHeard, Sleepers
  <1>2. TypeOK /\ SleepInv /\ [Next]_vars => SleepInv'
    BY SleepSteps, SleepKept
  <1>3. SleepInv => LoneSleeperIsHeard
    BY DEF SleepInv
  <1> QED
    BY TypeCorrect, <1>1, <1>2, <1>3, PTL DEF Spec
=============================================================================
