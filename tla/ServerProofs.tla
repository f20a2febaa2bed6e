---------------------------- MODULE ServerProofs ----------------------------
(***************************************************************************)
(* Proofs about Server, for any number of connections and of addresses.    *)
(* One inductive invariant, IInv, carries the safety results: it adds to   *)
(* them that the destructor of the listener has one coroutine in it, and   *)
(* what the pinger knows about the listener where it is in its loop.       *)
(* The last part follows the accept coroutines that the destructor waits   *)
(* for.                                                                    *)
(***************************************************************************)
EXTENDS Server, NaturalsInduction, WellFoundedInduction, TLAPS

(* The pinger is between StopListener and the end of StartListener, or     *)
(* about to wait.                                                          *)
InLoop == pinger \in {"loop", "destroy", "head", "sleep", "ping"}

(* One destructor at a time: the listener is still there for the coroutine *)
(* that destroys it, and nobody else is at it.  Nothing listens without    *)
(* one.                                                                    *)
OneDestroyer ==
    /\ listener = "null" => acc = Nothing
    /\ pinger = "destroy" => listener = "there"
    /\ \A c \in Conns : conn[c] = "destroy" => listener = "there"
    /\ fault = "none" =>
           /\ \A c, d \in Conns : conn[c] = "destroy" /\ conn[d] = "destroy" => c = d
           /\ \A c \in Conns : conn[c] = "destroy" => pinger # "destroy"

(* The listener the pinger will start is there, unless calls overlapped.   *)
PingerHasListener ==
    /\ InLoop /\ ~overlapped => listener = "there"
    /\ ~overlapped => \A c \in Conns : conn[c] = "destroy" => ~InLoop
    /\ pinger = "loop" => authorized

CancelledByAbort == Pinger \in cancelled => aborted

(* WaitsWhileListening, already when the pinger is about to wait.          *)
ListeningInv ==
    pinger \in {"wait", "loop"} /\ ~aborted
        /\ (\A c \in Conns : conn[c] \notin {"destroy", "drain"})
            => \A a \in Addrs : acc[a] = "live"

IInv ==
    /\ TypeOK
    /\ OneDestroyer
    /\ PingerHasListener
    /\ CancelledByAbort
    /\ FaultNeedsOverlap
    /\ RefusedIsNoticed
    /\ NothingAfterDestroy
    /\ ListeningInv

LEMMA InitIInv == Init => IInv
  BY AddrsAssumption, ZenonT(60) DEF Init, IInv, TypeOK, OneDestroyer, PingerHasListener, CancelledByAbort, FaultNeedsOverlap, RefusedIsNoticed, NothingAfterDestroy, ListeningInv, InLoop, PingerStates, ConnStates, Addrs, Pinger

LEMMA StepIInv == IInv /\ [Next]_vars => IInv'
  <1> SUFFICES ASSUME IInv, [Next]_vars PROVE IInv'
    OBVIOUS
  <1> USE DEF IInv
  <1>1. ASSUME NEW a \in Addrs, AcceptEnds(a) PROVE IInv'
    BY <1>1 DEF AcceptEnds, Free, Nothing,
       TypeOK, OneDestroyer, PingerHasListener, CancelledByAbort, FaultNeedsOverlap,
       RefusedIsNoticed, NothingAfterDestroy, ListeningInv, InLoop,
       listenVars, pingVars, connVars, PingerStates, ConnStates, Pinger
  <1>2. ASSUME NEW a \in Addrs, NEW c \in Conns, Accept(a, c) PROVE IInv'
    BY <1>2 DEF Accept, Free,
       TypeOK, OneDestroyer, PingerHasListener, CancelledByAbort, FaultNeedsOverlap,
       RefusedIsNoticed, NothingAfterDestroy, ListeningInv, InLoop,
       listenVars, pingVars, connVars, PingerStates, ConnStates, Pinger
  <1>3. ASSUME NEW c \in Conns, RequestSucceeds(c) PROVE IInv'
    <2>1. TypeOK'
      BY <1>3, ZenonT(60) DEF RequestSucceeds, RegisterSucc, Free,
         TypeOK, listenVars, pingVars, connVars, PingerStates, ConnStates, Pinger
    <2>2. OneDestroyer'
      BY <1>3 DEF RequestSucceeds, RegisterSucc, Free,
         TypeOK, OneDestroyer, PingerHasListener, NothingAfterDestroy, InLoop, listenVars, pingVars, connVars, PingerStates, ConnStates, Pinger
    <2>3. PingerHasListener'
      BY <1>3 DEF RequestSucceeds, RegisterSucc, Free,
         TypeOK, OneDestroyer, PingerHasListener, NothingAfterDestroy, InLoop, listenVars, pingVars, connVars, PingerStates, ConnStates, Pinger
    <2>4. CancelledByAbort'
      BY <1>3 DEF RequestSucceeds, RegisterSucc, Free,
         CancelledByAbort, listenVars, pingVars, connVars, PingerStates, ConnStates, Pinger
    <2>5. FaultNeedsOverlap'
      BY <1>3 DEF RequestSucceeds, RegisterSucc, Free,
         TypeOK, FaultNeedsOverlap, PingerHasListener, NothingAfterDestroy, InLoop, listenVars, pingVars, connVars, PingerStates, ConnStates, Pinger
    <2>6. RefusedIsNoticed'
      <3>1. pinger' = pinger /\ woken' = woken
        BY <1>3 DEF RequestSucceeds
      <3>2. authorized => authorized'
        BY <1>3, Zenon DEF RequestSucceeds, RegisterSucc
      <3> QED
        BY <3>1, <3>2, Zenon DEF RefusedIsNoticed
    <2>7. NothingAfterDestroy'
      BY <1>3 DEF RequestSucceeds, RegisterSucc, Free,
         TypeOK, OneDestroyer, NothingAfterDestroy, listenVars, pingVars, connVars, PingerStates, ConnStates, Pinger
    <2>8. ListeningInv'
      BY <1>3 DEF RequestSucceeds, RegisterSucc, Free,
         TypeOK, ListeningInv, NothingAfterDestroy, listenVars, pingVars, connVars, PingerStates, ConnStates, Pinger
    <2> QED
      BY <2>1, <2>2, <2>3, <2>4, <2>5, <2>6, <2>7, <2>8
  <1>4. ASSUME NEW c \in Conns, RequestFails(c) PROVE IInv'
    <2>1. TypeOK'
      BY <1>4, ZenonT(60) DEF RequestFails, RegisterFail, RefusesNow, Signal, Free,
         TypeOK, listenVars, pingVars, connVars, PingerStates, ConnStates, Pinger
    <2>2. OneDestroyer'
      BY <1>4 DEF RequestFails, RegisterFail, RefusesNow, Signal, Free,
         TypeOK, OneDestroyer, PingerHasListener, NothingAfterDestroy, InLoop, listenVars, pingVars, connVars, PingerStates, ConnStates, Pinger
    <2>3. PingerHasListener'
      BY <1>4 DEF RequestFails, RegisterFail, RefusesNow, Signal, Free,
         TypeOK, OneDestroyer, PingerHasListener, NothingAfterDestroy, InLoop, listenVars, pingVars, connVars, PingerStates, ConnStates, Pinger
    <2>4. CancelledByAbort'
      BY <1>4 DEF RequestFails, RegisterFail, RefusesNow, Signal, Free,
         CancelledByAbort, listenVars, pingVars, connVars, PingerStates, ConnStates, Pinger
    <2>5. FaultNeedsOverlap'
      BY <1>4 DEF RequestFails, RegisterFail, RefusesNow, Signal, Free,
         TypeOK, FaultNeedsOverlap, PingerHasListener, NothingAfterDestroy, InLoop, listenVars, pingVars, connVars, PingerStates, ConnStates, Pinger
    <2>6. RefusedIsNoticed'
      BY <1>4 DEF RequestFails, RegisterFail, RefusesNow, Signal, Free,
         TypeOK, RefusedIsNoticed, PingerHasListener, listenVars, pingVars, connVars, PingerStates, ConnStates, Pinger
    <2>7. NothingAfterDestroy'
      BY <1>4 DEF RequestFails, RegisterFail, RefusesNow, Signal, Free,
         TypeOK, OneDestroyer, NothingAfterDestroy, listenVars, pingVars, connVars, PingerStates, ConnStates, Pinger
    <2>8. ListeningInv'
      BY <1>4 DEF RequestFails, RegisterFail, RefusesNow, Signal, Free,
         TypeOK, ListeningInv, NothingAfterDestroy, listenVars, pingVars, connVars, PingerStates, ConnStates, Pinger
    <2> QED
      BY <2>1, <2>2, <2>3, <2>4, <2>5, <2>6, <2>7, <2>8
  <1>5. ASSUME NEW c \in Conns, ConnectionEnds(c) PROVE IInv'
    BY <1>5 DEF ConnectionEnds, Free,
       TypeOK, OneDestroyer, PingerHasListener, CancelledByAbort, FaultNeedsOverlap,
       RefusedIsNoticed, NothingAfterDestroy, ListeningInv, InLoop,
       listenVars, pingVars, connVars, PingerStates, ConnStates, Pinger
  <1>6. ASSUME NEW c \in Conns, ShutDown(c) PROVE IInv'
    <2>1. TypeOK'
      <3>1. acc' \in [Addrs -> {"none", "bound", "live", "told"}]
        BY <1>6, ZenonT(60) DEF ShutDown, DestroyTwice, DestroyDone, StopFirst, Nothing, TypeOK
      <3>2. overlapped' \in BOOLEAN
        BY <1>6 DEF ShutDown
      <3> QED
        BY <1>6, <3>1, <3>2 DEF ShutDown, DestroyTwice, DestroyDone, TypeOK, ConnStates, pingVars
    <2>2. OneDestroyer'
      <3>1. CASE Destroying
        BY <1>6, <3>1 DEF ShutDown, DestroyTwice, Destroying, Free, TypeOK,
           OneDestroyer, pingVars
      <3>2. CASE ~Destroying
        BY <1>6, <3>2 DEF ShutDown, DestroyTwice, DestroyDone, StopFirst, Nothing,
           Live, Destroying, Free, TypeOK, OneDestroyer, NothingAfterDestroy, pingVars
      <3> QED
        BY <3>1, <3>2
    <2>3. PingerHasListener'
      BY <1>6, Zenon DEF ShutDown, Busy, Destroying, DestroyTwice, DestroyDone, StopFirst, Nothing, Live, Free,
         TypeOK, OneDestroyer, PingerHasListener, NothingAfterDestroy, InLoop, listenVars, pingVars, connVars, PingerStates, ConnStates, Pinger
    <2>4. CancelledByAbort'
      BY <1>6 DEF ShutDown, Busy, Destroying, DestroyTwice, DestroyDone, StopFirst, Nothing, Live, Free,
         CancelledByAbort, listenVars, pingVars, connVars, PingerStates, ConnStates, Pinger
    <2>5. FaultNeedsOverlap'
      BY <1>6, Zenon DEF ShutDown, Busy, Destroying, DestroyTwice, DestroyDone, StopFirst, Nothing, Live, Free,
         TypeOK, FaultNeedsOverlap, PingerHasListener, NothingAfterDestroy, InLoop, listenVars, pingVars, connVars, PingerStates, ConnStates, Pinger
    <2>6. RefusedIsNoticed'
      BY <1>6 DEF ShutDown, Busy, Destroying, DestroyTwice, DestroyDone, StopFirst, Nothing, Live, Free,
         TypeOK, RefusedIsNoticed, PingerHasListener, listenVars, pingVars, connVars, PingerStates, ConnStates, Pinger
    <2>7. NothingAfterDestroy'
      BY <1>6 DEF ShutDown, Busy, Destroying, DestroyTwice, DestroyDone, StopFirst, Nothing, Live, Free,
         TypeOK, OneDestroyer, NothingAfterDestroy, listenVars, pingVars, connVars, PingerStates, ConnStates, Pinger
    <2>8. ListeningInv'
      BY <1>6 DEF ShutDown, Busy, Destroying, DestroyTwice, DestroyDone, StopFirst, Nothing, Live, Free,
         TypeOK, ListeningInv, NothingAfterDestroy, listenVars, pingVars, connVars, PingerStates, ConnStates, Pinger
    <2> QED
      BY <2>1, <2>2, <2>3, <2>4, <2>5, <2>6, <2>7, <2>8
  <1>7. ASSUME NEW c \in Conns, DestroyGoesOn(c) PROVE IInv'
    <2>1. TypeOK'
      <3>1. acc' \in [Addrs -> {"none", "bound", "live", "told"}]
        BY <1>7, Zenon DEF DestroyGoesOn, DestroyDone, StopFirst, Nothing, TypeOK
      <3> QED
        BY <1>7, <3>1 DEF DestroyGoesOn, DestroyDone, TypeOK, ConnStates, pingVars
    <2>2. OneDestroyer'
      BY <1>7 DEF DestroyGoesOn, DestroyDone, StopFirst, Nothing, Live, Free,
         TypeOK, OneDestroyer, PingerHasListener, NothingAfterDestroy, InLoop, listenVars, pingVars, connVars, PingerStates, ConnStates, Pinger
    <2>3. PingerHasListener'
      BY <1>7 DEF DestroyGoesOn, DestroyDone, StopFirst, Nothing, Live, Free,
         TypeOK, OneDestroyer, PingerHasListener, NothingAfterDestroy, InLoop, listenVars, pingVars, connVars, PingerStates, ConnStates, Pinger
    <2>4. CancelledByAbort'
      BY <1>7 DEF DestroyGoesOn, DestroyDone, StopFirst, Nothing, Live, Free,
         CancelledByAbort, listenVars, pingVars, connVars, PingerStates, ConnStates, Pinger
    <2>5. FaultNeedsOverlap'
      BY <1>7 DEF DestroyGoesOn, DestroyDone, StopFirst, Nothing, Live, Free,
         TypeOK, FaultNeedsOverlap, PingerHasListener, NothingAfterDestroy, InLoop, listenVars, pingVars, connVars, PingerStates, ConnStates, Pinger
    <2>6. RefusedIsNoticed'
      BY <1>7 DEF DestroyGoesOn, DestroyDone, StopFirst, Nothing, Live, Free,
         TypeOK, RefusedIsNoticed, PingerHasListener, listenVars, pingVars, connVars, PingerStates, ConnStates, Pinger
    <2>7. NothingAfterDestroy'
      BY <1>7 DEF DestroyGoesOn, DestroyDone, StopFirst, Nothing, Live, Free,
         TypeOK, OneDestroyer, NothingAfterDestroy, listenVars, pingVars, connVars, PingerStates, ConnStates, Pinger
    <2>8. ListeningInv'
      BY <1>7 DEF DestroyGoesOn, DestroyDone, StopFirst, Nothing, Live, Free,
         TypeOK, ListeningInv, NothingAfterDestroy, listenVars, pingVars, connVars, PingerStates, ConnStates, Pinger
    <2> QED
      BY <2>1, <2>2, <2>3, <2>4, <2>5, <2>6, <2>7, <2>8
  <1>8. ASSUME NEW c \in Conns, Tick(c) PROVE IInv'
    BY <1>8, SMTT(60) DEF Tick, Free,
       TypeOK, OneDestroyer, PingerHasListener, CancelledByAbort, FaultNeedsOverlap,
       RefusedIsNoticed, NothingAfterDestroy, ListeningInv, InLoop,
       listenVars, pingVars, connVars, PingerStates, ConnStates, Pinger
  <1>9. ASSUME NEW c \in Conns, DrainEnds(c) PROVE IInv'
    BY <1>9 DEF DrainEnds, Abort, Connections, Free,
       TypeOK, OneDestroyer, PingerHasListener, CancelledByAbort, FaultNeedsOverlap,
       RefusedIsNoticed, NothingAfterDestroy, ListeningInv, InLoop,
       listenVars, pingVars, connVars, PingerStates, ConnStates, Pinger
  <1>10. ASSUME PingerResumes PROVE IInv'
    <2>1. TypeOK'
      BY <1>10, ZenonT(60) DEF PingerResumes, WaitReturns, StopListener, FreshListener, ListenerStarted, Destroying, DestroyTwice, DestroyDone, StopFirst, Nothing, Live, Free,
         TypeOK, listenVars, pingVars, connVars, PingerStates, ConnStates, Pinger
    <2>2. OneDestroyer'
      BY <1>10 DEF PingerResumes, WaitReturns, StopListener, FreshListener, ListenerStarted, Destroying, DestroyTwice, DestroyDone, StopFirst, Nothing, Live, Free,
         TypeOK, OneDestroyer, PingerHasListener, NothingAfterDestroy, InLoop, listenVars, pingVars, connVars, PingerStates, ConnStates, Pinger
    <2>3. PingerHasListener'
      BY <1>10, Zenon DEF PingerResumes, WaitReturns, StopListener, FreshListener, ListenerStarted, Destroying, DestroyTwice, DestroyDone, StopFirst, Nothing, Live, Free,
         TypeOK, OneDestroyer, PingerHasListener, NothingAfterDestroy, InLoop, listenVars, pingVars, connVars, PingerStates, ConnStates, Pinger
    <2>4. CancelledByAbort'
      BY <1>10 DEF PingerResumes, WaitReturns, StopListener, FreshListener, ListenerStarted, Destroying, DestroyTwice, DestroyDone, StopFirst, Nothing, Live, Free,
         CancelledByAbort, listenVars, pingVars, connVars, PingerStates, ConnStates, Pinger
    <2>5. FaultNeedsOverlap'
      BY <1>10, Zenon DEF PingerResumes, WaitReturns, StopListener, FreshListener, ListenerStarted, Destroying, DestroyTwice, DestroyDone, StopFirst, Nothing, Live, Free,
         TypeOK, FaultNeedsOverlap, PingerHasListener, NothingAfterDestroy, InLoop, listenVars, pingVars, connVars, PingerStates, ConnStates, Pinger
    <2>6. RefusedIsNoticed'
      BY <1>10 DEF PingerResumes, WaitReturns, StopListener, FreshListener, ListenerStarted, Destroying, DestroyTwice, DestroyDone, StopFirst, Nothing, Live, Free,
         TypeOK, RefusedIsNoticed, PingerHasListener, listenVars, pingVars, connVars, PingerStates, ConnStates, Pinger
    <2>7. NothingAfterDestroy'
      BY <1>10 DEF PingerResumes, WaitReturns, StopListener, FreshListener, ListenerStarted, Destroying, DestroyTwice, DestroyDone, StopFirst, Nothing, Live, Free,
         TypeOK, OneDestroyer, NothingAfterDestroy, listenVars, pingVars, connVars, PingerStates, ConnStates, Pinger
    <2>8. ListeningInv'
      BY <1>10 DEF PingerResumes, WaitReturns, StopListener, FreshListener, ListenerStarted, Destroying, DestroyTwice, DestroyDone, StopFirst, Nothing, Live, Free,
         TypeOK, ListeningInv, NothingAfterDestroy, listenVars, pingVars, connVars, PingerStates, ConnStates, Pinger
    <2> QED
      BY <2>1, <2>2, <2>3, <2>4, <2>5, <2>6, <2>7, <2>8
  <1>11. ASSUME PingerWaits PROVE IInv'
    <2>1. TypeOK'
      BY <1>11, ZenonT(60) DEF PingerWaits, WaitReturns, StopListener, FreshListener, ListenerStarted, Destroying, DestroyTwice, DestroyDone, StopFirst, Nothing, Live, Free,
         TypeOK, listenVars, pingVars, connVars, PingerStates, ConnStates, Pinger
    <2>2. OneDestroyer'
      BY <1>11 DEF PingerWaits, WaitReturns, StopListener, FreshListener, ListenerStarted, Destroying, DestroyTwice, DestroyDone, StopFirst, Nothing, Live, Free,
         TypeOK, OneDestroyer, PingerHasListener, NothingAfterDestroy, InLoop, listenVars, pingVars, connVars, PingerStates, ConnStates, Pinger
    <2>3. PingerHasListener'
      BY <1>11 DEF PingerWaits, WaitReturns, StopListener, FreshListener, ListenerStarted, Destroying, DestroyTwice, DestroyDone, StopFirst, Nothing, Live, Free,
         TypeOK, OneDestroyer, PingerHasListener, NothingAfterDestroy, InLoop, listenVars, pingVars, connVars, PingerStates, ConnStates, Pinger
    <2>4. CancelledByAbort'
      BY <1>11 DEF PingerWaits, WaitReturns, StopListener, FreshListener, ListenerStarted, Destroying, DestroyTwice, DestroyDone, StopFirst, Nothing, Live, Free,
         CancelledByAbort, listenVars, pingVars, connVars, PingerStates, ConnStates, Pinger
    <2>5. FaultNeedsOverlap'
      BY <1>11 DEF PingerWaits, WaitReturns, StopListener, FreshListener, ListenerStarted, Destroying, DestroyTwice, DestroyDone, StopFirst, Nothing, Live, Free,
         TypeOK, FaultNeedsOverlap, PingerHasListener, NothingAfterDestroy, InLoop, listenVars, pingVars, connVars, PingerStates, ConnStates, Pinger
    <2>6. RefusedIsNoticed'
      BY <1>11 DEF PingerWaits, WaitReturns, StopListener, FreshListener, ListenerStarted, Destroying, DestroyTwice, DestroyDone, StopFirst, Nothing, Live, Free,
         TypeOK, RefusedIsNoticed, PingerHasListener, listenVars, pingVars, connVars, PingerStates, ConnStates, Pinger
    <2>7. NothingAfterDestroy'
      BY <1>11, SMTT(60) DEF PingerWaits, WaitReturns, StopListener, FreshListener, ListenerStarted, Destroying, DestroyTwice, DestroyDone, StopFirst, Nothing, Live, Free,
         TypeOK, OneDestroyer, NothingAfterDestroy, listenVars, pingVars, connVars, PingerStates, ConnStates, Pinger
    <2>8. ListeningInv'
      BY <1>11 DEF PingerWaits, WaitReturns, StopListener, FreshListener, ListenerStarted, Destroying, DestroyTwice, DestroyDone, StopFirst, Nothing, Live, Free,
         TypeOK, ListeningInv, NothingAfterDestroy, listenVars, pingVars, connVars, PingerStates, ConnStates, Pinger
    <2> QED
      BY <2>1, <2>2, <2>3, <2>4, <2>5, <2>6, <2>7, <2>8
  <1>12. ASSUME PingerGoesOn PROVE IInv'
    <2>1. TypeOK'
      BY <1>12, ZenonT(60) DEF PingerGoesOn, FreshListener, DestroyDone, StopFirst, Nothing, Live, Free,
         TypeOK, listenVars, pingVars, connVars, PingerStates, ConnStates, Pinger
    <2>2. OneDestroyer'
      BY <1>12 DEF PingerGoesOn, FreshListener, DestroyDone, StopFirst, Nothing, Live, Free,
         TypeOK, OneDestroyer, PingerHasListener, NothingAfterDestroy, InLoop, listenVars, pingVars, connVars, PingerStates, ConnStates, Pinger
    <2>3. PingerHasListener'
      BY <1>12 DEF PingerGoesOn, FreshListener, DestroyDone, StopFirst, Nothing, Live, Free,
         TypeOK, OneDestroyer, PingerHasListener, NothingAfterDestroy, InLoop, listenVars, pingVars, connVars, PingerStates, ConnStates, Pinger
    <2>4. CancelledByAbort'
      BY <1>12 DEF PingerGoesOn, FreshListener, DestroyDone, StopFirst, Nothing, Live, Free,
         CancelledByAbort, listenVars, pingVars, connVars, PingerStates, ConnStates, Pinger
    <2>5. FaultNeedsOverlap'
      BY <1>12 DEF PingerGoesOn, FreshListener, DestroyDone, StopFirst, Nothing, Live, Free,
         TypeOK, FaultNeedsOverlap, PingerHasListener, NothingAfterDestroy, InLoop, listenVars, pingVars, connVars, PingerStates, ConnStates, Pinger
    <2>6. RefusedIsNoticed'
      BY <1>12 DEF PingerGoesOn, FreshListener, DestroyDone, StopFirst, Nothing, Live, Free,
         TypeOK, RefusedIsNoticed, PingerHasListener, listenVars, pingVars, connVars, PingerStates, ConnStates, Pinger
    <2>7. NothingAfterDestroy'
      BY <1>12 DEF PingerGoesOn, FreshListener, DestroyDone, StopFirst, Nothing, Live, Free,
         TypeOK, OneDestroyer, NothingAfterDestroy, listenVars, pingVars, connVars, PingerStates, ConnStates, Pinger
    <2>8. ListeningInv'
      BY <1>12 DEF PingerGoesOn, FreshListener, DestroyDone, StopFirst, Nothing, Live, Free,
         TypeOK, ListeningInv, NothingAfterDestroy, listenVars, pingVars, connVars, PingerStates, ConnStates, Pinger
    <2> QED
      BY <2>1, <2>2, <2>3, <2>4, <2>5, <2>6, <2>7, <2>8
  <1>13. ASSUME PingerChecks PROVE IInv'
    <2>1. TypeOK'
      BY <1>13, ZenonT(60) DEF PingerChecks, StartListener, Listening, Nothing,
         TypeOK, listenVars, pingVars, connVars, PingerStates, ConnStates, Pinger
    <2>2. OneDestroyer'
      BY <1>13 DEF PingerChecks, StartListener, Listening, Nothing,
         TypeOK, OneDestroyer, PingerHasListener, NothingAfterDestroy, InLoop, listenVars, pingVars, connVars, PingerStates, ConnStates, Pinger
    <2>3. PingerHasListener'
      BY <1>13 DEF PingerChecks, StartListener, Listening, Nothing,
         TypeOK, OneDestroyer, PingerHasListener, NothingAfterDestroy, InLoop, listenVars, pingVars, connVars, PingerStates, ConnStates, Pinger
    <2>4. CancelledByAbort'
      BY <1>13 DEF PingerChecks, StartListener, Listening, Nothing,
         CancelledByAbort, listenVars, pingVars, connVars, PingerStates, ConnStates, Pinger
    <2>5. FaultNeedsOverlap'
      BY <1>13 DEF PingerChecks, StartListener, Listening, Nothing,
         TypeOK, FaultNeedsOverlap, PingerHasListener, NothingAfterDestroy, InLoop, listenVars, pingVars, connVars, PingerStates, ConnStates, Pinger
    <2>6. RefusedIsNoticed'
      BY <1>13 DEF PingerChecks, StartListener, Listening, Nothing,
         TypeOK, RefusedIsNoticed, PingerHasListener, listenVars, pingVars, connVars, PingerStates, ConnStates, Pinger
    <2>7. NothingAfterDestroy'
      BY <1>13 DEF PingerChecks, StartListener, Listening, Nothing,
         TypeOK, OneDestroyer, NothingAfterDestroy, listenVars, pingVars, connVars, PingerStates, ConnStates, Pinger
    <2>8. ListeningInv'
      BY <1>13 DEF PingerChecks, StartListener, Listening, Nothing,
         TypeOK, ListeningInv, NothingAfterDestroy, listenVars, pingVars, connVars, PingerStates, ConnStates, Pinger
    <2> QED
      BY <2>1, <2>2, <2>3, <2>4, <2>5, <2>6, <2>7, <2>8
  <1>14. ASSUME PingerPings PROVE IInv'
    BY <1>14, SMTT(60) DEF PingerPings, Free,
       TypeOK, OneDestroyer, PingerHasListener, CancelledByAbort, FaultNeedsOverlap,
       RefusedIsNoticed, NothingAfterDestroy, ListeningInv, InLoop,
       listenVars, pingVars, connVars, PingerStates, ConnStates, Pinger
  <1>15. ASSUME NEW ok \in BOOLEAN, PingEnds(ok) PROVE IInv'
    BY <1>15, ZenonT(60) DEF PingEnds, RegisterSucc, RegisterFail, Free,
       TypeOK, OneDestroyer, PingerHasListener, CancelledByAbort, FaultNeedsOverlap,
       RefusedIsNoticed, NothingAfterDestroy, ListeningInv, InLoop,
       listenVars, pingVars, connVars, PingerStates, ConnStates, Pinger
  <1>16. ASSUME PingerSpins PROVE IInv'
    BY <1>16 DEF PingerSpins, Free,
       TypeOK, OneDestroyer, PingerHasListener, CancelledByAbort, FaultNeedsOverlap,
       RefusedIsNoticed, NothingAfterDestroy, ListeningInv, InLoop,
       listenVars, pingVars, connVars, PingerStates, ConnStates, Pinger
  <1>17. ASSUME NEW c \in Conns, Hold(c) \/ Release(c) \/ LeaveStray(c) PROVE IInv'
    <2>1. PICK to \in {"run", "held", "stray"} :
              conn' = [conn EXCEPT ![c] = to] /\ conn[c] \in {"run", "held"}
      BY <1>17 DEF Hold, Release, LeaveStray
    <2>2. UNCHANGED <<listenVars, pingVars, late, cancelled, aborted>>
      BY <1>17 DEF Hold, Release, LeaveStray
    <2> QED
      BY <2>1, <2>2 DEF TypeOK, OneDestroyer, PingerHasListener, CancelledByAbort,
         FaultNeedsOverlap, RefusedIsNoticed, NothingAfterDestroy, ListeningInv, InLoop,
         listenVars, pingVars, PingerStates, ConnStates, Pinger, Nothing
  <1>18. ASSUME NEW c \in Conns, HeldSpins(c) PROVE IInv'
    BY <1>18 DEF HeldSpins, Free,
       TypeOK, OneDestroyer, PingerHasListener, CancelledByAbort, FaultNeedsOverlap,
       RefusedIsNoticed, NothingAfterDestroy, ListeningInv, InLoop,
       listenVars, pingVars, connVars, PingerStates, ConnStates, Pinger, Nothing
  <1>19. ASSUME UNCHANGED vars PROVE IInv'
    BY <1>19 DEF vars, listenVars, pingVars, connVars, TypeOK, OneDestroyer, PingerHasListener, CancelledByAbort, FaultNeedsOverlap,
       RefusedIsNoticed, NothingAfterDestroy, ListeningInv, InLoop, Nothing
  <1> QED
    BY <1>1, <1>2, <1>3, <1>4, <1>5, <1>6, <1>7, <1>8, <1>9, <1>10, <1>11, <1>12, <1>13, <1>14, <1>15, <1>16, <1>17,
       <1>18, <1>19
    DEF Next, ConnectionNext, PingerNext

LEMMA Invariance == Spec => []IInv
  <1>1. Init => IInv
    BY InitIInv
  <1>2. IInv /\ [Next]_vars => IInv'
    BY StepIInv
  <1> QED
    BY <1>1, <1>2, PTL DEF Spec

-----------------------------------------------------------------------------
(* Every variable keeps its type.                                          *)
THEOREM TypeCorrect == Spec => []TypeOK
  <1>1. IInv => TypeOK
    BY DEF IInv
  <1> QED
    BY <1>1, Invariance, PTL

(* The listener is destroyed twice, used after it was destroyed, or the    *)
(* cancelled pinger spins, only where DoShutDown and the pinger's          *)
(* StopListener ... StartListener, or two DoShutDown, overlap.             *)
THEOREM FaultsNeedOverlap == Spec => []FaultNeedsOverlap
  <1>1. IInv => FaultNeedsOverlap
    BY DEF IInv
  <1> QED
    BY <1>1, Invariance, PTL

(* TMyEvent loses no signal the pinger depends on: while it waits and has  *)
(* not been woken the arbiter authorizes requests.                         *)
THEOREM RefusalsAreNoticed == Spec => []RefusedIsNoticed
  <1>1. IInv => RefusedIsNoticed
    BY DEF IInv
  <1> QED
    BY <1>1, Invariance, PTL

(* After DoShutDown has destroyed the listener nothing listens any more.   *)
THEOREM NothingListensAfterDestroy == Spec => []NothingAfterDestroy
  <1>1. IInv => NothingAfterDestroy
    BY DEF IInv
  <1> QED
    BY <1>1, Invariance, PTL

(* The pinger goes back to waiting only when all addresses are listened    *)
(* on, and they stay so until it wakes or somebody shuts the server down.  *)
THEOREM ListensWhileWaiting == Spec => []WaitsWhileListening
  <1>1. IInv => WaitsWhileListening
    BY DEF IInv, ListeningInv, WaitsWhileListening, Live
  <1> QED
    BY <1>1, Invariance, PTL

(* DoShutDown never finds its connection list empty, because the caller's  *)
(* own connection is in it: it always waits for its deadline.              *)
THEOREM ShutdownLastsToDeadline == Spec => DrainLasts
  <1>1. TypeOK /\ [Next]_vars => [DrainStep]_vars
    <2> SUFFICES ASSUME TypeOK, [Next]_vars,
                        NEW c \in Conns, conn[c] = "drain", conn'[c] = "run"
                 PROVE  late[c]
      BY DEF DrainStep
    <2>1. CASE DrainEnds(c)
      BY <2>1 DEF DrainEnds, Drained, Connections
    <2>2. CASE Next /\ ~DrainEnds(c)
      <3>1. ASSUME NEW d \in Conns, DrainEnds(d), d # c PROVE conn'[c] = conn[c]
        BY <3>1 DEF DrainEnds, TypeOK
      <3>2. ASSUME NEW d \in Conns, ConnectionNext(d), ~DrainEnds(d) PROVE FALSE
        BY <3>2 DEF ConnectionNext, RequestSucceeds, RequestFails, Hold, Release,
           LeaveStray, HeldSpins, ConnectionEnds, ShutDown, DestroyGoesOn, Tick,
           connVars, ConnStates, TypeOK
      <3>3. ASSUME NEW a \in Addrs, AcceptEnds(a) \/ \E d \in Conns : Accept(a, d)
            PROVE  FALSE
        BY <3>3 DEF AcceptEnds, Accept, connVars, TypeOK
      <3>4. ASSUME PingerNext PROVE FALSE
        BY <3>4 DEF PingerNext, PingerResumes, PingerWaits, PingerGoesOn,
           PingerChecks, PingerPings, PingEnds, PingerSpins, connVars
      <3> QED
        BY <2>2, <3>1, <3>2, <3>3, <3>4 DEF Next
    <2>3. CASE UNCHANGED vars
      BY <2>3 DEF vars, connVars
    <2> QED
      BY <2>1, <2>2, <2>3
  <1> QED
    BY <1>1, TypeCorrect, PTL DEF Spec, DrainLasts

-----------------------------------------------------------------------------
(* The destructor of the listener and the coroutines it waits for.         *)

(* A coroutine that was told to stop has somebody in the destructor who    *)
(* waits for it; the pinger pings with every address closed, and nobody    *)
(* destroys what it is about to start.                                     *)
StopInv ==
    fault = "none" =>
        /\ Told # {} => Destroying
        /\ pinger \in {"head", "sleep", "ping"} => \A a \in Addrs : acc[a] = "none"
        /\ \A c \in Conns : conn[c] = "destroy" => ~InLoop

(* An accept coroutine is told to stop and ends itself, its object is not  *)
(* deleted under it; and nothing begins to listen while the destructor is  *)
(* at work, so that it comes to an end.                                    *)
StopStep ==
    \A a \in Addrs :
        /\ acc[a] = "live" => acc'[a] \in {"live", "told"}
        /\ acc[a] = "told" => acc'[a] = "told" \/ AcceptEnds(a)
        /\ Destroying /\ acc'[a] = "live" => acc[a] = "live"

StopsInOrder == [][StopStep]_vars

(* StopFirst finds an address.                                             *)
LEMMA FirstLive ==
    ASSUME Live # {}
    PROVE  \E a \in Live : \A b \in Live : a <= b
  <1>1. Live \subseteq Nat
    BY AddrsAssumption DEF Live, Addrs
  <1>2. \A x, y \in Nat : y < x => <<y, x>> \in OpToRel(<, Nat)
    BY DEF OpToRel
  <1>3. PICK R : /\ IsWellFoundedOn(R, Nat)
                 /\ \A x, y \in Nat : y < x => <<y, x>> \in R
    BY <1>2, NatLessThanWellFounded
  <1>4. PICK a \in Live : \A b \in Live : <<b, a>> \notin R
    BY <1>1, <1>3, WFMin
  <1>5. \A b \in Live : ~(b < a)
    BY <1>1, <1>3, <1>4
  <1> QED
    BY <1>1, <1>5

(* It is told to stop, and nothing begins to listen or stops at once.      *)
LEMMA StopFirstStops ==
    ASSUME TypeOK, Live # {}, StopFirst
    PROVE  \A a \in Addrs :
               /\ acc[a] = "live" => acc'[a] \in {"live", "told"}
               /\ acc'[a] = "live" => acc[a] = "live"
  <1> DEFINE first == CHOOSE a \in Live : \A b \in Live : a <= b
  <1>2. first \in Live /\ \A b \in Live : first <= b
    BY FirstLive
  <1> HIDE DEF first
  <1>3. acc' = [a \in Addrs |-> IF a < first THEN "none"
                                ELSE IF a = first THEN "told" ELSE acc[a]]
    BY DEF StopFirst, first
  <1>4. \A a \in Addrs : a < first => acc[a] # "live"
    BY <1>2, AddrsAssumption DEF Live, Addrs
  <1> QED
    BY <1>2, <1>3, <1>4 DEF TypeOK, Live

(* At the start nobody has been told to stop.                              *)
LEMMA StopInvInit == Init => StopInv
  BY Zenon DEF Init, StopInv, Told, Destroying, InLoop

(* Only whoever is in the destructor tells a coroutine to stop, and        *)
(* leaves it when none is left.                                            *)
LEMMA StopInvStep == IInv /\ StopInv /\ [Next]_vars => StopInv'
  <1> SUFFICES ASSUME IInv, StopInv, [Next]_vars, fault' = "none"
               PROVE  StopInv'
    BY DEF StopInv
  <1> USE DEF Told, Destroying, InLoop, listenVars, pingVars, connVars, StopInv
  <1>0. TypeOK
    BY DEF IInv
  <1>1. ASSUME NEW a \in Addrs, AcceptEnds(a) PROVE StopInv'
    BY <1>0, <1>1 DEF AcceptEnds, Free, TypeOK
  <1>2. ASSUME NEW a \in Addrs, NEW c \in Conns, Accept(a, c) PROVE StopInv'
    BY <1>0, <1>2 DEF Accept, Free, TypeOK
  <1>3. ASSUME NEW c \in Conns,
               RequestSucceeds(c) \/ RequestFails(c) \/ ConnectionEnds(c)
                   \/ Tick(c) \/ DrainEnds(c)
        PROVE StopInv'
    BY <1>0, <1>3 DEF RequestSucceeds, RequestFails, ConnectionEnds, Tick, DrainEnds,
       Free, TypeOK
  <1>11. ASSUME NEW c \in Conns,
                Hold(c) \/ Release(c) \/ LeaveStray(c) \/ HeldSpins(c)
         PROVE StopInv'
    BY <1>0, <1>11 DEF Hold, Release, LeaveStray, HeldSpins, Free, ConnStates, TypeOK
  <1>4. ASSUME NEW c \in Conns, ShutDown(c) PROVE StopInv'
    <2>1. CASE DestroyDone("null")
      BY <1>0, <1>4, <2>1 DEF ShutDown, DestroyTwice, DestroyDone, Nothing, Free, TypeOK
    <2>2. CASE ~Destroying /\ Live # {} /\ conn' = [conn EXCEPT ![c] = "destroy"]
      BY <1>0, <1>4, <2>2 DEF ShutDown, Live, Free, TypeOK
    <2> QED
      BY <1>4, <2>1, <2>2 DEF ShutDown, DestroyTwice
  <1>5. ASSUME NEW c \in Conns, DestroyGoesOn(c) PROVE StopInv'
    BY <1>0, <1>5 DEF DestroyGoesOn, DestroyDone, Nothing, Free, TypeOK
  <1>6. ASSUME PingerResumes \/ PingerWaits PROVE StopInv'
    BY <1>0, <1>6 DEF PingerResumes, PingerWaits, WaitReturns, StopListener,
       DestroyTwice, DestroyDone, Nothing, Free, TypeOK
  <1>7. ASSUME PingerGoesOn PROVE StopInv'
    BY <1>0, <1>7 DEF PingerGoesOn, DestroyDone, Nothing, Free, TypeOK
  <1>8. ASSUME PingerChecks PROVE StopInv'
    BY <1>0, <1>8 DEF PingerChecks, StartListener, Listening, TypeOK
  <1>9. ASSUME PingerPings \/ (\E ok \in BOOLEAN : PingEnds(ok)) \/ PingerSpins
        PROVE StopInv'
    BY <1>0, <1>9 DEF PingerPings, PingEnds, PingerSpins, Free, TypeOK
  <1>10. ASSUME UNCHANGED vars PROVE StopInv'
    BY <1>10 DEF vars
  <1> QED
    BY <1>1, <1>2, <1>3, <1>4, <1>5, <1>6, <1>7, <1>8, <1>9, <1>10, <1>11
    DEF Next, ConnectionNext, PingerNext

(* What each step does to the accept coroutines.                           *)
LEMMA StopStepHolds == IInv /\ StopInv /\ [Next]_vars => [StopStep]_vars
  <1> SUFFICES ASSUME IInv, StopInv, Next PROVE StopStep
    OBVIOUS
  <1> USE DEF Told, Destroying, InLoop, listenVars, pingVars, connVars
  <1>0. TypeOK
    BY DEF IInv
  <1>1. ASSUME NEW a \in Addrs, AcceptEnds(a) PROVE StopStep
    BY <1>0, <1>1 DEF AcceptEnds, StopStep, TypeOK
  <1>2. ASSUME acc' = acc PROVE StopStep
    BY <1>2 DEF StopStep
  <1>3. ASSUME Live = {}, fault = "none", Told = {}, acc' = Nothing PROVE StopStep
    BY <1>3 DEF StopStep, Live, Nothing
  <1>4. ASSUME Told = {}, Live # {}, StopFirst PROVE StopStep
    BY <1>0, <1>4, StopFirstStops DEF StopStep
  <1>5. ASSUME NEW c \in Conns, ShutDown(c) PROVE StopStep
    BY <1>5, <1>2, <1>3, <1>4 DEF ShutDown, DestroyTwice, DestroyDone, StopInv, Free
  <1>6. ASSUME NEW c \in Conns, DestroyGoesOn(c) PROVE StopStep
    BY <1>6, <1>3, <1>4 DEF DestroyGoesOn, DestroyDone, Free
  <1>7. ASSUME PingerResumes \/ PingerWaits PROVE StopStep
    BY <1>7, <1>2, <1>3, <1>4 DEF PingerResumes, PingerWaits, WaitReturns,
       StopListener, DestroyTwice, DestroyDone, StopInv, Free
  <1>8. ASSUME PingerGoesOn PROVE StopStep
    BY <1>8, <1>3, <1>4 DEF PingerGoesOn, DestroyDone, Free
  <1>9. ASSUME PingerChecks PROVE StopStep
    BY <1>0, <1>2, <1>9 DEF PingerChecks, StartListener, StopInv, StopStep, TypeOK
  <1>10. ASSUME NEW c \in Conns, NEW a \in Addrs,
                Accept(a, c) \/ RequestSucceeds(c) \/ RequestFails(c)
                    \/ ConnectionEnds(c) \/ Tick(c) \/ DrainEnds(c)
                    \/ Hold(c) \/ Release(c) \/ LeaveStray(c) \/ HeldSpins(c)
         PROVE StopStep
    BY <1>10, <1>2 DEF Accept, RequestSucceeds, RequestFails, ConnectionEnds, Tick,
       DrainEnds, Hold, Release, LeaveStray, HeldSpins
  <1>11. ASSUME PingerPings \/ (\E ok \in BOOLEAN : PingEnds(ok)) \/ PingerSpins
         PROVE StopStep
    BY <1>11, <1>2 DEF PingerPings, PingEnds, PingerSpins
  <1>12. 1 \in Addrs
    BY AddrsAssumption DEF Addrs
  <1> QED
    BY <1>1, <1>5, <1>6, <1>7, <1>8, <1>9, <1>10, <1>11, <1>12
    DEF Next, ConnectionNext, PingerNext

(* TOneSocketListener::Stop waits for the coroutine of the object that is  *)
(* deleted.  No call of the pinger or of DoShutDown, overlapping or not,   *)
(* deletes such an object under its coroutine or adds one to a listener    *)
(* that is being destroyed, up to the second destructor in the same object *)
(* that an overlap can bring (FaultNeedsOverlap), where the model stops.   *)
THEOREM AcceptorsEndThemselves == Spec => StopsInOrder
  <1>1. Init => StopInv
    BY StopInvInit
  <1>2. IInv /\ StopInv /\ [Next]_vars => StopInv'
    BY StopInvStep
  <1>3. IInv /\ StopInv /\ [Next]_vars => [StopStep]_vars
    BY StopStepHolds
  <1> QED
    BY <1>1, <1>2, <1>3, Invariance, PTL DEF Spec, StopsInOrder
=============================================================================
