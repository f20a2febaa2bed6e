----------------------------- MODULE MCExecutor -----------------------------
(* Small instances of the coroutine engine.                                *)
EXTENDS Executor, TLC

CONSTANTS c1, c2, c3, fd1, fd2

MCConts2 == {c1, c2}
MCConts3 == {c1, c2, c3}
MCChans0 == {}
MCChans1 == {fd1}
MCChans2 == {fd1, fd2}

(* The coroutines start out alike, and Init picks the first one from all   *)
(* of them: any permutation of them is a symmetry, as is any permutation   *)
(* of the channels.                                                        *)
Symmetry == Permutations(Conts) \cup Permutations(Chans)

(* Coroutines that wait on events and wake each other, the first of which  *)
(* is c1, for liveness.                                                    *)
LiveInit == Init /\ Ready = <<c1>>

LiveNext ==
    \/ \E d \in Conts : Create(d) \/ Wake(d)
    \/ WaitD \/ Exit
    \/ SchedulerStep \/ Tick

LiveSpec == LiveInit /\ [][LiveNext]_vars /\ Fairness
=============================================================================
