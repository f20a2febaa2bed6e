SPECIFICATION Spec
CONSTANTS
    c1 = c1
    c2 = c2
    c3 = c3
    fd1 = fd1
    fd2 = fd2
    Conts <- MCConts3
    NoCont = NoCont
    Chans <- MCChans1
    Timer = Timer
    MaxTime = 1
    MaxSpawn = 2
SYMMETRY Symmetry
CHECK_DEADLOCK FALSE
INVARIANTS
    OnePlace
    NoneForgotten
    NoLostWakeup
    NoDanglingEvent
    NoEarlyTimeout
