SPECIFICATION Spec
CONSTANTS
    s1 = s1
    s2 = s2
    NoCont = NoCont
    Senders <- MCSenders1
    Messages <- MCMessages
    MaxInQueue = 2
    MaxAccepted = 8
INVARIANTS
    SleeperHeard
CHECK_DEADLOCK FALSE
