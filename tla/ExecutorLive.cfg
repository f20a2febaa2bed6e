SPECIFICATION LiveSpec
CONSTANTS
    c1 = c1
    c2 = c2
    c3 = c3
    fd1 = fd1
    fd2 = fd2
    Conts <- MCConts3
    NoCont = NoCont
    Chans <- MCChans0
    Timer = Timer
    MaxTime = 1
    MaxSpawn = 2
CHECK_DEADLOCK FALSE
PROPERTIES
    ReadyRuns
    DeadlineEnds
