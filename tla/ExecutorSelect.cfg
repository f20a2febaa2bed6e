SPECIFICATION Spec
CONSTANTS
    c1 = c1
    c2 = c2
    c3 = c3
    fd1 = fd1
    fd2 = fd2
    Conts <- MCConts2
    NoCont = NoCont
    Chans <- MCChans2
    Timer = Timer
    MaxTime = 2
    MaxSpawn = 2
SYMMETRY Symmetry
CHECK_DEADLOCK FALSE
PROPERTY
    ResultsAreTruthful
