SPECIFICATION Spec
CONSTANTS
    s1 = s1
    s2 = s2
    NoCont = NoCont
    Senders <- MCSenders2
    Messages <- MCMessages
    MaxInQueue = 2
    MaxAccepted = 8
SYMMETRY Symmetry
INVARIANTS
    StreamIntact
    BackPressure
    QueuedIsScheduled
    NoStrayWake
PROPERTIES
    FlushedMeansWritten
CHECK_DEADLOCK FALSE
