\* Bodies of up to two units, answers of two units after the head, two answer
\* units and one client unit under way.
CONSTANTS
    MaxBody = 2
    Answer = 2
    Pipe = 2
    ClientQueue = 1
    Queues <- MCQueues
    KeepAlive = TRUE

SPECIFICATION FairSpec

INVARIANTS
    OrphanNeedsThrow
    MisparsedNeedsCause
    ShortNeedsClose

PROPERTIES
    RunEnds

CHECK_DEADLOCK FALSE
