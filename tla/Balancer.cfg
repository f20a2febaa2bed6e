SPECIFICATION Spec
CONSTANTS
    r1 = r1
    r2 = r2
    r3 = r3
    b1 = b1
    b2 = b2
    b3 = b3
    Requests <- MCRequests1
    Backends <- MCBackends3
    Attempts = 4
    Slots = 4
    MaxBody = 3
    MaxAnswer = 2
    Unit = 2
    SuccSummand = 1
    FailSummand = 1
    LoWatermark = 1
    HiWatermark = 1
CHECK_DEADLOCK FALSE
INVARIANTS
    FullReplay
    OneVoice
    FreshBackends
PROPERTIES
    KeepsContract
