SPECIFICATION Spec
CONSTANTS
    r1 = r1
    r2 = r2
    r3 = r3
    b1 = b1
    b2 = b2
    b3 = b3
    Requests <- MCRequests3
    Backends <- MCBackends2
    Attempts = 2
    Slots = 2
    MaxBody = 0
    MaxAnswer = 1
    Unit = 2
    SuccSummand = 1
    FailSummand = 2
    LoWatermark = 1
    HiWatermark = 1
SYMMETRY Symmetry
CHECK_DEADLOCK FALSE
INVARIANTS
    ChargedOnce
    RetryBudget
    Hysteresis
