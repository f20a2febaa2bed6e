SPECIFICATION FairSpec
CONSTANTS
    r1 = r1
    r2 = r2
    Reqs <- MCReqs
    N = 2
    Attempts = 3
    Weight <- MCWeight
    Mul <- MCMul
    Window = 1
INVARIANTS Turns
PROPERTIES AskingEnds Recovers
