SPECIFICATION FairSpec
CONSTANTS
    c1 = c1
    c2 = c2
    c3 = c3
    Conns <- MCConns3
    NAddrs = 2
CHECK_DEADLOCK FALSE
INVARIANTS
    FaultNeedsOverlap
    RefusedIsNoticed
    NothingAfterDestroy
PROPERTIES
    DrainLasts
    ShutdownEnds
    ListensAgain
