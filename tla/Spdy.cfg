CONSTANTS
    s1 = s1
    s2 = s2
    Streams <- MCStreams
    Loop = Loop
    NoOne = NoOne

SPECIFICATION FairSpec

INVARIANTS
    ParkedIsHeard

PROPERTIES
    StreamEnds

CHECK_DEADLOCK FALSE
