\* Two players may send the state of two levels, and one of them fails.
SPECIFICATION FairSpec
CONSTANTS
    N = 3
    Levels = {l1, l2}
    LevelChunks = 2
    MaxRequests = 3
    MaxFaults = 1
INVARIANTS
    TypeOK
    WholeState
    OffsetsMatch
PROPERTIES
    NobodyBlamed
    TransferEnds
CHECK_DEADLOCK FALSE
