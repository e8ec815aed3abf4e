\* A player joins while the sequence numbers wrap, and one program leaves, crashes, is cut
\* off or drops the other.
SPECIFICATION FairSpec
CONSTANTS
    N = 2
    K = 2
    InstantLoopback = TRUE
    SeqMod = 8
    Members = {0}
    FirstTurn = 13
    MaxTurn = 17
    MaxFaults = 1
INVARIANTS
    TypeOK
    OwnWindow
    StaleTold
PROPERTIES
    ImplementsLockstep
    NoGap
    GameGoesOn
CHECK_DEADLOCK FALSE
