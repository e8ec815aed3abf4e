\* A program joins two that play; one of the three ends, or one command disturbs the join.
SPECIFICATION Spec
CONSTANTS
    N = 3
    Members = {0, 2}
    Chunks = 2
    MaxLives = 2
    MaxCommands = 1
    MaxFaults = 1
INVARIANTS
    TypeOK
    ActiveCount
    LostByDiscardOnly
    GoneWhenQuiet
    OneCharacter
CHECK_DEADLOCK FALSE
