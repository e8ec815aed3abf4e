SPECIFICATION Spec
CONSTANTS
    N = 2
    Members = {0}
    Chunks = 2
    MaxLives = 1
    MaxCommands = 1
    MaxFaults = 1
INVARIANTS
    KnownWhenQuiet
CHECK_DEADLOCK FALSE
