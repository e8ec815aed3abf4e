\* A third player joins while one of the two players lags behind.
SPECIFICATION Spec
CONSTANTS
    N = 3
    K = 2
    InstantLoopback = TRUE
    SeqMod = 16
    Members = {0, 1}
    FirstTurn = 15
    MaxTurn = 16
    MaxFaults = 0
INVARIANTS
    DeltaRequest
CHECK_DEADLOCK FALSE
