\* A program joins one or two that play, and a program leaves, crashes or gives up.
SPECIFICATION Spec
CONSTANTS
    N = 3
    Programs = {h, a, b, c}
    Host = h
    Memberships = {{a}, {a, b}}
    Joiners = {c}
    MaxTurn = 2
    MaxEvents = 1
INVARIANTS
    TypeOK
    NothingLost
    MeshComplete
CHECK_DEADLOCK FALSE
