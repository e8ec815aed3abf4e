\* A program joins two that play: who opens the connection between it and the member?
SPECIFICATION Spec
CONSTANTS
    N = 3
    Programs = {h, a, c}
    Host = h
    Memberships = {{a}}
    Joiners = {c}
    MaxTurn = 1
    MaxEvents = 1
INVARIANTS
    OneInitiator
CHECK_DEADLOCK FALSE
