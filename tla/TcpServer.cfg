\* Two programs come and go, time out and are dropped while the other one joins.
SPECIFICATION Spec
CONSTANTS
    N = 3
    Clients = {c1, c2}
    HostConnection = h
    NoConnection = none
    TimeoutConnect = 1
    TimeoutActive = 1
    MaxQueue = 1
    MaxDrops = 1
SYMMETRY Symmetry
INVARIANTS
    TypeOK
    NoDangling
    SlotKept
    PeersAgree
CHECK_DEADLOCK FALSE
