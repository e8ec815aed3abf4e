\* A program that is gone gives its slot back.
SPECIFICATION FairSpec
CONSTANTS
    N = 2
    Clients = {c1, c2}
    HostConnection = h
    NoConnection = none
    TimeoutConnect = 1
    TimeoutActive = 2
    MaxQueue = 1
    MaxDrops = 0
PROPERTIES
    SlotFreed
CHECK_DEADLOCK FALSE
