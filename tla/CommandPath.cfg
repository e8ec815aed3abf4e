\* Commands of two lengths; two short ones fill a buffer, and a packet.
SPECIFICATION FairSpec
CONSTANTS
    Sizes = {1, 2}
    BufferSize = 6
    MsgSize = 2
    MaxCommands = 3
    MaxStream = 3
    MaxPackets = 0
INVARIANTS
    TypeOK
PROPERTIES
    ImplementsQueues
    HighPriorityPrompt
    EverythingArrives
CHECK_DEADLOCK FALSE
