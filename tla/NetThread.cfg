\* The capabilities of base::SNetGetProviderCaps.
SPECIFICATION ThreadsFairSpec
CONSTANTS
    TurnsInTransitCap = 2
    TurnsSecCap = 10
    BytesSecCap = 1000000
    MaxPlayersCap = 4
    MaxUpperBits = 2
INVARIANTS
    ThreadsTypeOK
    ExclusiveTurns
    UnlocksBalance
    QuiescentAfterJoin
    UpperBitOnce
    ReceiveCadence
PROPERTIES
    WaitsEnd
