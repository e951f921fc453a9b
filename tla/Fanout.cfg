\* Two clients that read and one that may stall; overlapping broadcasts.
SPECIFICATION FanoutFairSpec
CONSTANTS
    Clients = {c1, c2, c3}
    Stalling = {c1}
    HighWater = 0
    Overlap = 2
    MaxFrames = 2
    MaxDeaths = 1
INVARIANTS
    BroadcastComplete
    InOrder
PROPERTIES
    LibraryFed
    ImplementsPushMail
CHECK_DEADLOCK FALSE
