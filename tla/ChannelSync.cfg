\* Two channels and two slots: they move, swap, leave and come back.
SPECIFICATION SyncFairSpec
CONSTANTS
    Channels = {a, b}
    NoChannel = NoChannel
    MaxSlots = 2
    MaxSets = 2
    MaxFaults = 2
    MaxReads = 1
INVARIANTS
    SyncTypeOK
    SyncedWhenQuiet
PROPERTIES
    SyncedInTheEnd
CHECK_DEADLOCK FALSE
