\* One slot, two channels, a message and a foreign packet; a connect-time backfill and an RPC.
SPECIFICATION BackfillSpec
CONSTANTS
    Channels = {a, b}
    Slots = {s}
    Nothing = Nothing
    Texts = {x, y}
    Batch = 1
    MaxMessages = 1
    MaxForeign = 1
    MaxPackets = 2
    MaxRuns = 2
    MaxMoves = 1
    MaxFaults = 1
INVARIANTS
    DecryptedIsRight
PROPERTIES
    LabelsImprove
    NothingOverlooked
CONSTRAINT ForeignFirst
SYMMETRY Symmetric
CHECK_DEADLOCK FALSE
