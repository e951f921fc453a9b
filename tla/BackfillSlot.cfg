\* A message recorded while its slot changed hands, and an RPC backfill.
SPECIFICATION BackfillSpec
CONSTANTS
    Channels = {a, b}
    Slots = {s}
    Nothing = Nothing
    Texts = {x, y}
    Batch = 1
    MaxMessages = 1
    MaxForeign = 1
    MaxPackets = 2
    MaxRuns = 2
    MaxMoves = 1
    MaxFaults = 1
PROPERTIES
    SlotLabelsUpgraded
CONSTRAINT ForeignFirst
SYMMETRY Symmetric
CHECK_DEADLOCK FALSE
