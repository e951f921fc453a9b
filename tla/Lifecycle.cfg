\* A client that may stall, one that reads, an event stream.
SPECIFICATION LifecycleFairSpec
CONSTANTS
    Clients = {c1, c2}
    Stalling = {c1}
    Streams = {s1}
    QueueMax = 1
    MaxReports = 2
INVARIANTS
    HealthTold
    EndMarked
    ClosedAfterAwaited
PROPERTIES
    ShutdownEnds
CHECK_DEADLOCK FALSE
