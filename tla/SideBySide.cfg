\* The components that keep or read records, and the parser.
SPECIFICATION SideBySideSpec
CONSTANTS
    Contacts = {k1, k2}
    MaxMod = 2
    MaxWire = 1
    MaxJobs = 2
    MaxFaults = 1
    Peers = {p1}
    MaxNow = 3
    MaxCrashes = 2
    Packets = {m1, m2, m3}
    Snrs = {1, 2}
    NoSnr = NoSnr
    HourLength = 2
    Keep = 1
    Batch = 1
    MaxClock = 3
    MaxFailures = 1
    Start = 1
    Radix = 3
    MaxFrame = 2
    MaxChunk = 3
    MaxStream = 8
    MaxRows = 4
    MaxStamp = 2
    MaxLimit = 2
    AskedFor = {0, 1, 5}
INVARIANTS
    NoChangeForgotten
    RemovalsNoticed
    SeenHonest
    MigrationsResume
    StatsSurvivePruning
    ExtremesExact
    SweepClears
    ParsedAsWhole
    PagesSkipNothing
CHECK_DEADLOCK FALSE
