\* One caller of each kind; p1 may stop reading.
SPECIFICATION FairSpec
CONSTANTS
    ProxyClients = {p1}
    RpcCallers = {r1}
    LibCallers = {l1}
    Stalling = {p1}
    NoOne = NoOne
    MaxRequests = 3
    MaxDrops = 1
    MaxPushes = 1
INVARIANTS
    TypeOK
    SlotDiscipline
    FirstComeFirstServed
    StrayOnlyAfterAbandon
PROPERTIES
    ReturnsWholeAnswer
    StalledOnlyByClient
    ImplementsTicketLock
CHECK_DEADLOCK FALSE
