\* Two proxy clients and nobody else.
SPECIFICATION CacheSpec
CONSTANTS
    ProxyClients = {p1, p2}
    RpcCallers = {}
    LibCallers = {}
    Stalling = {}
    NoOne = NoOne
    MaxRequests = 3
    MaxDrops = 0
    MaxPushes = 0
INVARIANTS
    MutationFlushes
CHECK_DEADLOCK FALSE
