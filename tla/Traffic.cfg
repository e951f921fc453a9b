\* Three clients for two places and every fetch mode; a cache for two proxy
\* clients, and a caller of the gRPC API that changes the node behind it; three
\* messages, one of them a proxy client's; two pings and a client's trace.
SPECIFICATION TrafficSpec
CONSTANTS
    Clients = {c1, c2, c3}
    MaxClients = 2
    MaxArrivals = 3
    MaxFaults = 2
    ProxyClients = {p1, p2}
    RpcCallers = {r1}
    LibCallers = {}
    Stalling = {}
    NoOne = NoOne
    MaxRequests = 3
    MaxDrops = 1
    MaxPushes = 1
    DaemonSends = {d1, d2}
    ProxySends = {x1}
    NoCode = NoCode
    MaxStops = 1
    Pings = {g1, g2}
    Tokens = {t1, t2, t3}
    NoToken = NoToken
    PingTime = 2
    MaxTime = 3
    MaxTraces = 1
INVARIANTS
    NoLostHint
    AtMostOneStolen
    CacheFresh
    AcksAreTrue
    AcksArrive
    PingHonest
    PendingIsCurrent
PROPERTIES
    Drained
    CacheWhole
    ReadsNeverGoBack
CHECK_DEADLOCK FALSE
