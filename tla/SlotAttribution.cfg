\* The docstring of raw_command against the code: late answers.
SPECIFICATION Spec
CONSTANTS
    ProxyClients = {p1}
    RpcCallers = {r1}
    LibCallers = {l1}
    Stalling = {p1}
    NoOne = NoOne
    MaxRequests = 3
    MaxDrops = 1
    MaxPushes = 1
INVARIANTS
    Attributable
CHECK_DEADLOCK FALSE
