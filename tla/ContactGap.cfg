\* The docstring of _contact_sync against the code: lists that others ask for.
SPECIFICATION ContactSpec
CONSTANTS
    Contacts = {k1, k2}
    MaxMod = 2
    MaxWire = 1
    MaxJobs = 2
    MaxFaults = 1
INVARIANTS
    PullsAreComplete
CHECK_DEADLOCK FALSE
