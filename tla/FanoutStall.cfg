\* One client that stops reading, and a transport that waits for handle_rx.
SPECIFICATION FanoutFairSpec
CONSTANTS
    Clients = {c1, c2}
    Stalling = {c1}
    HighWater = 0
    Overlap = 1
    MaxFrames = 2
    MaxDeaths = 0
PROPERTIES
    LibraryGetsEveryFrame
CHECK_DEADLOCK FALSE
