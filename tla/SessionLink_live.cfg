SPECIFICATION FairSpec
CONSTANTS
    MaxChunks = 2
    MaxConns = 3
    Lossy = 1
    MaxFrames = 1
    InboundCap = 1
    Events = {}
PROPERTY AllDelivered
CHECK_DEADLOCK FALSE
