SPECIFICATION Spec
CONSTANTS
    MaxChunks = 2
    MaxConns = 2
    Lossy = 1
    MaxFrames = 1
    InboundCap = 1
    Events = {"close", "timeout", "overflow", "cancel", "remove", "detach", "backendEnds"}
INVARIANTS TypeOK ExactlyOnce NothingForgotten
PROPERTY CloseMeansAccepted
CHECK_DEADLOCK FALSE
