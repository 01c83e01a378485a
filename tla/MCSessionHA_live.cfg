SPECIFICATION MCFair
CONSTANTS
    a = a
    b = b
    Gateways <- Pair
    Nobody = Nobody
    NoRec = NoRec
    TakeoverAttempts = 2
    MaxGen = 2
    MaxVer = 1
    MaxHandles = 1
    Events = {}
    Parts = {"fenced", "orphan"}
PROPERTIES FencedLeaves OrphanRescued
CHECK_DEADLOCK FALSE
