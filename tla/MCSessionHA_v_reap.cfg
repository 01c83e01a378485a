SPECIFICATION MCSpec
CONSTANTS
    a = a
    b = b
    Gateways <- Pair
    Nobody = Nobody
    NoRec = NoRec
    TakeoverAttempts = 2
    MaxGen = 2
    MaxVer = 1
    MaxHandles = 1
    Events = {}
    Parts = {"reap"}
SYMMETRY PairSymmetry
INVARIANT NeverReapedWhileAttached
CHECK_DEADLOCK FALSE
