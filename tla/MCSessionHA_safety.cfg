SPECIFICATION MCSpec
CONSTANTS
    a = a
    b = b
    Gateways <- Pair
    Nobody = Nobody
    NoRec = NoRec
    TakeoverAttempts = 2
    MaxGen = 2
    MaxVer = 1
    MaxHandles = 1
    Events = {}
    Parts = {"roam", "faults", "standby"}
SYMMETRY PairSymmetry
INVARIANTS TypeOK NewestGenerationOwns
PROPERTIES WritesInGenerationOrder DeleteSparesOtherGateways
PROPERTIES SweepNeverRegresses ShutdownHandsOff ImplementsOwnership
CHECK_DEADLOCK FALSE
