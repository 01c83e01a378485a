SPECIFICATION Spec
CONSTANTS w1=w1 w2=w2 rda=rda rdb=rdb pbc=pbc q1=q1 q2=q2 nothing=nothing
Parts={"groups", "stream", "strict", "unsaved", "reply", "mirror", "ring", "tail", "lines", "board",
    "export", "alerts", "attest", "verify", "film", "window", "learn", "general", "market",
    "refuse"}
INVARIANTS BrokerHolds ClientsHold ReadersHold
PROPERTIES ReadsTheLog
CHECK_DEADLOCK FALSE
