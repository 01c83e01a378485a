SPECIFICATION Spec
CONSTANTS ca=ca cb=cb cc=cc qa=qa ha=ha hb=hb nil=nil
Parts={"code", "exchange", "refresh", "reg", "sess", "revoke", "rotate", "seal", "anchor", "power",
    "hold", "caps", "labels", "spent", "evict", "rate", "lines", "shapes", "secrets", "replay",
    "asks", "hooks", "parallel", "chain", "desk", "device"}
INVARIANTS EdgeHolds GateHolds CallsHold TrailHolds
CHECK_DEADLOCK FALSE
