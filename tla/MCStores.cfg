SPECIFICATION Spec
CONSTANTS ga=ga gb=gb gc3=gc3 nobody=nobody norec=norec none=none c1=c1 c2=c2
Parts={"move", "roam", "lock", "pause", "steal", "intake", "work", "drop", "limit", "again",
    "cas", "quota", "drive", "nested", "barred", "send", "collide", "enclose", "wire",
    "resend", "jobs", "slots", "topics", "rows", "claims", "facts", "corpora", "rag"}
INVARIANTS MoveHolds InboxHolds TransfersHold RecordsHold
PROPERTIES StoreSteps
CHECK_DEADLOCK FALSE
