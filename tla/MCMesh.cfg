SPECIFICATION Spec
CONSTANTS r1=r1 r2=r2 nil=nil nobody=nobody
Parts={"nearby", "select", "cards", "steer", "watch", "page", "fanout", "put", "enroll",
    "pool", "viewers", "proof", "nonce", "behalf", "chain", "oneuse", "sso", "consent",
    "revoke", "tipped", "register", "manage", "cross", "stranger", "gateway", "ways", "edge",
    "shared"}
INVARIANTS PresenceHolds CredentialsHold 
PROPERTIES MeshSteps
CHECK_DEADLOCK FALSE
