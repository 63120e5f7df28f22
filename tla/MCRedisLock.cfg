SPECIFICATION FairSpec
CONSTANTS
    p1 = p1
    u1 = u1
    u2 = u2
    v1 = v1
    v2 = v2
    Procs = {p1}
    Users = {u1, u2}
    Tokens = {v1, v2}
    TTL = 4
    Extensions = {1, 2, 6}
    MaxRetries = 2
    Faults = {"stall", "redis", "close", "crash"}
    None = None
CHECK_DEADLOCK FALSE
INVARIANTS
    TypeOK
    KeptWhileHeld
PROPERTIES
    OnlyOwnerReleases
    LockFrees
