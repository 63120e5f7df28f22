SPECIFICATION FairSpec
CONSTANTS
    c1 = c1
    c2 = c2
    c3 = c3
    Callers <- MCCallers
    Cancellable = {c1, c2, c3}
    FailureThreshold = 3
    RecoveryTimeout = 2
    HalfOpenMaxCalls = 2
INVARIANTS
    TypeOK
    ClosedBelowThreshold
    SlotsAccounted
PROPERTIES
    LateResultsKeepOpen
    KeepsProbing
