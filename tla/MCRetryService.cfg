SPECIFICATION FairSpec
CONSTANTS
    c1 = c1
    c2 = c2
    Callers <- MCCallers
    Cancellable = {c1}
    ServerErrorRetry = {c1}
    MaxAttempts = 2
    RecoveryTimeout = 1
    HalfOpenMaxCalls = 2
INVARIANTS
    TypeOK
    InflightMatchesCalls
    GivesUpOnlyWhenExhausted
PROPERTIES
    BreakerSpec
    OneCallCannotTrip
    CallEnds
