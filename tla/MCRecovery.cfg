SPECIFICATION FairSpec
CONSTANTS
    i1 = i1
    i2 = i2
    MaxConns = 3
    MaxAtOnce = 2
    Instances = {i1, i2}
    Faults = {"otherProcess", "crash", "redis", "lostReply", "slowUnwind"}
    RecoveryDelay = 2
    CompletedTTL = 1
CHECK_DEADLOCK FALSE
INVARIANTS
    TypeOK
    TaskInTable
    NoDuplicateWebhook
    MarkerBacked
PROPERTIES
    NoPostWhileConnected
    OnTime
    TasksEnd
