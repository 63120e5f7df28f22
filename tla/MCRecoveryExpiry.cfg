SPECIFICATION FairSpec
CONSTANTS
    i1 = i1
    i2 = i2
    MaxConns = 2
    MaxAtOnce = 2
    Instances = {i1}
    Faults = {}
    RecoveryDelay = 2
    CompletedTTL = 1
CHECK_DEADLOCK FALSE
PROPERTY
    AbandonedIsReported
