SPECIFICATION FairSpec
CONSTANTS
    c1 = c1
    c2 = c2
    Conns = {c1, c2}
    MaxAttempts = 2
    Strict = TRUE
    MaxArguments = 7
    OfferCodes = TRUE
    Calls <- MCCalls
    StoreTakesTTL = TRUE
    Faults = {"model", "redis"}
    MaxTurns = 2
CHECK_DEADLOCK FALSE
INVARIANTS
    TypeOK
    AppliedOncePerTurn
    ConfirmedIsApplied
    AnsweredIsRecorded
    OnlyValidSent
    RecordIsFresh
PROPERTIES
    SnapshotAdvances
    MessagesAnswered
