SPECIFICATION Spec
CONSTANTS
    c1 = c1
    c2 = c2
    Conns = {c1}
    MaxAttempts = 2
    Strict = TRUE
    MaxArguments = 7
    OfferCodes = FALSE
    Calls <- MCCalls
    StoreTakesTTL = FALSE
    Faults = {}
    MaxTurns = 2
CHECK_DEADLOCK FALSE
INVARIANT
    OrderAppliedOnce
