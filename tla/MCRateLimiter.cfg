SPECIFICATION Spec
CONSTANTS
    c1 = c1
    c2 = c2
    Clients <- MCClients
    MaxRequests = 1
    Window = 6
    MaxStall = 3
    MaxNow = 17
CHECK_DEADLOCK FALSE
INVARIANTS
    TypeOK
    LimitRespected
    OvershootBounded
