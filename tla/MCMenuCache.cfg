SPECIFICATION Spec
CONSTANTS
    p1 = p1
    p2 = p2
    c1 = c1
    c2 = c2
    Procs = {p1, p2}
    Calls = {c1, c2}
    TTL = 1
    MaxDelay = 1
    MaxMenu = 2
    MaxFailures = 1
    None = None
SYMMETRY Symmetry
INVARIANT
    TypeOK
PROPERTIES
    RegisterSpec
    InvalidationTakesEffect
