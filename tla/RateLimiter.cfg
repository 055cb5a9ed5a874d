CONSTANTS
    g1 = g1
    g2 = g2
    None = None
    Node = {g1, g2}
    Request = {q1, q2, q3}
    Limit = 1
    Window = 5
    TTLDivisor = 2
    TTLCap = 1
    Skew <- Drift
    MaxSkew = 1
    MaxDelay = 1
    MaxTime = 9
    MaxFaults = 1
SPECIFICATION Spec
SYMMETRY Symmetry
CHECK_DEADLOCK FALSE
INVARIANTS
    TypeOK
    L2WithinLimit
    L1ShortLived
PROPERTIES
    RejectionsJustified
