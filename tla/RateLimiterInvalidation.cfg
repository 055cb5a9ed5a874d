CONSTANTS
    g1 = g1
    g2 = g2
    None = None
    q1 = q1
    q2 = q2
    Node = {g1, g2}
    Request = {q1, q2}
    Limit = 1
    Window = 4
    TTLDivisor = 2
    TTLCap = 1
    Skew <- Exact
    MaxSkew = 0
    MaxDelay = 1
    MaxTime = 5
    MaxFaults = 0
SPECIFICATION Spec
SYMMETRY Symmetry
CHECK_DEADLOCK FALSE
INVARIANTS
    InvalidationSticks
