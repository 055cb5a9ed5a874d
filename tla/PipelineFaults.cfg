SPECIFICATION Spec
CONSTANTS
    Event = {e1}
    Msg = {e1, g1}
    ApiKey = {c1}
    Target = {u1, bad}
    BadTarget = {bad}
    IdemKey = {k1}
    NoKey = NoKey
    None = None
    Slot = {s1, s2}
    Replayer = {r1, r2}
    MaxAttempts = 2
    MaxFailures = 1
    Faults = {"db", "publisher", "gateway", "conn", "crash", "shutdown", "broker"}
    MaxFaults = 2
SYMMETRY Symmetry
INVARIANTS SuccessWasDelivered NeverDropped
PROPERTY SuccessFinalUnlessDuplicated
CHECK_DEADLOCK FALSE
