SPECIFICATION Spec
CONSTANTS
    Event = {e1, e2}
    Msg = {e1, e2}
    ApiKey = {c1}
    Target = {u1}
    BadTarget = {}
    IdemKey = {k1}
    NoKey = NoKey
    None = None
    Slot = {s1, s2}
    Replayer = {r1}
    MaxAttempts = 2
    MaxFailures = 1
    Faults = {"db", "publisher", "gateway", "conn", "crash", "shutdown", "broker"}
    MaxFaults = 1
SYMMETRY Symmetry
INVARIANTS TypeOK OrphansExplained RowUnlessDuplicate
CHECK_DEADLOCK FALSE
