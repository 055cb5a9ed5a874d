SPECIFICATION FairSpec
CONSTANTS
    Event = {e1}
    Msg = {e1}
    ApiKey = {c1}
    Target = {u1}
    BadTarget = {}
    IdemKey = {k1}
    NoKey = NoKey
    None = None
    Slot = {s1, s2}
    Replayer = {r1, r2}
    MaxAttempts = 2
    MaxFailures = 1
    Faults = {"crash"}
    MaxFaults = 2
PROPERTY PendingResolves
CHECK_DEADLOCK FALSE
