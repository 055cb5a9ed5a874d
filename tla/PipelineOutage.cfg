SPECIFICATION Spec
CONSTANTS
    Event = {e1}
    Msg = {e1}
    ApiKey = {c1}
    Target = {u1}
    BadTarget = {}
    IdemKey = {k1}
    NoKey = NoKey
    None = None
    Slot = {s1, s2}
    Replayer = {}
    MaxAttempts = 2
    MaxFailures = 1
    Faults = {"publisher"}
    MaxFaults = 1
INVARIANT NoSilentLoss
CHECK_DEADLOCK FALSE
