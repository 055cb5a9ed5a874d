SPECIFICATION Spec
CONSTANTS
    Thread = {t1, t2}
    URL = {u1}
    None = None
    MaxFailures = 2
    OpenTimeout = 2
    MaxTime = 4
    MaxRestarts = 0
    RedisMayFail = FALSE
INVARIANT MirrorIsLive
CHECK_DEADLOCK FALSE
