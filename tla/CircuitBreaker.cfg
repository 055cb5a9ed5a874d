SPECIFICATION Spec
CONSTANTS
    Thread = {t1, t2}
    URL = {u1}
    None = None
    MaxFailures = 2
    OpenTimeout = 2
    MaxTime = 6
    MaxRestarts = 1
    RedisMayFail = TRUE
SYMMETRY Symmetry
INVARIANTS TypeOK OneStatePerURL ClosedBelowThreshold ReportMatchesAllow
PROPERTIES CoolDownRespected TripsCounted AtomicBreaker
CHECK_DEADLOCK FALSE
