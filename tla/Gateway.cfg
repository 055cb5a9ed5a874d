CONSTANTS
    None = None
    Request = {r1, r2, r3}
    Call <- MCCall
    Limit = {1, 2}
    Policy <- MCPolicy
    MaxFaults = 1
SPECIFICATION FairSpec
CHECK_DEADLOCK FALSE
INVARIANTS
    TypeOK
    CountersConserved
    MostSpecificLimit
    StatsSane
    KeysSeededOnce
PROPERTIES
    ExitsAfterSignal
