SPECIFICATION FairSpec
CONSTANTS
    Launch = {"quickstart", "supervised", "container"}
    Env <- MCEnv
    File <- MCFile
    Unusable <- MCUnusable
    MaxFaults = 1
INVARIANTS
    TypeOK
    EnvironmentFirst
    ProductionIsExplicit
    DeadLetterRouteFirst
    RunningIsReady
PROPERTY
    ComesUp
CHECK_DEADLOCK FALSE
