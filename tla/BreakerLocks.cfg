SPECIFICATION FairSpec
CONSTANTS
    None = None
    Caller = {c1, c2}
    Reporter = {r1}
    URL = {u1, u2}
INVARIANTS
    TypeOK
    NoDeadlock
PROPERTY
    CallsReturn
