CONSTANTS
    Plans = {p1}
    Calls = {c1, c2}
    Characters = {ch1, ch2}
    None = None
    PlanTtl = 1
    MaxClock = 1
    MaxGeneration = 2
SPECIFICATION FairSpec
INVARIANTS
    AtMostOnce SentIsAudited HonestState RemovalIsComplete
PROPERTIES
    ImplementsOneShot ExecutionEnds
CHECK_DEADLOCK FALSE
