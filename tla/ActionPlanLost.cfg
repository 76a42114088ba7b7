CONSTANTS
    Plans = {p1}
    Calls = {c1, c2}
    Characters = {ch1}
    None = None
    PlanTtl = 1
    MaxClock = 1
    MaxGeneration = 2
SPECIFICATION Spec
INVARIANTS
    LostIsUncertain
CHECK_DEADLOCK FALSE
