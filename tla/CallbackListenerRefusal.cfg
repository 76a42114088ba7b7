CONSTANTS
    Procs = {p1, p2}
    Calls = {c1, c2, c3}
    LeaseTtl = 1
    MaxClock = 1
    Nobody = Nobody
SPECIFICATION ListenerSpec
PROPERTIES
    RefusedForCause
CHECK_DEADLOCK FALSE
