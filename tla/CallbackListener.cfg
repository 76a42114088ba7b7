CONSTANTS
    Procs = {p1, p2}
    Calls = {c1, c2}
    LeaseTtl = 2
    MaxClock = 2
    Nobody = Nobody
SPECIFICATION ListenerSpec
SYMMETRY Symmetric
INVARIANTS
    NoStrayLease HeardUnlessCut DatabaseOutlivesCalls ShutdownUnhindered
CHECK_DEADLOCK FALSE
