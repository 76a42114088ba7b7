CONSTANTS
    Calls = {c1, c2}
    References = {g1, g2}
    None = None
    Ghost = Ghost
    MaxToken = 2
    MaxFaults = 1
SPECIFICATION Spec
SYMMETRY Symmetric
INVARIANTS
    SpentTokenNotShown NewestTokenKept MarkedForCause
CHECK_DEADLOCK FALSE
