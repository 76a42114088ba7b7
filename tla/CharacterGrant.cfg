CONSTANTS
    Sessions = {s1, s2}
    Callbacks = {k1, k2}
    Removers = {r1, r2}
    References = {g1, g2}
    None = None
    MaxGeneration = 3
    MaxDeaths = 1
SPECIFICATION Spec
SYMMETRY Symmetric
INVARIANTS
    LiveSecretsKept NothingLeaks ExchangedOnce HonestSession
CHECK_DEADLOCK FALSE
