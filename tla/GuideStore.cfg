CONSTANTS
    Calls = {c1, c2}
    None = None
    Ghost = Ghost
    MaxKept = 1
    MaxWrites = 3
    MaxFaults = 1
SPECIFICATION Spec
SYMMETRY Symmetric
INVARIANTS
    NoBlindOverwrite LastVersionKept NeverStuck CharacterErased
CHECK_DEADLOCK FALSE
