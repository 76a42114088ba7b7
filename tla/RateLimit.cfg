CONSTANTS
    Calls = {c1, c2}
    None = None
    MaxTokens = 10
    Window = 3
    Cap = 2
    Blocks = {1, 2}
    MaxEvents = 3
SPECIFICATION Spec
INVARIANTS
    BudgetKept BlocksHeeded
PROPERTY
    WaitEnds
