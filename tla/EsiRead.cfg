CONSTANTS
    Calls = {c1, c2}
    Values = {v1, v2}
    None = None
    MaxGeneration = 2
    MaxGrants = 2
SPECIFICATION Spec
SYMMETRY Symmetric
INVARIANTS
    AnswerIsCurrent PrivateStaysApart RemovedIsForgotten
