CONSTANTS
    Calls = {c1, c2}
    NumObjects = 4
    Collections = {{2, 3, 4}}
    Changing = {1}
    PageSize = 2
    MaximumPages = 2
    MaxItems = 2
    MaxSeen = 1
    MaxCached = 1
    MaxIds = 2
    MaxChanges = 1
SPECIFICATION Spec
SYMMETRY Symmetric
INVARIANTS
    NothingTwice NothingMissed TraversalEnds TokenKept OneAuthorization
CHECK_DEADLOCK FALSE
