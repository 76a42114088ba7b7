CONSTANTS
    NumTypes = 4
    Target = 1
    Graphs <- SmallGraphs
    MaxNodes = 3
    MaxEdges = 4
    MaxDepth = 2
SPECIFICATION ClosureSpec
INVARIANTS
    ClosureTypeOK ResolvesExactly OrderIsUsable
CHECK_DEADLOCK FALSE
