SPECIFICATION Spec
CONSTANTS
    Shape <- MCShape
    Sums <- MCSums
    Setups <- OneSum
    Edges = 12
    MaxEdits = 2
INVARIANT EdgesRecycled
CHECK_DEADLOCK FALSE
