SPECIFICATION Spec
CONSTANTS
    Shape <- MCShape
    Sums <- MCSums
    Setups <- MCSetups
    Edges = 12
    MaxEdits = 3
INVARIANTS TypeOK InputsHaveProducers PoolIsSound LinksFollowEdges NoCycles
PROPERTY KeepsThePatch
CHECK_DEADLOCK FALSE
