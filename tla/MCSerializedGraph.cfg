SPECIFICATION FairSpec
CONSTANTS
    Nodes <- MCNodes
    MaxEdges = 4
INVARIANTS
    CounterExact
    OnePlace
    OrderRespected
PROPERTIES
    ImplementsOrder
    EveryFreeNodeRuns
