SPECIFICATION Spec
CONSTANTS
    Attributes <- AllAttributes
    MaxPackets = 4
    MaxLost <- FewLosses
    MaxEarly = 1
INVARIANTS
    CountedWhenDequeued
