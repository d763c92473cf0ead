SPECIFICATION FairSpec
CONSTANTS
    Keys = {k1, k2}
    Sizes <- MCSizes
    Delays <- MCDelays
    Garbage = {k1, None}
    None = None
    DefaultTag = DefaultTag
    Horizon = 3
    MaxSends = 3
    MaxReused = 1
    MaxResent = 1
    MaxLost = 1
    MaxAnswers = 1
INVARIANTS
    Covered
    SlotNotLost
    ReceivedFully
PROPERTIES
    AllReported
