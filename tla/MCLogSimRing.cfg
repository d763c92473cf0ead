SPECIFICATION FairSpec
CONSTANTS
    Hosts <- MCHosts
    Programs <- Rings
    Wildcard = Wildcard
    CycleLimit = 40
    SortThreshold = 16
    Unset <- MCUnset
    Garbage <- MCGarbage
    None = None
    Horizon = 3
    MaxResent = 0
PROPERTY
    Completes
