SPECIFICATION FairSpec
CONSTANTS
    Hosts <- MCHosts
    Programs <- TwoCalcs
    Wildcard = Wildcard
    CycleLimit = 25
    SortThreshold = 16
    Unset <- MCUnset
    Garbage <- MCGarbage
    None = None
    Horizon = 5
    MaxResent = 0
PROPERTY
    Completes
