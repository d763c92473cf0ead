SPECIFICATION Spec
CONSTANTS
    Hosts <- MCHosts
    Programs <- ComputePrograms
    Wildcard = Wildcard
    CycleLimit = 25
    SortThreshold = 16
    Unset <- MCUnset
    Garbage <- MCGarbage
    None = None
    Horizon = 5
    MaxResent = 0
PROPERTY
    CalcTakesTime
