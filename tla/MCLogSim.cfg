SPECIFICATION FairSpec
CONSTANTS
    Hosts <- MCHosts
    Programs <- MCPrograms
    Wildcard = Wildcard
    CycleLimit = 26
    SortThreshold = 4
    Unset <- MCUnset
    Garbage <- MCGarbage
    None = None
    Horizon = 4
    MaxResent = 0
INVARIANTS
    TypeOK
    CountersAgree
    EachOpOnce
    NoMissedMatch
    ReceivesConserved
    MessagesConserved
    ListedOrder
    StaleTop
PROPERTIES
    ClocksMonotone
    InsertionOrder
    CommunicationCompletes
