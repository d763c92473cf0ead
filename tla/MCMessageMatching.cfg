SPECIFICATION Spec
CONSTANTS
    Sources = {s1, s2}
    Tags = {t1, t2}
    Wildcard = Wildcard
    MaxPosted = 3
    MaxArrived = 3
SYMMETRY Perms
INVARIANTS
    NoMissedMatch
    QueuesComplete
    ReceivesInOrder
    MessagesInOrder
PROPERTIES
    ImplementsMpi
