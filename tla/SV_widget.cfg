SPECIFICATION FairSpec
CONSTANTS
    a1 = a1
    a2 = a2
    noId = noId
    Annotations = {a1, a2}
    NoId = noId
    EventSourceExists = {TRUE, FALSE}
    MaxWrites = 1
    MaxOutages = 1
    MaxBreaks = 1
    MaxUserSteps = 3
    MaxFetches = 2
    MaxWire = 2
INVARIANTS
    TypeOK
    RestIsFresh
    ForeignRecordIsReplaced
PROPERTIES
    EventuallyFresh
CHECK_DEADLOCK FALSE
