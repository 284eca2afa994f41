SPECIFICATION FairSpec
CONSTANTS
    p1 = p1
    p2 = p2
    a1 = a1
    a2 = a2
    doc = doc
    noDoc = noDoc
    NoDocument = noDoc
    Partitions = {p1}
    Fresh = {p1}
    Values <- GoodAndBad
    Malformed <- Bad
    BatchSize = 2
    MaxLog = 3
    MaxLeaves = 2
    Faults = {"update", "publish", "commit", "rebalance"}
INVARIANTS
    CleanStopConfirms
PROPERTIES
    EveryRecordSettles
CHECK_DEADLOCK FALSE
