SPECIFICATION Spec
CONSTANTS
    p1 = p1
    p2 = p2
    a1 = a1
    a2 = a2
    doc = doc
    noDoc = noDoc
    NoDocument = noDoc
    Partitions = {p1, p2}
    Fresh = {p2}
    Values <- GoodAndBad
    Malformed <- Bad
    BatchSize = 2
    MaxLog = 2
    MaxLeaves = 1
    Faults = {"update", "publish", "commit", "deliver", "crash", "rebalance"}
INVARIANTS
    TypeOK
    CommittedAccounted
    ConfirmationAfterUpdate
PROPERTIES
    LedgerImplemented
CHECK_DEADLOCK FALSE
