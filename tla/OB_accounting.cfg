SPECIFICATION FairSpec
CONSTANTS
    p1 = p1
    p2 = p2
    cand = cand
    Partitions = {p1, p2}
    Fresh = {p2}
    Values = {cand}
    BatchSize = 2
    MaxLog = 2
    MaxRetries = 2
    MaxLeaves = 2
    Faults = {"post", "commit", "crash", "rebalance"}
INVARIANTS
    TypeOK
PROPERTIES
    LedgerImplemented
    PostingEnds
    EveryCandidateSettles
CHECK_DEADLOCK FALSE
