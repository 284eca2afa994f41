SPECIFICATION Spec
CONSTANTS
    p1 = p1
    p2 = p2
    cand = cand
    Partitions = {p1}
    Fresh = {}
    Values = {cand}
    BatchSize = 2
    MaxLog = 4
    MaxRetries = 2
    MaxLeaves = 3
    Faults = {"crash", "rebalance"}
INVARIANTS
    ForwardedBeforeCommit
    RedeliveryWithinBatch
CHECK_DEADLOCK FALSE
