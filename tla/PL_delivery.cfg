SPECIFICATION PipelineFairSpec
CONSTANTS
    p1 = p1
    p2 = p2
    a1 = a1
    a2 = a2
    doc = doc
    noDoc = noDoc
    NoDocument = noDoc
    Partitions = {p1}
    Fresh = {}
    Values <- AllKinds
    Malformed <- Bad
    Invalid <- BadForWebhook
    BatchSize = 2
    MaxLog = 2
    MaxLeaves = 1
    Faults = {"crash", "rebalance", "deliver"}
    WEBHOOK_MAX_RETRIES = 2
    PipelineFaults = {"timeout", "refused", "crash", "terminal"}
    MaxDecisions = 2
    MaxWebhookCrashes = 1
INVARIANTS
    PipelineTypeOK
    OnlyDecisionsPublished
    DeliveredIsAccounted
    UnappliedIsTraced
    OneRecordRedelivered
    StoreNotBehindCommit
PROPERTIES
    DeliveredSettles
CHECK_DEADLOCK FALSE
