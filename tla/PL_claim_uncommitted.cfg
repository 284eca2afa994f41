SPECIFICATION PipelineSpec
CONSTANTS
    p1 = p1
    p2 = p2
    a1 = a1
    a2 = a2
    doc = doc
    noDoc = noDoc
    NoDocument = noDoc
    Partitions = {p1}
    Fresh = {}
    Values <- Acceptable
    Malformed <- BadForConsumer
    Invalid = {}
    BatchSize = 2
    MaxLog = 2
    MaxLeaves = 0
    Faults = {}
    WEBHOOK_MAX_RETRIES = 2
    PipelineFaults = {}
    MaxDecisions = 2
    MaxWebhookCrashes = 0
INVARIANTS
    FailedStaysUncommitted
CHECK_DEADLOCK FALSE
