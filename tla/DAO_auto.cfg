SPECIFICATION Spec
CONSTANTS
    a1 = a1
    a2 = a2
    alice = alice
    bob = bob
    val1 = val1
    val2 = val2
    contributor_1 = contributor_1
    Annotations = {a1, a2}
    Voters <- People3
    NamedVoters = {}
    ValidatorName <- NoNames
    Submitter <- Contributor
    VOTING_MODE = "auto"
    QUORUM_REQUIRED = 3
    QV_THRESHOLD = 4
    MAX_WORKERS = 2
    WEBHOOK_MAX_RETRIES = 2
    Intensities = {1}
    Recommendations = {"validated", "rejected"}
    WebhookFaults = {"refused", "reply_lost"}
    MaxVotes = 0
    MaxSubmissions = 3
    MaxRestarts = 0
INVARIANTS
    DecidedWasAccepted
CHECK_DEADLOCK FALSE
