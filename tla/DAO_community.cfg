SPECIFICATION FairSpec
CONSTANTS
    a1 = a1
    a2 = a2
    alice = alice
    bob = bob
    val1 = val1
    val2 = val2
    contributor_1 = contributor_1
    Annotations = {a1, a2}
    Voters <- People3
    NamedVoters = {}
    ValidatorName <- NoNames
    Submitter <- Contributor
    VOTING_MODE = "community"
    QUORUM_REQUIRED = 3
    QV_THRESHOLD = 4
    MAX_WORKERS = 1
    WEBHOOK_MAX_RETRIES = 3
    Intensities = {1}
    Recommendations = {"validated"}
    WebhookFaults = {"refused", "reply_lost"}
    MaxVotes = 0
    MaxSubmissions = 2
    MaxRestarts = 1
INVARIANTS
    QuorumExact
    OneDecisionPerProposal
PROPERTIES
    GovernanceImplemented
    EveryTaskEnds
    EveryClaimIsDecided
CHECK_DEADLOCK FALSE
