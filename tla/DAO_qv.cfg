SPECIFICATION Spec
CONSTANTS
    a1 = a1
    a2 = a2
    alice = alice
    bob = bob
    val1 = val1
    val2 = val2
    contributor_1 = contributor_1
    Annotations = {a1}
    Voters <- People4
    NamedVoters = {alice, bob}
    ValidatorName <- DefaultNamesToBob
    Submitter <- AliceSubmits
    VOTING_MODE = "qv"
    QUORUM_REQUIRED = 3
    QV_THRESHOLD = 4
    MAX_WORKERS = 1
    WEBHOOK_MAX_RETRIES = 2
    Intensities = {1, 2}
    Recommendations = {"validated"}
    WebhookFaults = {"refused", "reply_lost"}
    MaxVotes = 3
    MaxSubmissions = 1
    MaxRestarts = 0
INVARIANTS
    TypeOK
    DecisionIsBallotResult
    ReputationBacked
    ScoresCountPeople
PROPERTIES
    GovernanceImplemented
    VoteNeverHurtsItsOutcome
    VotesDecide
CHECK_DEADLOCK FALSE
