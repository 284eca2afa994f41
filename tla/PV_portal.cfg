SPECIFICATION FairSpec
CONSTANTS
    MaxFetches = 2
    MaxWire = 1
    MaxQueue = 1
    MaxChanges = 2
    MaxDecisions = 1
    MaxConnections = 2
    MaxUpsets = 1
INVARIANTS
    TypeOK
    RestIsCurrent
    LeakIsUnstarted
PROPERTIES
    EventuallyCurrent
CHECK_DEADLOCK FALSE
