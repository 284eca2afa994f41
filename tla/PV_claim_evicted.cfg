SPECIFICATION FairSpec
CONSTANTS
    MaxFetches = 1
    MaxWire = 1
    MaxQueue = 1
    MaxChanges = 3
    MaxDecisions = 0
    MaxConnections = 1
    MaxUpsets = 0
PROPERTIES
    EvictedRefreshes
CHECK_DEADLOCK FALSE
