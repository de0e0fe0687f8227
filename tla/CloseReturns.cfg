CONSTANTS
    Workers        = {w1}
    QueueSize      = 1
    MaxConnections = 3
    MaxListens     = 1
SPECIFICATION FairSpec
PROPERTIES
    CloseReturns
CHECK_DEADLOCK FALSE
