CONSTANTS
    MaxSessions = 2
    MaxRequests = 1
    MaxBacklog  = 1
    MaxNesting  = 1
SPECIFICATION FairSpec
PROPERTIES
    RequestsExecuted
CHECK_DEADLOCK FALSE
