CONSTANTS
    MaxSessions = 2
    MaxRequests = 2
    MaxBacklog  = 1
    MaxNesting  = 1
SPECIFICATION Spec
PROPERTIES
    ExitEndsSession
CHECK_DEADLOCK FALSE
