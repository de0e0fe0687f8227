CONSTANTS
    Replies     = {r1, r2}
    MaxRequests = 2
    MaxNesting  = 2
    MaxAttempts = 1
SPECIFICATION FairSpec
INVARIANTS
    TypeOK
    EndsOnce
    Attributed
    NoStaleEntries
PROPERTIES
    TimedRequestsEnd
CHECK_DEADLOCK FALSE
