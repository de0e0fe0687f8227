CONSTANTS
    Workers        = {w1, w2}
    QueueSize      = 2
    MaxConnections = 3
    MaxListens     = 1
SPECIFICATION FairSpec
INVARIANTS
    TypeOK
    PendingAlive
    ScriptUsesLiveResponses
    QueueIsFIFO
    StopJoins
PROPERTIES
    ResponsesReleased
    ConnectionsServed
CHECK_DEADLOCK FALSE
