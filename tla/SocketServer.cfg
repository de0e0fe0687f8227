CONSTANTS
    MaxSessions = 2
    MaxRequests = 2
    MaxBacklog  = 2
    MaxNesting  = 2
SPECIFICATION FairSpec
INVARIANTS
    TypeOK
    Isolation
    OneInstance
    SocketPointerInitialised
PROPERTIES
    ImplementsSandboxes
    OwnSessionIsSafe
    SetupTerminates
    InstancesReclaimed
CHECK_DEADLOCK FALSE
