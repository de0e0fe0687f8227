SPECIFICATION Spec
CONSTANTS
    Windows = {w1, w2}
    First = w1
    Offered = {"load", "history", "execute", "async"}
    MaxCommands = 2
    MaxPolls = 1
    MaxNesting = 3
    MaxEvents = 1
INVARIANTS TypeOK AnsweredOnce FollowsItsLoad
PROPERTY Answered
CHECK_DEADLOCK FALSE
