SPECIFICATION Spec
CONSTANTS
    Windows = {w1, w2}
    First = w1
    Offered = {"load"}
    MaxCommands = 1
    MaxPolls = 1
    MaxNesting = 1
    MaxEvents = 2
PROPERTY ClosersAnswered
CHECK_DEADLOCK FALSE
