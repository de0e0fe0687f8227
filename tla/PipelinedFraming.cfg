CONSTANTS
    Pipelining  = TRUE
    MaxMessages = 2
    MaxCode     = 3
    MaxRead     = 2
    MaxWaits    = 2
SPECIFICATION FairSpec
INVARIANTS
    ExactFraming
CHECK_DEADLOCK FALSE
