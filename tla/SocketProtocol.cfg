CONSTANTS
    Pipelining  = FALSE
    MaxMessages = 2
    MaxCode     = 3
    MaxRead     = 2
    MaxWaits    = 2
SPECIFICATION FairSpec
INVARIANTS
    TypeOK
    BytesConserved
    ExactFraming
    NeverWaitsInVain
PROPERTIES
    SessionEnds
    ScriptsEvaluated
CHECK_DEADLOCK FALSE
