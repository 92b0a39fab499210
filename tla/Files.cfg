SPECIFICATION FairSpec
CONSTANTS
    N = 2
    MaxOps = 2
    MaxReads = 1
    MaxTries = 2
    MaxFaults = 2
INVARIANTS
    OutcomeIsTrue
    LeavesNothing
PROPERTIES
    NoLostUpdate
    OperationEnds
CHECK_DEADLOCK FALSE
