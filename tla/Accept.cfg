SPECIFICATION FairSpec
CONSTANTS
    Kinds = {"ota_application", "ota_recovery", "system", "restart"}
    MaxBoot = 5
    HistorySize = 3
    MaxFaults = 2
INVARIANTS
    OutcomeIsTrue
    ObservedIsReal
PROPERTIES
    OperationEnds
CHECK_DEADLOCK FALSE
