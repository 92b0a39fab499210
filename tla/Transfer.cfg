SPECIFICATION FairSpec
CONSTANTS
    Kinds = {"ota", "system"}
    Windows = {1, 2}
    Chunks = 3
    Comps = 2
    MaxOps = 2
    MaxLoss = 1
    MaxLate = 2
    MaxFaults = 1
    MaxBreaks = 1
INVARIANTS
    WritesAreSound
    ResultIsTrue
    AckedCancelReleases
PROPERTIES
    TransferEnds
CHECK_DEADLOCK FALSE
