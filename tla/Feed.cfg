CONSTANTS
    None = None
    Gap = Gap
    d1 = d1
    Devices = {d1}
    Workbench = {w1}
    Followers = {f1}
    Watched <- MCWatched
    QueueSize = 1
    Limit = 2
    MaxEvents = 3
    MaxBreaks = 1
SPECIFICATION FairSpec
INVARIANTS
    InOrder
    GapsAreTold
PROPERTIES
    Delivered
CHECK_DEADLOCK FALSE
