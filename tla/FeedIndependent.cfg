CONSTANTS
    None = None
    Gap = Gap
    d1 = d1
    Devices = {d1}
    Workbench = {w1, w2}
    Followers = {}
    Watched <- MCWatched
    QueueSize = 1
    Limit = 2
    MaxEvents = 3
    MaxBreaks = 1
SPECIFICATION Spec
INVARIANTS
    Independent
CHECK_DEADLOCK FALSE
