SPECIFICATION FairSpec
CONSTANTS
    s0 = s0
    s1 = s1
    s2 = s2
    rescue = rescue
    good = good
    bad = bad
    Slots = {s0, s1, s2}
    Factory = s0
    Images = {rescue, good, bad}
    Rescue = rescue
    Recovering = {good, bad}
    Bad = {bad}
    LimitOf <- MCLimitOf
    CountPowerFaults = TRUE
    None = None
    MaxCount = 3
    MaxFaults = 1
    MaxUpdates = 2
INVARIANTS
    CountIsTrue
    QuarantineIsEarned
PROPERTIES
    QuarantineHolds
    BadImageIsLeft
