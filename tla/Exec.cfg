SPECIFICATION FairSpec
CONSTANTS
    Updates = {"ota", "system"}
    Ota = "ota"
    SessionIds = {s1, s2}
    NoSession = NoSession
    MaxRequests = 3
INVARIANTS
    SlotHasOneOwner
    SessionsAreIsolated
    StartIsClean
PROPERTIES
    NoCommitAfterCancel
    SlotIsFreed
