SPECIFICATION FairSpec
CONSTANTS
    Clients = {k, c1}
    Clock = k
    None = None
    Transports = {"jtag", "cdc", "tcp"}
    Pairings = {"none", "good", "bad"}
    ReqMod = 5
    FirstId = 3
    MaxGen = 2
    MaxSid = 4
    MaxRequests = 2
    MaxLoss = 1
    MaxBoot = 2
    MaxWire = 2
INVARIANTS
    AnswersAreSound
PROPERTIES
    OneBoot
    NobodyWaits
CHECK_DEADLOCK FALSE
