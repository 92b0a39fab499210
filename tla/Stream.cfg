SPECIFICATION FairSpec
CONSTANTS
    None = None
    Kinds = {"log", "screen"}
    Tiles = 2
    Grant = 2
    Low = 1
    QueueSize = 2
    SeqMod = 5
    MaxCalls = 5
    MaxData = 6
    MaxLoss = 1
    MaxWire = 2
INVARIANTS
    CreditIsSound
    NoTornFrame
PROPERTIES
    StreamFlows
CHECK_DEADLOCK FALSE
