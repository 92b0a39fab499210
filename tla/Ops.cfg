SPECIFICATION FairSpec
CONSTANTS
    d1 = d1
    i1 = i1
    i2 = i2
    ota = ota
    rpc = rpc
    query = query
    Tasks = {t1, t2}
    OpIds = {i1, i2}
    Devices = {d1}
    Requests = {ota, rpc, query}
    DeviceOf <- MCDeviceOf
    Asked <- MCAsked
    Serialized = {ota, rpc}
    Background = {ota}
    Uncertain = {ota}
    RestartUncertain = {ota, rpc}
    Stages = {"transferring"}
    Outcomes = {"succeeded", "outcome_unknown"}
    Leases = {l1}
    Finishers = {f1, f2}
    None = None
    MaxStops = 1
INVARIANTS
    SettledRowsAreTrue
    LocksAndGates
    ObserveIsQuiet
PROPERTIES
    ImplementsLedger
    
