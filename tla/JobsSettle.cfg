SPECIFICATION FairSpec
CONSTANTS
    j1 = j1 j2 = j2 keyed = keyed reason = reason plain = plain lint = lint
    w1 = w1 w2 = w2 w3 = w3 h1 = h1 h2 = h2 c1 = c1
    None = None
    Jobs = {j1}
    Requests = {keyed}
    KindOf <- OneKeyed
    Workers = {w1, w2}
    Clients = {c1}
    Handlers = {}
    Direct = {}
    MaxAttempts = 2
    MaxPending = 1
    MaxCrashes = 1
    MaxFaults = 0
    MaxModes = 0
    MaxCancels = 1
PROPERTIES Settles WaiterReturns
CHECK_DEADLOCK FALSE
