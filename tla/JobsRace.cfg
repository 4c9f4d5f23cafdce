SPECIFICATION Spec
CONSTANTS
    j1 = j1 j2 = j2 keyed = keyed reason = reason plain = plain lint = lint
    w1 = w1 w2 = w2 w3 = w3 h1 = h1 h2 = h2 c1 = c1
    None = None
    Jobs = {j1}
    Requests = {keyed, lint}
    KindOf <- TwoKinds
    Workers = {w1, w2}
    Clients = {}
    Handlers = {h1}
    Direct = {c1}
    MaxAttempts = 2
    MaxPending = 2
    MaxCrashes = 0
    MaxFaults = 1
    MaxModes = 2
    MaxCancels = 0
SYMMETRY Threads
INVARIANTS TypeOK BoundedReplay NoUnloadDuringInference
PROPERTIES FinalOnce ResultOfLatestAttempt
CHECK_DEADLOCK FALSE
