SPECIFICATION Spec
CONSTANTS
    x = x y = y a = a b = b i1 = i1 i2 = i2 w1 = w1 w2 = w2 r1 = r1 r2 = r2
    None = None
    Order = {x, y}
    File = {a}
    Instance = {i1}
    Worker = {w1}
    Recoverer = {r1}
    Host <- OneHost
    Requests <- Execute
    Prompt = FALSE
    MaxPatches = 2
    MaxSteps = 0
    MaxAttempts = 2
    MaxCalls = 0
    MaxCrashes = 0
SYMMETRY Orders
PROPERTIES RollbackSparesOthers
CHECK_DEADLOCK FALSE
