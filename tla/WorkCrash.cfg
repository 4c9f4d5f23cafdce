SPECIFICATION Spec
CONSTANTS
    x = x y = y a = a b = b i1 = i1 i2 = i2 w1 = w1 w2 = w2 r1 = r1 r2 = r2
    None = None
    Order = {x}
    File = {a, b}
    Instance = {i1}
    Worker = {w1}
    Recoverer = {r1}
    Host <- OneHost
    Requests <- AnyRequest
    Prompt = TRUE
    MaxPatches = 2
    MaxSteps = 1
    MaxAttempts = 9
    MaxCalls = 4
    MaxCrashes = 2
INVARIANTS TypeOK EditsJournaled CleanRequeue HonestFailure
CHECK_DEADLOCK FALSE
