SPECIFICATION Spec
CONSTANTS
    f1 = f1 f2 = f2 b1 = b1 m1 = m1 m2 = m2 e1 = e1 e2 = e2
    None = None
    Jobs = {f1, f2}
    Foreground = {f1, f2}
    ModelOf <- Requested
    Ext = {e1}
    Kept = {}
    Worker = TRUE
    Cpu = TRUE
    Warmed = {m2}
    Overtaking = FALSE
    Leftovers <- Wreckage
    MaxParallel = 2
    MaxFaults = 1
    MaxLeaves = 1
    MaxReserves = 0
    MaxBatches = 2
INVARIANTS TypeOK BackgroundYields
CHECK_DEADLOCK FALSE
