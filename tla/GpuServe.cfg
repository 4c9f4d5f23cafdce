SPECIFICATION FairSpec
CONSTANTS
    f1 = f1 f2 = f2 b1 = b1 m1 = m1 m2 = m2 e1 = e1 e2 = e2
    None = None
    Jobs = {f1, f2, b1}
    Foreground = {f1, f2}
    ModelOf <- Requested
    Ext = {e1, e2}
    Kept = {e1}
    Worker = FALSE
    Cpu = FALSE
    Warmed = {}
    Overtaking = FALSE
    Leftovers <- Wreckage
    MaxParallel = 2
    MaxFaults = 1
    MaxLeaves = 0
    MaxReserves = 1
    MaxBatches = 0
INVARIANTS QuietSwitch
PROPERTIES FenceHonoured Served
CHECK_DEADLOCK FALSE
