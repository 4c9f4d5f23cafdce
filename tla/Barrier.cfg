SPECIFICATION FairSpec
CONSTANTS
    a1 = a1
    None = None
    Agents = {a1}
    Resets = FALSE
    Interrupted = FALSE
    LongRuns = FALSE
    MaxPatches = 1
    MaxEvents = 3
INVARIANTS TypeOK JournaledUnderBarrier BarrierReported
PROPERTIES CompletedUntouched EndedUntouched CompletionCurrent BarrierSettles
CHECK_DEADLOCK FALSE
