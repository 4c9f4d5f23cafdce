SPECIFICATION Spec
CONSTANTS
    r1 = r1
    p1 = p1
    a1 = a1
    a2 = a2
    l1 = l1
    l2 = l2
    Resource = {r1}
    Project = {p1}
    Work = {w1}
    Name <- MCName
    Path <- OnePath
    PathSets <- OneSet
    AttemptId = {a1, a2}
    LeaseId = {l1, l2}
    TTLs = {1}
    MaxClock = 1
    MaxCalls = 1
    Rescopings <- Upgrade
SYMMETRY Symmetry
CHECK_DEADLOCK FALSE
INVARIANTS TypeOK AttemptExclusion OnlyNewestWrites AttemptTokensUnique
PROPERTIES TransitionsInTokenOrder FencedFilesSpec
