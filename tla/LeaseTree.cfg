SPECIFICATION Spec
CONSTANTS
    o1 = o1
    o2 = o2
    r1 = r1
    p1 = p1
    l1 = l1
    l2 = l2
    Owner = {o1, o2}
    Resource = {r1}
    Project = {p1}
    ScopeOf <- OneProject
    Legacy <- LegacyRow
    LeaseId = {l1, l2}
    Name <- MCName
    Path <- TreePaths
    PathSets <- TreeSets
    TTLs = {2}
    WaitWindow = 1
    WaitRetention = 2
    MaxClock = 2
    MaxCalls = 2
SYMMETRY LeaseSymmetry
CHECK_DEADLOCK FALSE
INVARIANTS TypeOK NoSilentDeadlock ClaimExclusion
