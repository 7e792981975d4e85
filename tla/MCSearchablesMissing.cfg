SPECIFICATION Spec
CONSTANTS
    t1 = t1
    o1 = o1
    o2 = o2
    r1 = r1
    r2 = r2
    r3 = r3
    j1 = j1
    Tags = {}
    Objects = {o1}
    Requests = {r1, r2}
    Jobs = {j1}
    Stored = {}
    BatchSize = 2
    MaxTime = 1
    MaxFaults = 0
INVARIANTS
    MissingModeFindsUnprocessed
CHECK_DEADLOCK FALSE
