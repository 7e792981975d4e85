SPECIFICATION FairSpec
CONSTANTS
    t1 = t1
    o1 = o1
    o2 = o2
    r1 = r1
    r2 = r2
    r3 = r3
    j1 = j1
    Tags = {}
    Objects = {o1, o2}
    Requests = {r1}
    Jobs = {j1}
    Stored = {o1, o2}
    BatchSize = 1
    MaxTime = 1
    MaxFaults = 1
INVARIANTS
    IInv
PROPERTIES
    WritersFinish
    ChangesAreIndexed
CHECK_DEADLOCK FALSE
