SPECIFICATION FairSpec
CONSTANTS
    Requests = {r1, r2}
    PoolSize = 1
    Interval = 2
    Hour = 2
    Summer <- MCSummer
    MaxTime = 6
    MaxStarts = 3
INVARIANTS
    PoolOutlivesTasks
    RecordsAreKept
PROPERTY ShutdownEnds
CHECK_DEADLOCK FALSE
