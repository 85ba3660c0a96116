SPECIFICATION FairSpec
CONSTANTS
    j1 = j1  j2 = j2  t1 = t1  t2 = t2
    Jobs = {j1, j2}
    Ticks = {t1, t2}
    Micros = 2
    MaxVersions = 2
    Faulty <- AllFaults
    MaxFaults = 1
INVARIANTS TypeOK NoGap
PROPERTY ImplementsFeed
CHECK_DEADLOCK FALSE
