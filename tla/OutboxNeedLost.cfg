SPECIFICATION FairSpec
CONSTANTS
    t1 = t1  t2 = t2  r1 = r1  r2 = r2
    MaxEvents = 1
    Ticks = {t1, t2}
    Requests = {r1}
    BatchSize = 2
    Threshold = 5
    Faulty = {"crash"}
    MaxFaults = 1
PROPERTY NeedNeverLost
CHECK_DEADLOCK FALSE
