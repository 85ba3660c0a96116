SPECIFICATION FairSpec
CONSTANTS
    t1 = t1  t2 = t2  r1 = r1  r2 = r2
    MaxEvents = 2
    Ticks = {t1, t2}
    Requests = {r1, r2}
    BatchSize = 2
    Threshold = 1
    Faulty <- AllFaults
    MaxFaults = 2
INVARIANTS TypeOK SingleDispatch DuplicatesNeedFaults PublishedMeansSent BacklogBounded
PROPERTIES NoResurrection EventsRetire EventsArrive
CHECK_DEADLOCK FALSE
