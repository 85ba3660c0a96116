SPECIFICATION FairSpec
CONSTANTS
    j1 = j1  j2 = j2
    None = None
    Jobs = {j1, j2}
    MaxVersions = 1
    MaxCalls = 2
    MaxReplays = 1
    Faulty <- AllFaults
    MaxFaults = 1
INVARIANT TypeOK
PROPERTIES DetailCatchesUp ReplaySeen
CHECK_DEADLOCK FALSE
