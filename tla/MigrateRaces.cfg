SPECIFICATION FairSpec
CONSTANTS
    r1 = r1  r2 = r2
    None = None
    MaxFile = 3
    Runs = {r1, r2}
    MaxLaunches = 4
    MaxFaults = 2
INVARIANTS TypeOK AppliedOnce ExitMeansUpToDate FailureHasCause
PROPERTIES NoneSkipped RunsEnd
CHECK_DEADLOCK FALSE
