SPECIFICATION Spec
CONSTANTS
    i1 = i1  i2 = i2
    None = None
    Ips = {i1, i2}
    Labels = {"a"}
    Production = TRUE
    API_KEY = TRUE
    Capacity = 2
    WindowSeconds = 3
    Second = 2
    MaxTime = 7
    MaxBack = 2
SYMMETRY Symmetry
INVARIANTS TypeOK BurstBound RetryAfterHonest
CHECK_DEADLOCK FALSE
