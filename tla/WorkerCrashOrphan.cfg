SPECIFICATION FairSpec
CONSTANTS
    h1 = h1  h2 = h2  h3 = h3  w1 = w1  w2 = w2
    None = None
    Jobs = {j1}
    Foreign = {}
    NullBody = {}
    Workers = {w1, w2}
    Handlers = {h1, h2}
    WorkerOf <- MCTwoWorkers
    Payloads = {"plain", "shouldFail", "shouldFailPermanently"}
    Processor <- StubProcessor
    MaxAttempts = 2
    MaxReplays = 0
    Faulty = {"crash"}
    MaxFaults = 1
PROPERTY StaleJobsReclaimed
CHECK_DEADLOCK FALSE
