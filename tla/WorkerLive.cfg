SPECIFICATION FairSpec
CONSTANTS
    h1 = h1  h2 = h2  h3 = h3  w1 = w1  w2 = w2
    None = None
    Jobs = {j1}
    Foreign = {m1}
    NullBody = {}
    Workers = {w1, w2}
    Handlers = {h1, h2}
    WorkerOf <- MCTwoWorkers
    Payloads = {"flaky"}
    Processor <- MCProcessor
    MaxAttempts = 2
    MaxReplays = 0
    Faulty <- AllFaults
    MaxFaults = 2
PROPERTIES JobsSettle PoisonDiscarded HandlersReturn
CHECK_DEADLOCK FALSE
