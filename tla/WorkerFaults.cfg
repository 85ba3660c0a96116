SPECIFICATION Spec
CONSTANTS
    h1 = h1  h2 = h2  h3 = h3  w1 = w1  w2 = w2
    None = None
    Jobs = {j1}
    Foreign = {m1}
    NullBody = {m1}
    Workers = {w1, w2}
    Handlers = {h1, h2, h3}
    WorkerOf <- MCWorkerOf
    Payloads = {"flaky"}
    Processor <- MCProcessor
    MaxAttempts = 2
    MaxReplays = 1
    Faulty <- AllFaults
    MaxFaults = 2
SYMMETRY Symmetry
INVARIANTS TypeOK AttemptsAccounted HoldsItsClaim SingleProcessing RetryBudget
    NoOrphan DeadLettersMatch
PROPERTIES CompletedIsFinal FollowsLifecycle
CHECK_DEADLOCK FALSE
