SPECIFICATION Spec
CONSTANTS
    l1 = l1
    l2 = l2
    w1 = w1
    w2 = w2
    Jobs = {j1}
    Workers = {w1}
    NoWorker = NoWorker
    NoJob = NoJob
    Loops = {l1}
    WorkerOf <- LoopOne
    Reports = {}
    Schedulers = {s1, s2}
    CancelRequests = {}
    RetryRequests = {}
    MaxRetries = 1
    FailureModes = {"redis", "sweep"}
    MaxFailures = 1
    Timely = {"api"}
    MaxVersion = 3
INVARIANTS
    DispatchedOnce
CHECK_DEADLOCK FALSE
