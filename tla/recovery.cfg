SPECIFICATION FairSpec
CONSTANTS
    l1 = l1
    l2 = l2
    w1 = w1
    w2 = w2
    Jobs = {j1}
    Workers = {w1, w2}
    NoWorker = NoWorker
    NoJob = NoJob
    Loops = {l1, l2}
    WorkerOf <- LoopEach
    Reports = {50, 100}
    Schedulers = {s1}
    CancelRequests = {}
    RetryRequests = {r1}
    MaxRetries = 1
    FailureModes = {"store", "redis", "api", "sweep", "crash"}
    MaxFailures = 1
    Timely = {"api", "workers", "schedulers"}
    MaxVersion = 3
INVARIANTS
    NoJobStranded
PROPERTIES
    ImplementsLifecycle
    EventuallyFinished
CHECK_DEADLOCK FALSE
