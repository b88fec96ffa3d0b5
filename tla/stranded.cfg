SPECIFICATION Spec
CONSTANTS
    l1 = l1
    l2 = l2
    w1 = w1
    w2 = w2
    Jobs = {j1}
    Workers = {w1}
    NoWorker = NoWorker
    NoJob = NoJob
    Loops = {l1}
    WorkerOf <- LoopOne
    Reports = {}
    Schedulers = {s1}
    CancelRequests = {}
    RetryRequests = {}
    MaxRetries = 1
    FailureModes = {"catch"}
    MaxFailures = 1
    Timely = {"api", "workers", "schedulers"}
    MaxVersion = 3
INVARIANTS
    NoJobStranded
CHECK_DEADLOCK FALSE
