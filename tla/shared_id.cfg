SPECIFICATION Spec
CONSTANTS
    l1 = l1
    l2 = l2
    w1 = w1
    w2 = w2
    Jobs = {j1}
    Workers = {w1}
    NoWorker = NoWorker
    NoJob = NoJob
    Loops = {l1, l2}
    WorkerOf <- OneWorker
    Reports = {}
    Schedulers = {s1}
    CancelRequests = {}
    RetryRequests = {}
    MaxRetries = 1
    FailureModes = {}
    MaxFailures = 0
    Timely = {"api", "schedulers"}
    MaxVersion = 3
PROPERTIES
    ZombieCannotMoveJob
CHECK_DEADLOCK FALSE
