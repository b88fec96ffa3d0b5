SPECIFICATION Spec
CONSTANTS
    l1 = l1
    l2 = l2
    w1 = w1
    w2 = w2
    Jobs = {j1}
    Workers = {w1}
    NoWorker = NoWorker
    NoJob = NoJob
    Loops = {l1, l2}
    WorkerOf <- OneWorker
    Reports = {}
    Schedulers = {s1}
    CancelRequests = {c1}
    RetryRequests = {}
    MaxRetries = 1
    FailureModes = {"store", "catch"}
    MaxFailures = 1
    Timely = {}
    MaxVersion = 3
INVARIANTS
    TypeOK
    VersionsFenced
    RetryBudget
PROPERTIES
    ResultFromLatestAttempt
    CompletionStands
CHECK_DEADLOCK FALSE
