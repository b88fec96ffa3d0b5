SPECIFICATION FairSpec
CONSTANTS
    Workers = {w1}
    NoWorker = NoWorker
    MaxStarts = 1
    Schedulers = {s1, s2}
    NoScheduler = NoScheduler
    MissThreshold = 3
    MaxFailures = 3
    Timely = {"workers", "schedulers"}
INVARIANTS
    TypeOK
    OneCoordinator
    NoFalseRecovery
PROPERTIES
    DeadWorkersRecovered
    DeadWorkersForgotten
CHECK_DEADLOCK FALSE
