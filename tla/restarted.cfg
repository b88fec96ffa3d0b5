SPECIFICATION FairSpec
CONSTANTS
    Workers = {w1}
    NoWorker = NoWorker
    MaxStarts = 2
    Schedulers = {s1, s2}
    NoScheduler = NoScheduler
    MissThreshold = 3
    MaxFailures = 1
    Timely = {"workers", "schedulers"}
PROPERTIES
    DeadWorkersRecovered
CHECK_DEADLOCK FALSE
