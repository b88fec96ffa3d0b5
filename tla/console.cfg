\* Batches of two jobs, two for the benchmark; two runs of a job; one failure.
CONSTANTS
    j1 = j1
    j2 = j2
    j3 = j3
    r1 = r1
    r2 = r2
    Jobs = {j1, j2, j3}
    Runs = {r1, r2}
    Scenes <- MCScenes
    BatchSize = 2
    Batches = 2
    MaxAttempts <- MCMaxAttempts
    MaxFailures = 1
SPECIFICATION Spec
INVARIANTS
    TypeOK
    ShownStatusHeld
    VerdictShownIsTrue
    PassMeansProgress
PROPERTIES
    RunEnds
CHECK_DEADLOCK FALSE
