\* One run of any scenario with two jobs, LOW before CRITICAL; two batches for the
\* benchmark; a submission may be refused, but no call of a scenario fails.
CONSTANTS
    j1 = j1
    j2 = j2
    j3 = j3
    r1 = r1
    r2 = r2
    Jobs = {j1, j2, j3}
    Runs = {r1, r2}
    Scenes <- MCScenes
    BatchSize = 2
    Batches = 2
    MaxAttempts <- MCMaxAttempts
    MaxFailures = 0
SPECIFICATION Spec
INVARIANTS
    PassKeepsPromise
CHECK_DEADLOCK FALSE
