\* One create and one read request fit into a window, three of an account; one
\* refused post, one crash, one failure.
CONSTANTS
    c1 = c1
    c2 = c2
    c3 = c3
    c4 = c4
    c5 = c5
    g1 = g1
    Servers = {"s1", "s2"}
    ServerOf <- MCServerOf
    a1 = a1
    a2 = a2
    l1 = l1
    l2 = l2
    l3 = l3
    Requests = {c1, c2, c3, c4, c5, g1, a1, a2, l1, l2, l3}
    Registers = {a1, a2}
    Logins = {l1, l2, l3}
    EmailOf <- MCEmailOf
    PasswordOf <- MCPasswordOf
    LoginAfter <- MCLoginAfter
    Creates = {c1, c2, c3, c4, c5}
    Reads = {g1}
    Buckets = {"jobs", "api", "auth"}
    BucketOf <- MCBucketOf
    MaxRequests <- MCMaxRequests
    MaxWindows = 1
    MaxFailures = 1
    KeyOf <- MCKeyOf
    NoKey = NoKey
    Asks <- MCAsks
    MaxRuns <- MCMaxRuns
    Scenes <- MCScenes
    MaxRetries = 1
    MaxRefusals = 1
    MaxCrashes = 1
SPECIFICATION Spec
INVARIANTS
    TypeOK
    LimitEnforced
    ExpiryOnItsWay
    IdempotentAnswers
    CompletedAnswerHasResult
    CallbackTellsTheTruth
    EventIdsDeduplicate
    RegisteredCanLogIn
PROPERTIES
    ResultStands
    CallbackArrives
CHECK_DEADLOCK FALSE
