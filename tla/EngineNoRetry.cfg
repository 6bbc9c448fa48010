SPECIFICATION Spec
CONSTANTS
    w1 = w1
    w2 = w2
    NumRuns = 1
    NumNodes = 2
    Parents <- Chain
    OutputNodes = {2}
    Workers = {w1, w2}
    Serves <- ServesPart
    Tokens <- MCTokens
    Handles = {1}
    NoWorker = NoWorker
    NoToken = NoToken
    NoHandle = NoHandle
    NoLease = NoLease
    MaxAttempts = 2
    MaxCancels = 1
    MaxRetries = 0
INVARIANTS
    TaskProjectsAttempt
    ParentsFirst
    
\* Users stop submitting and retrying, so the system may come to rest.
CHECK_DEADLOCK FALSE
