SPECIFICATION FairAsyncSpec
CONSTANTS
    w1 = w1
    w2 = w2
    NumRuns = 1
    NumNodes = 2
    Parents <- Fork
    OutputNodes = {1, 2}
    Workers = {w1}
    Serves <- ServesAll
    Tokens <- MCTokens
    Handles = {1, 2, 3}
    NoWorker = NoWorker
    NoToken = NoToken
    NoHandle = NoHandle
    NoLease = NoLease
    MaxAttempts = 2
    MaxCancels = 1
    MaxRetries = 0
    Cleanup = "never"
    LeaseOutlivesStep = TRUE
    MaxCrashes = 1
    MaxErrors = 1
PROPERTIES
    RunsEnd
    AttemptsSettle
    CancelRequestsSettle
\* Users stop submitting and retrying, so the system may come to rest.
CHECK_DEADLOCK FALSE
