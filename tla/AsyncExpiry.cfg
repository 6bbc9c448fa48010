SPECIFICATION AsyncSpec
CONSTANTS
    w1 = w1
    w2 = w2
    NumRuns = 1
    NumNodes = 1
    Parents <- OneNode
    OutputNodes = {1}
    Workers = {w1, w2}
    Serves <- ServesAll
    Tokens <- MCTokens
    Handles = {1, 2}
    NoWorker = NoWorker
    NoToken = NoToken
    NoHandle = NoHandle
    NoLease = NoLease
    MaxAttempts = 2
    MaxCancels = 0
    MaxRetries = 1
    Cleanup = "always"
    LeaseOutlivesStep = FALSE
    MaxCrashes = 0
    MaxErrors = 0
SYMMETRY WorkerSymmetry
INVARIANTS
    HandleIsOwnJob
    SuccessHasJob
PROPERTIES
    HandlesKept
    Spec
\* Users stop submitting and retrying, so the system may come to rest.
CHECK_DEADLOCK FALSE
