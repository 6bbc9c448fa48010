SPECIFICATION Spec
CONSTANTS
    w1 = w1
    w2 = w2
    NumRuns = 1
    NumNodes = 1
    Parents <- OneNode
    OutputNodes = {1}
    Workers = {w1, w2}
    Serves <- ServesAll
    Tokens <- MCTokens
    Handles = {1}
    NoWorker = NoWorker
    NoToken = NoToken
    NoHandle = NoHandle
    NoLease = NoLease
    MaxAttempts = 2
    MaxCancels = 2
    MaxRetries = 2
SYMMETRY WorkerSymmetry
INVARIANTS
    TypeOK
    ExclusiveSettlement
    RunningTaskIsLive
    CanceledRunIsQuiet
    ResultsAreCredited
    PublishedOutputs
PROPERTIES
    HistoryKept
\* Users stop submitting and retrying, so the system may come to rest.
CHECK_DEADLOCK FALSE
