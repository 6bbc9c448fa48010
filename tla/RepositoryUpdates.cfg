SPECIFICATION Spec
CONSTANTS
    m1 = m1
    m2 = m2
    p1 = p1
    p2 = p2
    Components = {m1}
    Pages = {p1, p2}
    NoComponent = NoComponent
    NoCheck = NoCheck
    NoCandidate = NoCandidate
    NoCall = NoCall
    NoData = NoData
    MaxRevision = 3
    MaxFailures = 1
    MaxRequests = 3
INVARIANTS
    UpdatesTypeOK
    CandidatesAreExact
PROPERTIES
    StagedIsFresh
    PageSettles
\* Users stop, so the system may come to rest.
CHECK_DEADLOCK FALSE
