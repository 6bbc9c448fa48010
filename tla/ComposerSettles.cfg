SPECIFICATION FairSpec
CONSTANTS
    c1 = c1
    c2 = c2
    d1 = d1
    d2 = d2
    e1 = e1
    e2 = e2
    k1 = k1
    k2 = k2
    Drafts = {d1}
    Keys = {k1, k2}
    Edits = {e1}
    Invalid = {e1}
    Callers <- MCCallers
    NoDraft = NoDraft
    Deleted = Deleted
    NoVersion = NoVersion
    NoContent = NoContent
    NoCall = NoCall
    NoId = NoId
    OneCallAtATime = FALSE
    MaxRevision = 0
    MaxLosses = 0
    Composers = {c1}
    BlankKey = k1
    Flawed = {}
    NoRef = NoRef
    Checks = {"validate", "publish"}
    PatientUser = FALSE
    MaxSaves = 2
PROPERTIES
    Settles
\* Users stop, so the system may come to rest.
CHECK_DEADLOCK FALSE
