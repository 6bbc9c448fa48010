SPECIFICATION Spec
CONSTANTS
    c1 = c1
    c2 = c2
    d1 = d1
    d2 = d2
    e1 = e1
    e2 = e2
    k1 = k1
    k2 = k2
    Drafts = {d1}
    Keys = {k1}
    Edits = {e1, e2}
    Invalid = {}
    Callers <- MCCallers
    NoDraft = NoDraft
    Deleted = Deleted
    NoVersion = NoVersion
    NoContent = NoContent
    NoCall = NoCall
    NoId = NoId
    OneCallAtATime = TRUE
    MaxRevision = 0
    MaxLosses = 1
    Composers = {c1, c2}
    BlankKey = k1
    Flawed = {}
    NoRef = NoRef
    Checks = {"publish"}
    PatientUser = TRUE
    MaxSaves = 2
SYMMETRY Alike
INVARIANTS
    ComposerTypeOK
    

    
\* Users stop, so the system may come to rest.
CHECK_DEADLOCK FALSE
