SPECIFICATION DSpec
CONSTANTS
    d1 = d1
    d2 = d2
    e1 = e1
    e2 = e2
    x1 = x1
    x2 = x2
    k1 = k1
    Drafts = {d1}
    Keys = {k1}
    Edits = {e1, e2}
    Invalid = {e2}
    Callers = {x1, x2}
    NoDraft = NoDraft
    Deleted = Deleted
    NoVersion = NoVersion
    NoContent = NoContent
    NoCall = NoCall
    NoId = NoId
    OneCallAtATime = FALSE
    MaxRevision = 4
    MaxLosses = 1
SYMMETRY ClientSymmetry
PROPERTIES
    ServiceSpec
\* Draft ids are finite in number, so that the system may come to rest.
CHECK_DEADLOCK FALSE
