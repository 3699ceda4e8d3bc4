CONSTANTS
    r1 = r1
    r2 = r2
    p1 = p1
    NoPath = NoPath
    NoPage = NoPage
    Requests = {r1, r2}
    Paths = {p1}
    Contents = {"page"}
    Readers = {"file"}
    MaxTime = 2
    Overlap = TRUE
SPECIFICATION Spec
INVARIANT CacheIsRecorded
