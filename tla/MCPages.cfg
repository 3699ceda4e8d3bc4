CONSTANTS
    r1 = r1
    p1 = p1
    p2 = p2
    NoPath = NoPath
    NoPage = NoPage
    Requests = {r1}
    Paths = {p1, p2}
    Contents = {"page", "foreign", "broken"}
    Readers = {"file", "func"}
    MaxTime = 3
    Overlap = FALSE
SPECIFICATION Spec
INVARIANTS TypeOK CacheIsRecorded Fresh ErrorsNotKept
SYMMETRY Symmetric
