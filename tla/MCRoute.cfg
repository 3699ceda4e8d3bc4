CONSTANTS
    Requests = {r1}
    Handlers = {h1, h2}
    Patterns = {"/a", "/?", "^/b$"}
    Paths = {"/a", "/b"}
    Kind <- KindOf
    Fits <- FitsOf
SPECIFICATION Spec
SYMMETRY Symmetric
INVARIANTS TypeOK RefusedForCause RanWasRegistered
