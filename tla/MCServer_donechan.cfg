CONSTANTS
    s1 = s1
    k1 = k1
    k2 = k2
    Serves = {s1}
    Conns = {}
    Closers = {k1, k2}
SPECIFICATION Spec
PROPERTY AlreadyClosedIsSkipped
