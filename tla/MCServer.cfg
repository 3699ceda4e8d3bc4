CONSTANTS
    s1 = s1
    c1 = c1
    c2 = c2
    k1 = k1
    k2 = k2
    Serves = {s1}
    Conns = {c1, c2}
    Closers = {k1, k2}
SPECIFICATION FairSpec
INVARIANTS TypeOK ShutdownCounted ListenersOwned NoConnForgotten ShutdownBars
PROPERTIES CleanShutdown LifeSpec ServeReturns
