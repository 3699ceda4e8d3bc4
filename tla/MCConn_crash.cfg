CONSTANTS
    l1 = l1
    n1 = n1
    Launchers = {l1}
    Nonces = {n1}
    NoLauncher = NoLauncher
    Serve = Serve
    NoNonce = NoNonce
    WithDeadline = {}
    MaxInq = 1
    Transports = {"tls"}
    Kinds = {"request"}
    HandlerOps = {}
    ServerOps = {}
    Timeouts = {{"read", "write"}}
SPECIFICATION Spec
INVARIANT NoCrash
