CONSTANTS
    l1 = l1
    n1 = n1
    Launchers = {l1}
    Nonces = {n1}
    NoLauncher = NoLauncher
    Serve = Serve
    NoNonce = NoNonce
    WithDeadline = {}
    MaxInq = 1
    Transports = {"tcp"}
    Kinds = {"request"}
    HandlerOps = {"launch"}
    ServerOps = {}
    Timeouts = {{"read", "write"}}
SPECIFICATION Spec
INVARIANT WriterExclusive
