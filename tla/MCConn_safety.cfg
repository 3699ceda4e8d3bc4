CONSTANTS
    l1 = l1
    l2 = l2
    n1 = n1
    n2 = n2
    Launchers = {l1, l2}
    Nonces = {n1, n2}
    NoLauncher = NoLauncher
    Serve = Serve
    NoNonce = NoNonce
    WithDeadline = {}
    MaxInq = 1
    Transports = {"tcp", "tls"}
    Kinds = {"request", "malformed", "other", "blank"}
    HandlerOps = {"hijack", "raw", "launch", "sync", "write"}
    ServerOps = {"shutdown", "close"}
    Timeouts = {{"read"}}
SPECIFICATION Spec
INVARIANTS TypeOK HijackExclusive RegistryExact SendOnOpen AnswerIsOwn WriterAlive NoConnLeak
PROPERTIES RpcSpec LifeSpec
SYMMETRY Symmetric
