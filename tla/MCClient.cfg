\* Two calls and one connection, which the second may be given when the first
\* has given it back to the pool.
CONSTANTS
    k1 = k1
    k2 = k2
    c1 = c1
    Calls = {k1, k2}
    Conns = {c1}
    Nameless = {k2}
    NoConn = NoConn
    NoNonce = NoNonce
    MaxLines = 2
    Pools = {TRUE}
    Timeouts = {TRUE, FALSE}
SPECIFICATION FairSpec
INVARIANTS TypeOK OneUser PoolOwesNothing PoolKeptByServer
PROPERTIES RpcSpec CancelReturns ConnGivenBack
