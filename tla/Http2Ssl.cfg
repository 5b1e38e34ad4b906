SPECIFICATION Spec
CONSTANTS
    Threads = {t1}
    Conns = {c1}
    Leavers = {}
    Streams = {1, 2}
    Workloads <- Plain
    PoolWorkers = {w1}
    CAPACITY = 1
    Nobody = Nobody
INVARIANT SslExclusive
