SPECIFICATION FairSpec
CONSTANTS
    Threads = {t1, t2}
    Conns = {c1, c2}
    Leavers = {}
    Streams = {1, 2}
    Workloads <- Plain
    PoolWorkers = {w1}
    CAPACITY = 2
    Nobody = Nobody
\* The run ends in a deadlock of all threads; the property says what it means.
CHECK_DEADLOCK FALSE
PROPERTY RequestsAnswered
