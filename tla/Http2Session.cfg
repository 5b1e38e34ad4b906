SPECIFICATION FairSpec
CONSTANTS
    Threads = {t1}
    Conns = {c1}
    Leavers = {c1}
    Streams = {1, 2, 3, 4}
    Workloads <- MixedOrMany
    PoolWorkers = {w1, w2}
    CAPACITY = 1
    Nobody = Nobody
\* With four requests unanswered all threads may wait for each other.
CHECK_DEADLOCK FALSE
INVARIANTS
    TypeOK
    SessionSafe
    RequestIntact
PROPERTY AnsweredInCapacity
