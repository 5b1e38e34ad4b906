SPECIFICATION FairSpec
CONSTANTS
    Producers = {p1, p2}
    Workers = {w1, w2}
    CAPACITY = 2
    MaxTasks = 3
    NoTask = NoTask
INVARIANTS
    TypeOK
    MutualExclusion
    SlotDiscipline
    Accounting
PROPERTIES ImplementsTaskQueue
    EveryTaskRuns
    DestructorReturns
