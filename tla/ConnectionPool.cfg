CONSTANTS
    t1 = t1  t2 = t2  t3 = t3  t4 = t4
    Tasks = {t1, t2, t3, t4}
    NoTask = NoTask
    PoolSize = 2
SPECIFICATION FairSpec
INVARIANTS TypeOK OnePlace NoLostWakeup OwnResult
PROPERTIES LeasedInOrder ImplementsLease OperationsEnd
