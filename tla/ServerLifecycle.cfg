CONSTANTS
    d1 = d1  d2 = d2  d3 = d3  w1 = w1  w2 = w2  t1 = t1  t2 = t2
    CallDatas = {d1, d2, d3}
    NoCallData = NoCallData
    Workers = {w1, w2}
    AsioThreads = {t1, t2}
    Methods <- MCMethods
    MethodOf <- MCMethodOf
    Files <- MCFiles
    Hardware = {0, 1, 2}
CHECK_DEADLOCK FALSE
SPECIFICATION FairSpec
INVARIANTS TypeOK ListenAfterInit ReadyToServe NoCoroutineCutOff CleanExit
PROPERTIES FailedInitExits
