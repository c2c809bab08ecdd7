CONSTANTS
    t1 = t1
    t2 = t2
    t3 = t3
    e1 = e1
    e2 = e2
    ExecutorOf <- TwoAndOne
    Threads = {t1, t2, t3}
    Executors = {e1, e2}
    Keys = {k1, k2}
    NoKey = NoKey
    NoThread = NoThread
    MaxSize = 1
    MaxCalls = 5
    MaxClears = 1
SPECIFICATION FairSpec
INVARIANTS TypeOK OneCompiler
PROPERTIES FailsForCause RequestsEnd
CHECK_DEADLOCK FALSE
