SPECIFICATION Spec
CONSTANTS
    t1 = t1
    t2 = t2
    k1 = k1
    k2 = k2
    Calls = {t1, t2}
    Writers = {t1}
    Keys = {k1}
    MaxSavepoints = 1
    OwnContext = {t2}
INVARIANTS
    RetryIsSafe
    FailedSavepointsStayOut
    LocksFence
    PooledIsClean
PROPERTY
    ImplementsAtomicTransaction
