SPECIFICATION FairSpec
CONSTANTS
    t1 = t1
    t2 = t2
    k1 = k1
    k2 = k2
    Calls = {t1, t2}
    Writers = {}
    Keys = {k1, k2}
    MaxSavepoints = 0
    OwnContext = {}

PROPERTIES
    LocksReleased
    LockWaitEnds
