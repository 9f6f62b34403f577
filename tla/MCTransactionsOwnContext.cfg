SPECIFICATION Spec
CONSTANTS
    t1 = t1
    t2 = t2
    k1 = k1
    k2 = k2
    Calls = {t1}
    Writers = {t1}
    Keys = {}
    MaxSavepoints = 1
    OwnContext = {t1}
INVARIANT
    SavepointIsRolledBack
