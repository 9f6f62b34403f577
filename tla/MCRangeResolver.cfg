SPECIFICATION Spec
CONSTANTS
    NaN = NaN
    NoShard = NoShard
    a = a
    b = b
    unknown = unknown
    Values <- MCValues
    ShardIDs <- MCIDs
    BadIDs = {unknown}
    Configs <- MCConfigs
INVARIANTS
    AcceptsExactlyWellFormed
    LookupExact
