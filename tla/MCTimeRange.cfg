SPECIFICATION Spec
CONSTANTS
    None = None
    NoShard = NoShard
    a = a
    b = b
    unknown = unknown
    Times <- MCTimes
    ShardIDs <- MCIDs
    BadIDs = {unknown}
    Configs <- MCConfigs
PROPERTY
    ImplementsRangeResolver
