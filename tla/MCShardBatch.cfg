SPECIFICATION Spec
CONSTANTS
    MaxKeys = 5
    Shards = {s1, s2, s3}
    UnknownIDs = {unknown}
    NoShard = NoShard
    OtherError = OtherError
INVARIANTS
    GroupsExact
    FailsAtFirst
    BatchPrefix
    ColocatedAllOrNothing
