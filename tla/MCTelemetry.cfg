SPECIFICATION TelemetrySpec
CONSTANTS
    t1 = t1
    t2 = t2
    Nil = Nil
    NumPools = 2
    LabelKeys <- MCLabelKeys
    LabelValues <- MCLabelValues
    Tracers = {t1, t2}
    Endpoints <- MCEndpoints
    Plans <- MCPlans
    FirstConfig <- MCFirstConfig
    FirstTracers <- MCFirstTracers
    FirstLabels <- MCFirstLabels
    MaxChanges = 1
    Watched = {1}
    MaxConns = 1
INVARIANTS
    AsConfigured
    SeriesApart
    ConsistentExport
    ReadsOfClosedReported
CHECK_DEADLOCK FALSE
