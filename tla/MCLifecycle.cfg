SPECIFICATION FairSpec
CONSTANTS
    c1 = c1
    c2 = c2
    p1 = p1
    r1 = r1
    r2 = r2
    g1 = g1
    g2 = g2
    topology = topology
    None = None
    Clusters = {c1, c2}
    Pools = {p1, r1, r2}
    Shards <- MCShards
    Replicas <- MCReplicas
    Primary <- MCPrimary
    WithMetrics = {p1, r2}
    Closers = {g1, g2}
    Targets <- MCTargets
    Clients = {k1, k2}
INVARIANTS
    TypeOK
    ReturnedIsClosed
    StatsOfOpenPools
PROPERTIES
    ClosesInReverse
    CloseReturns
