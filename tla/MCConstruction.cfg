SPECIFICATION Spec
CONSTANTS
    a = a
    b = b
    p1 = p1
    p2 = p2
    p3 = p3
    Pools = {p1, p2, p3}
    WithMetrics = {p1, p3}
    IDs = {a, b}
    EmptyID = EmptyID
    Deployments <- MCDeployments
INVARIANTS
    OneOwner
    AllOrNothing
    RegisteredIsOpen
