SPECIFICATION Spec
CONSTANTS
    Callers = {c1, c2}
    Lengths <- MCLengths
    Modulus = 8
    MaxSelects = 20
    primary = primary
    none = none
    ErrNoReplica = ErrNoReplica
    ErrSelector = ErrSelector
INVARIANTS
    WritesOnPrimary
    FallsBackOnlyWithoutReplica
    EvenShares
