SPECIFICATION FairSpec
CONSTANTS
    Lengths <- MCLengths
    Concurrencies <- MCConcurrencies
INVARIANTS
    TypeOK
    SlotsExclusive
    BoundedConcurrency
    LateStartsBounded
    ReportExact
PROPERTIES
    ImplementsFanOut
    CancelReturns
    ReturnsWithCallbacks
