SPECIFICATION Spec
CONSTANTS
    Calls = {k1, k2}
    MaxConcurrency = 1
    Refill = 1
    Ticks = 2
    Unit = 1
    MaxClock = 2
INVARIANTS
    SlotsConserved
    RunningBounded
    ActiveExact
    NothingStartsLate
    RateBounded
    FreshUnindebted
PROPERTIES
    ImplementsBulkhead
    CallersReturn
    SlotsReturn
