SPECIFICATION Spec
CONSTANTS
    Requests = {i1, p1, a1}
    Ingests = {i1}
    Payments = {p1}
    Asks = {a1}
    Chunks = 2
    ModelConfigured = TRUE
INVARIANTS
    SuccessMeansBoth
    LeftoversOwned
    EventsAreTrue
    CrashLeavesTrail
    FailuresAnnounced
PROPERTIES
    ImplementsLifecycle
    KeepsAuditPromise
CHECK_DEADLOCK FALSE
