SPECIFICATION Safe
CONSTANTS
    Requests = {p1}
    Ingests = {}
    Payments = {p1}
    Asks = {}
    Chunks = 1
    ModelConfigured = TRUE
INVARIANTS
    PaymentFailuresAnnounced
CHECK_DEADLOCK FALSE
