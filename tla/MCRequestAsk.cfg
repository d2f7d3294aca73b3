SPECIFICATION Safe
CONSTANTS
    Requests = {a1}
    Ingests = {}
    Payments = {}
    Asks = {a1}
    Chunks = 1
    ModelConfigured = FALSE
INVARIANTS
    AnsweredFlowsSettle
CHECK_DEADLOCK FALSE
