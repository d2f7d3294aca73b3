SPECIFICATION RecordSpec
CONSTANTS
    Threads = {t1, t2}
    Writers = {t1, t2}
    Attempts = 2
    Backends = {"off", "s3", "gcs", "other"}
    Producers = {p1, p2}
    None = None
    Backoff = 1
INVARIANTS
    SingleFlight
    BackoffHonoured
    NoProducerLost
PROPERTIES
    ImplementsAuditLog
    RecordReturns
    Reconnects
