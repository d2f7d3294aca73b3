SPECIFICATION Spec
CONSTANTS
    Ingests = {i1, i2, i3}
    Queries = {q1}
    Chunks = 2
    Limit = 2
SYMMETRY IngestSymmetry
INVARIANTS
    MemoryBounded
    EvictionsBounded
    FailuresLeaveNothing
    AnswersFromOneMoment
CHECK_DEADLOCK FALSE
