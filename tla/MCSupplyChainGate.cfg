SPECIFICATION Spec
CONSTANTS
    Advisories = {a1}
    Versions = {v1, v2}
    Grace = 1
    Term <- ScaledTerm
    LastDay = 2
INVARIANTS
    TypeOK
    AgedHighBlocks
    UntouchedPasses
PROPERTY GreenMergesGreen
SYMMETRY VersionSymmetry
CHECK_DEADLOCK FALSE
