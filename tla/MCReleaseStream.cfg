SPECIFICATION Spec
CONSTANTS
    Versions = {1, 2}
    PRs = {p1, p2}
    Candidates = {"rc.1"}
    MaxCommits = 4
SYMMETRY PRSymmetry
INVARIANTS
    TypeOK
    VerdictStands
CHECK_DEADLOCK FALSE
