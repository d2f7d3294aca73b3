SPECIFICATION Spec
CONSTANTS
    Leads <- MCLeads
    Things <- MCThings
    Gaps <- MCGaps
    Fields = {"server", "secret", "other"}
INVARIANTS
    BoundaryStable
    QuestionFinds
    TimestampsKept
CHECK_DEADLOCK FALSE
