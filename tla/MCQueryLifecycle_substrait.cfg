CONSTANTS
    Statements = {s1, s2}
    Substrait = {s1}
    ArenaCells = 5
    PlanCells = 1
    WorkCells = 1
    Chunks = 2
    MaxCalls = 1
SPECIFICATION Spec
INVARIANT InitSizesTheRegions
CHECK_DEADLOCK FALSE
