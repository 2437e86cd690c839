CONSTANTS
    Statements = {s1, s2}
    Substrait = {}
    ArenaCells = 5
    PlanCells = 1
    WorkCells = 1
    Chunks = 2
    MaxCalls = 2
SPECIFICATION FairSpec
INVARIANTS PlanMemoryIsIntact AnswerIsWhole OnlyLateInitFails
PROPERTY EveryCallEnds
CHECK_DEADLOCK FALSE
