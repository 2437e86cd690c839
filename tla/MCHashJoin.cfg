CONSTANTS
    Inputs <- AllInputs
    HalfWrap = 16
    Strays = {0, 1}
SPECIFICATION FairSpec
INVARIANTS TypeOK RowsAreKept RowsAreReachable AnswerIsJoin
PROPERTY KernelsEnd
CHECK_DEADLOCK FALSE
