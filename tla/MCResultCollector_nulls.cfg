CONSTANTS
    Relations <- MCRelations
    HostCells = 22
    VectorSize = 2
SPECIFICATION Spec
INVARIANTS NullsStayInTheirRows
CHECK_DEADLOCK FALSE
