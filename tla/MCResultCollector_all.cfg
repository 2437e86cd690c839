CONSTANTS
    Relations <- MCRelations
    HostCells = 22
    VectorSize = 2
SPECIFICATION Spec
INVARIANTS AnswerIsRelation PointersUnlessOutgrown
CHECK_DEADLOCK FALSE
