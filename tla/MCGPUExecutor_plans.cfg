CONSTANTS
    JoinTypes = {"INNER", "RIGHT", "SEMI"}
    Plans <- MCPlans
SPECIFICATION FairSpec
INVARIANTS PipelinesFollowPlan ScanFollowsProbes RowsReachReaders TablesAreLive
PROPERTIES ImplementsDataFlow
CHECK_DEADLOCK FALSE
