SPECIFICATION OperatorSpec
CONSTANTS
  Null = Null
  Unspecified = Unspecified
  None = None
  Max16 = 1
  Max32 = 7
  PrefixBytes = 1
  MaxRows = 4
  BlockThreads = 2
  Wrap = 16
  Text = Text
  Families <- MCFamilies
CHECK_DEADLOCK FALSE
INVARIANTS
  AggregateGroupsAreSql
  AggregateValuesAreSql
  SortedRowsAreSql
  JoinedPairsAreSql
  JoinedCellsArePaired
  PlannedRowsAreThePlans
  PlannedScansAreServed
