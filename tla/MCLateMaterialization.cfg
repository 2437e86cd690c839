SPECIFICATION Spec
CONSTANTS
  Rows = 3
  Columns = 2
  Scans <- MCScans
  Filters <- MCFilters
  Projections <- MCProjections
  Limits <- MCLimits
  Sorts <- MCSorts
  Aggregates <- MCAggregates
  MaxOperators = 6
CHECK_DEADLOCK FALSE
INVARIANTS RelationIsCurrent StoredColumnsStay AnswerIsWanted NoStrayFree
