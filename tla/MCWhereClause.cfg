SPECIFICATION Spec
CONSTANTS
  Null = Null
  Garbage = Garbage
  Thrown = Thrown
  NoWhere = NoWhere
  Chars <- MCChars
  ChunkSize = 5
  Threads = 2
  NullText <- MCNullText
  Families <- MCFamilies
  BlockThreads = 2
  ItemsPerThread = 2
CHECK_DEADLOCK FALSE
INVARIANTS
  ScanKeepsMatches
  ValuesAreSql
  NullsHideButNeverFlip
  AnswerIsWhere
