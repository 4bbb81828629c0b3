SPECIFICATION FairSpec
CONSTANTS
  NRows = 5
  Defects = {2, 3, 4}
  Malformed = {3}
  Tables = {"by_id", "by_hour"}
  ChunkSize = 2
  MaxAttempts = 3
  Schedule <- DocumentedSchedule
  TaskMaxFailures = 2
INVARIANTS
  NoStatementDropped
  SinkInv
  EveryStatementCountedOnce
  AccountsBalance
  BudgetIsShared
PROPERTIES
  ImplementsPartition
  TaskEnds
CHECK_DEADLOCK FALSE
