SPECIFICATION Spec
CONSTANTS
  Events <- AnyEvents
  NoTime = NoTime
  MaxRecords = 3
  MaxBatch = 2
  Lateness = 1
  LatePolicy = "dlq"
  MaxFaults = 0
INVARIANTS
  ZeroSilentLoss
CHECK_DEADLOCK FALSE
