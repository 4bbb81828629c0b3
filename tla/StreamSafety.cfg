SPECIFICATION FairSpec
CONSTANTS
  Events <- AnyEvents
  NoTime = NoTime
  MaxRecords = 3
  MaxBatch = 2
  Lateness = 1
  LatePolicy = "dlq"
  MaxFaults = 2
INVARIANTS
  NoSilentLoss
  LateIsJustified
  
  
  WatermarkIsHistory
PROPERTIES
  ImplementsContract
  EveryRecordSettles
CHECK_DEADLOCK FALSE
