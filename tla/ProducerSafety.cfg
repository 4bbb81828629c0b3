SPECIFICATION FairSpec
CONSTANTS
  MaxPayloads = 3
  QueueMax = 2
  MaxAttempts = 2
  DuplicateRatio = TRUE
INVARIANTS
  ProducerInv
  NoPayloadForgotten
  ReportAddsUp
PROPERTIES
  FailuresAreDrained
CHECK_DEADLOCK FALSE
