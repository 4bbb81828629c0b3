SPECIFICATION Spec
CONSTANTS
  MaxPayloads = 3
  QueueMax = 2
  MaxAttempts = 2
  DuplicateRatio = TRUE
CHECK_DEADLOCK FALSE
INVARIANTS
  UnwritableDlqIsLoud
