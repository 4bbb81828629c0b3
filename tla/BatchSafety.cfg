SPECIFICATION FairSpec
CONSTANTS
  Trips <- TripIds
  EventTime <- TripTime
  MaxNow = 2
  MinRows = 1
  Retries = 1
  MaxHours = 2
  Windows <- AllWindows
  MaxBackfills = 1
INVARIANTS BatchInv ClosedWindowIsLoaded AuditIsHonest
PROPERTIES VerifiedIsExact DriftIsForGood BatchRunsEnd
CHECK_DEADLOCK FALSE
