SPECIFICATION FairSpec
CONSTANTS
  Events <- CleanAndGarbled
  MaxReplays = 3
  Ceiling = 3
  Retries = 1
  Statements = 1
  MaxCopies = 1
  MaxHistory = 1
  MaxCounted = 0
INVARIANTS
  DrainIsHonest
  ReplayInv
PROPERTIES
  EventuallyRecovered
  RunsEnd
