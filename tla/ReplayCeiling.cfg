SPECIFICATION Spec
CONSTANTS
  Events <- OneRefused
  MaxReplays = 3
  Ceiling = 100
  Retries = 0
  Statements = 2
  MaxCopies = 1
  MaxHistory = 1
  MaxCounted = 4
INVARIANTS
  ReplayCeiling
