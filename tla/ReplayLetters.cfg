SPECIFICATION Spec
CONSTANTS
  Events <- OneClean
  MaxReplays = 3
  Ceiling = 4
  Retries = 1
  Statements = 2
  MaxCopies = 2
  MaxHistory = 3
  MaxCounted = 0
INVARIANTS
  LettersArePaidFor
