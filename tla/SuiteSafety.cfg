SPECIFICATION Spec
CONSTANTS
  Rates <- MCRates
  Scenarios <- MCScenarios
  StopAfter = 2
  Repeats = 2
  MaxCount = 1
INVARIANTS
  SuiteInv
  SweepHeadline
  RecoveryIsMeasured
  ReductionHasBothArms
CHECK_DEADLOCK FALSE
