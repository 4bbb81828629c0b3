SPECIFICATION FairSpec
CONSTANTS
  MaxDupes = 1
  Settings <- AllKinds
  ConfirmPolls = 1
INVARIANTS ScenarioInv DrainedIsComplete LossIsReal LossIsNamed
PROPERTIES QuietAtReport HarnessEnds
CHECK_DEADLOCK FALSE
