SPECIFICATION Spec
CONSTANTS
  MaxDupes = 1
  Settings <- Clean
  ConfirmPolls = 1
INVARIANTS SilentLossIsNamed
CHECK_DEADLOCK FALSE
