SPECIFICATION Spec
CONSTANTS
  Faults = {}
  MaxFaults = 0
  MaxDrafts = 1
  MaxPauses = 1
  Stubborn = FALSE
INVARIANTS
  CancelledRunHasEnded
CHECK_DEADLOCK FALSE
