SPECIFICATION FairSpec
CONSTANTS
  Faults = {"unwritten", "unseen"}
  MaxFaults = 1
  MaxDrafts = 3
  MaxPauses = 2
  Stubborn = TRUE
INVARIANTS
  SettledWhenDone
  OneSlipPerPause
PROPERTIES
  ImplementsJournal
  RunEnds
CHECK_DEADLOCK FALSE
