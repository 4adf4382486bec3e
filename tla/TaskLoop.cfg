SPECIFICATION FairSpec
CONSTANTS
  MaxTurns = 4
  MaxToolCalls = 4
  MaxCallsPerTurn = 3
  RepairBudget = 1
  Source = {own, inherited, foreign}
  Allowed = {own, inherited}
  Degraded = TRUE
INVARIANTS
  DraftsAccepted
  BudgetsKept
  SourcesTrusted
PROPERTIES
  RepairsKept
  ImplementsWorker
  Settles
CHECK_DEADLOCK FALSE
