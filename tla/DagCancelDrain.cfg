SPECIFICATION Spec
CONSTANTS
  Task <- Wide
  Deps <- WideDeps
  AgentOf <- WideAgent
  Rank <- WideRank
  Required = {1}
  AllowFailed = {}
  Slots = 2
INVARIANTS
  CancelledMeansDrained
