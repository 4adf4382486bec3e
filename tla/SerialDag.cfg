SPECIFICATION Spec
CONSTANTS
  Task <- Flow
  Deps <- FlowDeps
  AgentOf <- FlowAgent
  Rank <- FlowRank
  Required = {1, 5}
  AllowFailed = {4}
INVARIANTS
  JournalAgrees
PROPERTIES
  ImplementsContract
CHECK_DEADLOCK FALSE
