SPECIFICATION FairSpec
CONSTANTS
  Task <- Fan
  Deps <- FanDeps
  AgentOf <- FanAgent
  Rank <- FanRank
  Required = {4}
  AllowFailed = {2, 4}
  Slots = 2
INVARIANTS
  ProjectionAgrees
  PoolSound
  AncestryExact
PROPERTIES
  EndsDrained
  ImplementsContract
  RunEnds
