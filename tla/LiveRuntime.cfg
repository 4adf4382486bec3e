SPECIFICATION FairSpec
CONSTANTS
  Tickers = 3
  Budgets = {2, 4}
  Packets <- PacketSet
INVARIANTS
  LiveDraftsAccepted
  LiveRunHonest
PROPERTIES
  LiveEnds
CHECK_DEADLOCK FALSE
