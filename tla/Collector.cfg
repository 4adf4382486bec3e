SPECIFICATION FairSpec
CONSTANTS
  MaxTickers = 2
  MaxMembers = 3
  CikOf <- SharedCik
  BatchSize = 2
  Slots = 2
  Interval = 1
  MaxRuns = 2
INVARIANTS
  SlotsHonest
  CacheReadable
  FailuresIsolated
PROPERTIES
  PaceKept
  Ends
CHECK_DEADLOCK FALSE
