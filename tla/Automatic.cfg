SPECIFICATION FairSpec
CONSTANTS
  MinMembers = 1
  MaxMembers = 4
  Lanes = 3
  BatchSize = 3
  Slots = 2
  MinScreened = 2
  RatioNum = 2
  RatioDen = 3
  CandidateLimit = 3
  DiligenceLimit = 2
INVARIANTS
  LanesKept
  FunnelAgrees
  ResultsHonest
  DraftsAccepted
PROPERTIES
  Settles
CHECK_DEADLOCK FALSE
