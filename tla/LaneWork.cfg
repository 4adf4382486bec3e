SPECIFICATION FairWorkSpec
CONSTANTS
  Jobs <- JobCount
  Lanes <- LaneSet
  LaneOf <- LaneMap
  Slots = 2
  Answers <- AnswerSet
INVARIANTS
  LanesUsed
PROPERTIES
  WorkEnds
CHECK_DEADLOCK FALSE
