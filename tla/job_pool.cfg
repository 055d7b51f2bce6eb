\* Three inputs, one slot, one waiting place: an input may be refused.
SPECIFICATION FairSpec
CONSTANTS
  Jobs = {j1, j2, j3}
  j1 = j1
  j2 = j2
  j3 = j3
  Kinds = {"sensitive", "monitoring"}
  MaxConcurrent = 1
  MaxQueue = 1
INVARIANTS
  SlotsAreShared
  NoClientOutlives
PROPERTIES
  AnsweredInTime
  EveryInputIsAnswered
CHECK_DEADLOCK FALSE
