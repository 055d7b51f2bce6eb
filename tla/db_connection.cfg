SPECIFICATION FairSpec
CONSTANTS
  Inputs = {i1, i2}
  Tests = {t1}
INVARIANTS
  WorkIsSettled
  NothingLeaks
PROPERTIES
  EverythingEnds
CHECK_DEADLOCK FALSE
