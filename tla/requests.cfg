\* Every handler in turn, with three inputs.
SPECIFICATION FairSpec
CONSTANTS
  Inputs = {i1, i2, i3}
  Kinds <- MCKinds
INVARIANTS
  NothingOutlivesClose
  SharedIsUsable
PROPERTIES
  ClosedIsQuiet
  EveryInputIsAnswered
CHECK_DEADLOCK FALSE
