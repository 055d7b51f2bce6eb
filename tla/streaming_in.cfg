\* Three records, the first older than the group, batches of up to two and
\* three failures.
SPECIFICATION FairSpec
CONSTANTS
  Last = 3
  Start = 2
  Limit = 2
  MaxFaults = 3
  MaxTokens = 6
INVARIANTS
  OnlyConfirmedIsPassed
PROPERTIES
  NoStaleOutput
  EachIsConfirmed
CHECK_DEADLOCK FALSE
