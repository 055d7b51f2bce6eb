\* Two partitions of two records, batches of up to two, one rebalance that takes
\* partitions away and one commit that fails.
SPECIFICATION FairSpec
CONSTANTS
  Partitions = {p1, p2}
  Last = 2
  Limit = 2
  MaxRebalances = 1
  MaxFaults = 1
  MaxTokens = 6
INVARIANTS
  HeldUntilConfirmed
PROPERTIES
  AnswersAreTrue
  EachIsConfirmed
CHECK_DEADLOCK FALSE
