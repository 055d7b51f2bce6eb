\* One slot, one waiting place or none, two polls and one single request.
SPECIFICATION FairSpec
CONSTANTS
  p1 = p1
  p2 = p2
  n1 = n1
  r1 = r1
  Polls = {p1, p2}
  Requests = {r1}
  PollNodes = {n1}
  NodeOf <- MCNodeOf
  MaxConcurrent = 1
  QueueSizes = {0, 1}
INVARIANTS
  SlotsAreConserved
PROPERTIES
  RepliesAreTrue
  EveryInputEnds
CHECK_DEADLOCK FALSE
