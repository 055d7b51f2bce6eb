\* One transaction under contention: a sql and a dequeue handler on two nodes,
\* two begin nodes (one with a timeout), an end-transaction input that commits
\* and a finalize() call.
SPECIFICATION FairSpec
CONSTANTS
  t1 = t1
  o1 = o1
  o2 = o2
  b1 = b1
  b2 = b2
  n1 = n1
  n2 = n2
  c1 = c1
  c2 = c2
  Nobody = Nobody
  Txns = {t1}
  Ops = {o1, o2}
  Begins = {b1, b2}
  TimedBegins = {b1}
  Nodes = {n1, n2}
  Callers = {c1, c2}
  KindOf <- TwoKinds
  NodeOf <- TwoNodes
  CallKind <- EndAndFinalize
INVARIANTS
  ConnectionIsExclusive
  BrokenNeverCommits
  ReportsAreTrue
  NothingIsLeftBehind
PROPERTIES
  ImplementsItsContracts
  EverythingSettles
CHECK_DEADLOCK FALSE
