\* A dequeue that finds its queue empty while something else ends its
\* transaction.
SPECIFICATION Spec
CONSTANTS
  t1 = t1
  o1 = o1
  o2 = o2
  b1 = b1
  b2 = b2
  n1 = n1
  n2 = n2
  c1 = c1
  c2 = c2
  Nobody = Nobody
  Txns = {t1}
  Ops = {o1, o2}
  Begins = {b1}
  TimedBegins = {b1}
  Nodes = {n1, n2}
  Callers = {c2}
  KindOf <- TwoKinds
  NodeOf <- TwoNodes
  CallKind <- FinalizeOnly
INVARIANT EmptyDequeueCommits
CHECK_DEADLOCK FALSE
