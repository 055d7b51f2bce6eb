\* Three messages, batches of two, one retry, four failing calls.
SPECIFICATION ListenerFairSpec
CONSTANTS
  Msgs = {m1, m2, m3}
  m1 = m1
  m2 = m2
  m3 = m3
  BatchSize = 2
  Subscriber = FALSE
  RetryEnabled = TRUE
  MaxRetries = 1
  MaxFaults = 4
INVARIANTS
  AtMostOnce
  SessionsClosed
  GivesUpFairly
PROPERTIES
  ListenerEnds
CHECK_DEADLOCK FALSE
