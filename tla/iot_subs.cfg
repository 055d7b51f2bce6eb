\* Two subscribers of one topic and one of another, one telemetry input.
SPECIFICATION IotFairSpec
CONSTANTS
  s1 = s1
  s2 = s2
  s3 = s3
  t1 = t1
  t2 = t2
  Subscribers = {s1, s2, s3}
  Topics = {t1, t2}
  TopicOf <- MCTopicOf
  QosOf <- MCQosOf
  Telemetry = {i1}
  MaxWire = 3
INVARIANTS
  BrokerFollowsTable
PROPERTIES
  EverythingEnds
CHECK_DEADLOCK FALSE
