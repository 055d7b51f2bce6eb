------------------------- MODULE MCIotSubscriptions ---------------------------
(* An instance of IotSubscriptions for TLC: two nodes of different QoS share *)
(* a topic, a third has one of its own.                                      *)
EXTENDS IotSubscriptions
CONSTANTS s1, s2, s3, t1, t2
MCTopicOf == [s \in Subscribers |-> IF s = s3 THEN t2 ELSE t1]
MCQosOf == [s \in Subscribers |-> IF s = s2 THEN 2 ELSE 0]
==============================================================================
