--------------------------- MODULE MCKafkaConsumer ----------------------------
(* Instances of KafkaConsumer.                                             *)
EXTENDS KafkaConsumer
==============================================================================
