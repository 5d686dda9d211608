--------------------------- MODULE MCKafkaSource ---------------------------
(* Instances of KafkaSource for TLC: the constants are model values.         *)
EXTENDS KafkaSource
=============================================================================
