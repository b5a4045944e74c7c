-------------------------- MODULE MCKafkaConsumer --------------------------
(* Sessions that share a configuration.  Sessions and topics are alike, and *)
(* no definition names one of them.                                         *)
EXTENDS KafkaConsumer, TLC

Alike == Permutations(Sessions) \cup Permutations(Topics)
=============================================================================
