------------------------ MODULE MC_KafkaConsumerService ------------------------
(* Small instances of KafkaConsumerService for TLC.                           *)
EXTENDS KafkaConsumerService, TLC

CONSTANTS c1, c2, m1

(* The committed offset of a group that is new to the partition.              *)
NeverCommitted == -1

Symmetry == Permutations({c1, c2})
================================================================================
