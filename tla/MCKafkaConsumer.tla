-------------------------- MODULE MCKafkaConsumer --------------------------
(***************************************************************************)
(* Instances of KafkaConsumer for TLC.                                     *)
(***************************************************************************)
EXTENDS KafkaConsumer, TLC

\* Neither the workers nor the partitions differ in anything (runs without liveness only).
Symmetry == {f @@ g : f \in Permutations(Partitions), g \in Permutations(Workers)}
=============================================================================
