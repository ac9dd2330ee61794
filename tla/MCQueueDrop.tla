---------------------------- MODULE MCQueueDrop ----------------------------
(* An instance of QueueDrop for TLC.                                       *)
EXTENDS QueueDrop, QueueBatch, QueueInvariant, TLC

CONSTANTS elem_a, elem_b, elem_x

MCElement == {elem_a, elem_b, elem_x}
OneOrTwo == {<<elem_a>>, <<elem_a, elem_b>>}
InsertOneOrTwo == {<<elem_x>>, <<elem_x, elem_x>>}
Symmetry == Permutations(Producers) \cup Permutations(Consumers)
=============================================================================
