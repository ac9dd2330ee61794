------------------------------ MODULE MCQueue ------------------------------
(* Instances of Queue for TLC.                                             *)
EXTENDS QueueBatch, TLC

CONSTANTS elem_a, elem_b, elem_x

MCElement == {elem_a, elem_b, elem_x}
OneOrTwo == {<<elem_a>>, <<elem_a, elem_b>>}
NoInserts == {}
InsertOne == {<<elem_x>>}
Symmetry == Permutations(Producers) \cup Permutations(Consumers)
=============================================================================
