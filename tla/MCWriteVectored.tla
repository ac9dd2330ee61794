-------------------------- MODULE MCWriteVectored --------------------------
(* Instances of WriteVectored for TLC.                                     *)
EXTENDS WriteVectored

CONSTANTS u, v

MCBlob == {u, v}
MCSizeOf == [value \in {u, v} |-> IF value = u THEN 1 ELSE 2]
=============================================================================
