---------------------------- MODULE MCWriteBytes ----------------------------
(***************************************************************************)
(* Two writers of different sizes; a header and a trailer longer than the  *)
(* smaller one.                                                            *)
(***************************************************************************)
EXTENDS WriteBytes

CONSTANTS short, long

MCSizeOf == [w \in {short, long} |-> IF w = short THEN 1 ELSE 2]
=============================================================================
