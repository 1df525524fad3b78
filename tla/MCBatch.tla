------------------------------- MODULE MCBatch -------------------------------
(* Three items of one origin, two of them of one URL, and one too many.    *)
EXTENDS Batch

CONSTANTS u1, u2

MCUrlOf == [i \in 1..N |-> IF i <= 2 THEN u1 ELSE u2]
=============================================================================
