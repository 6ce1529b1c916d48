------------------------------- MODULE MCTds --------------------------------
(* Instances of TdsEngine for TLC: two reads and a write.                   *)
EXTENDS TdsEngine
CONSTANTS r1, r2, w1
MCDir == [j \in Job |-> IF j = w1 THEN "write" ELSE "read"]
=============================================================================
