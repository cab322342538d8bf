------------------------------ MODULE MCHandles ------------------------------
(* A caller of a backend of each kind, whose functions make up to two      *)
(* operations, beside one that makes one at a time over HTTP.              *)
EXTENDS Handles

CONSTANTS p1, p2

EveryKind == {k \in [Procs -> Backends] : k[p2] = "rest"}

TwoAndOne == [p \in Procs |-> IF p = p1 THEN 2 ELSE 1]
=============================================================================
