------------------------------ MODULE MCSqlxTx ------------------------------
(* Two Runs against two generations of a source.  The pool of c1 has a     *)
(* connection for each of the two functions its throttle admits; c2 has no *)
(* throttle and one connection, so its functions wait in the pool.         *)
EXTENDS SqlxTx, TLC

CONSTANTS c1, c2

Limits == [c \in Ids |-> IF c = c1 THEN 2 ELSE 0]

Pools == [c \in Ids |-> IF c = c1 THEN 2 ELSE 1]

Symmetry == Permutations(Procs)
============================================================================
