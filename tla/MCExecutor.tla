----------------------------- MODULE MCExecutor -----------------------------
(* Three Runs against one name and two generations of its source: one that *)
(* admits two at a time and one without a limit.                           *)
EXTENDS Executor, TLC

CONSTANTS c1, c2

Limits == [c \in Ids |-> IF c = c1 THEN 2 ELSE 0]

Symmetry == Permutations(Procs)
============================================================================
