-------------------------- MODULE MCObserverReentry --------------------------
(* One goroutine opens and removes sources, one runs functions.            *)
EXTENDS ObserverReentry, TLC

CONSTANTS p1, p2

OpenRun == [p \in Procs |-> IF p = p1 THEN {"registerDriver", "open", "remove"} ELSE {"run"}]
============================================================================
