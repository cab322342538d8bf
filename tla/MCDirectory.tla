---------------------------- MODULE MCDirectory ----------------------------
(* Small instances of Directory.  Roles keep the goroutines of a run to    *)
(* the calls the run is about.                                             *)
EXTENDS Directory, TLC

CONSTANTS p1, p2, p3

\* One goroutine closes the directory, one configures it, one runs.
LiveCalls ==
    [p \in Procs |->
        CASE p = p1 -> {"registerDriver", "configure"}
          [] p = p2 -> {"remove", "close"}
          [] OTHER -> {"run"}]

\* One goroutine opens and removes a source, one closes the directory and
\* one runs a function.
RemoveCloseRun ==
    [p \in Procs |->
        CASE p = p1 -> {"registerDriver", "open", "remove"}
          [] p = p2 -> {"close"}
          [] OTHER -> {"run"}]

\* Two goroutines that open, reconfigure and remove, one that uses sources.
ChurnCalls ==
    [p \in Procs |->
        IF p = p3 THEN {"run", "newSource", "sourceRun"}
        ELSE {"registerDriver", "open", "configure", "remove", "close"}]

Symmetry == Permutations(Names) \cup Permutations(Ids)
============================================================================
