SPECIFICATION Spec
CONSTANTS
    p1 = p1
    p2 = p2
    p3 = p3
    Procs = {p1, p2, p3}
    Names = {n1}
    Ids = {c1}
    Drivers = {d1}
    None = None
    MayCall <- RemoveCloseRun
INVARIANT
    CloseWaitsForRuns
