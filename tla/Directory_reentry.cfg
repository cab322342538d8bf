SPECIFICATION ReentrySpec
CONSTANTS
    p1 = p1
    p2 = p2
    Procs = {p1, p2}
    Names = {n1}
    Ids = {c1}
    Drivers = {d1}
    None = None
    MayCall <- OpenRun
INVARIANT
    ReentryNeverHangs
