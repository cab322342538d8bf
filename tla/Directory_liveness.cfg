SPECIFICATION FairSpec
CONSTANTS
    p1 = p1
    p2 = p2
    p3 = p3
    Procs = {p1, p2, p3}
    Names = {n1, n2}
    Ids = {c1, c2}
    Drivers = {d1}
    None = None
    MayCall <- LiveCalls
PROPERTIES
    CallsReturn
    ClosedDirectoryIsDrained
