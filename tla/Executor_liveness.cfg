SPECIFICATION RegisteredSpec
CONSTANTS
    c1 = c1
    c2 = c2
    n1 = n1
    n2 = n2
    Procs = {p1, p2, p3}
    Names = {n1, n2}
    Ids = {c1, c2}
    None = None
    Limit <- LimitsTight
    Members = 0
    Faulty = {}
    InOrder <- FirstThenSecond
INVARIANTS
    NestTypeOK
    DeadContextNeverRuns
PROPERTIES
    CancelledNestComesHome
    OrderedNestingReturns
