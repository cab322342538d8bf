SPECIFICATION TxSpec
CONSTANTS
    c1 = c1
    c2 = c2
    Procs = {p1, p2}
    Names = {n1}
    Ids = {c1, c2}
    None = None
    Limit <- Limits
    Members = 0
    Faulty = {}
    MaxOpen <- Pools
SYMMETRY Symmetry
INVARIANTS
    TxTypeOK
    NoTxLeftOpen
    AnswerMatchesOutcome
    FunctionsLeaveRoom
