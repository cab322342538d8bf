SPECIFICATION Spec
CONSTANTS
    c1 = c1
    c2 = c2
    Procs = {p1, p2, p3}
    Names = {n1}
    Ids = {c1, c2}
    None = None
    Limit <- Limits
    Members = 2
    Faulty = {1}
SYMMETRY Symmetry
INVARIANTS
    TypeOK
    ConcurrencyBounded
    TokensConserved
    ClosedMeansQuiet
    InflightExact
