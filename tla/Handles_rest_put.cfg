SPECIFICATION Spec
CONSTANTS
    p1 = p1
    p2 = p2
    Procs = {p1, p2}
    Keys = {k1}
    Vals = {v1}
    None = None
    Partial = Partial
    Kinds <- EveryKind
    MaxOps <- TwoAndOne
PROPERTY
    RestTranslatesEvery404
