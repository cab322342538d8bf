SPECIFICATION FairSpec
CONSTANTS
    p1 = p1
    p2 = p2
    Procs = {p1, p2}
    Names = {n1}
    Ids = {c1, c2}
    None = None
    Limit <- OneAtATime
    Servers <- ThreeServers
    Requests <- FiveRequests
    Results <- TwoResults
    Estimate = 3
    Envelopes = {5}
    DefaultMaxRows = 3
    MaximumMaxRows = 3
    DefaultMaxBytes = 6
    MaximumMaxBytes = 10
    MayUse <- Division
INVARIANTS
    TypeOK
    AnswersAreBounded
    TruncationIsExact
PROPERTIES
    NothingUngranted
    QueriesAreAnswered
