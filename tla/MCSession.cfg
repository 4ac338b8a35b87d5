SPECIFICATION FairSpec
CONSTANTS
    w1 = w1
    w2 = w2
    Workers <- TwoWorkers
    Free = Free
    MaxIssued = 3
INVARIANTS
    TypeOK
    LoginOnlyWhenNeeded
    SelfHeals
PROPERTY FetchReturns
