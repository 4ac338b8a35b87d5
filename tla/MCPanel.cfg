SPECIFICATION FairSpec
CONSTANTS
    p1 = p1
    p2 = p2
    a1 = a1
    Pages <- TwoPages
    Actions <- OneAction
    Free = Free
    NoInsights = NoInsights
    MaxChanges = 2
INVARIANTS
    TypeOK
    ShowsWhatIsDue
PROPERTY EverythingAnswered
