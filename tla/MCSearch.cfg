SPECIFICATION FairSpec
CONSTANTS
    m1 = m1
    shock = shock
    sudden = sudden
    dashes = dashes
    Shock = Shock
    SuddenShock = SuddenShock
    l1 = l1
    l2 = l2
    noRow = noRow
    Searches <- OneMessage
    Terms <- AllTerms
    NoForm <- Punctuation
    Cards <- TwoCards
    Lists <- TwoLists
    Matches <- TwoCardMatches
    MaxLines = 2
    Half = 3
    NoRow = noRow
    Saved <- FourContents
    MaxSaves = 2
INVARIANTS
    TypeOK
    AnswerWasTrue
    MissesWereTrue
    DemandAddsUp
PROPERTY SearchEnds
