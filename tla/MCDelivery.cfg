SPECIFICATION FairDelivery
CONSTANTS
    latin = latin
    cyrillic = cyrillic
    newlineRune = newlineRune
    Newline = newlineRune
    Runes <- Mixed
    Width <- MixedWidth
    Limit = 3
    MaxLength = 6
    Texts <- AnyText
    Notices <- FewNotices
    Mention <- OneRune
INVARIANTS
    TypeOK
    JoinsToMessage
    NoEmptyPart
    LinesKeptWhole
    TooLongByTwoRunes
    ShownInOrder
    ReadsAsOneThread
    AcknowledgedFirst
    NoPlaceholderLeft
    VisibleToWhomItMay
PROPERTY EveryRequestEnds
