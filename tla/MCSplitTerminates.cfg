SPECIFICATION FairSpec
CONSTANTS
    latin = latin
    cyrillic = cyrillic
    newlineRune = newlineRune
    Newline = newlineRune
    Runes <- Mixed
    Width <- MixedWidth
    Limit = 4
    MaxLength = 8
PROPERTY Terminates
