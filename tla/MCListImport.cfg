SPECIFICATION Spec
CONSTANTS
    a = a
    b = b
    c = c
    malformed = malformed
    noRow = noRow
    noHash = noHash
    Cards <- ThreeCards
    Malformed = malformed
    Exports <- ShortExports
    Half = 4
    NoRow = noRow
    NoHash = noHash
    BatchSizes <- OneToThree
    MaxParams = 11
INVARIANTS
    TypeOK
    RowsAreTheExport
    StatementsFit
PROPERTY ReplaceIsAtomic
