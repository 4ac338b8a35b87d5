SPECIFICATION FairSpec
CONSTANTS
    w1 = w1
    w2 = w2
    w3 = w3
    Workers <- ThreeWorkers
    Count = 4
INVARIANTS
    TypeOK
    NoSendOnClosed
PROPERTIES
    KeepsPromise
    NoGoroutineLeft
