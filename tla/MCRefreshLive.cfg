SPECIFICATION FairSpec
CONSTANTS
    u1 = u1
    b1 = b1
    telegram = telegram
    tick = tick
    t1 = t1
    empty = empty
    A = A
    Logins <- OneLogin
    Slots <- OneList
    Bots <- OneBot
    Platform <- OnTelegram
    Bodies <- OneBody
    NoCards = empty
    NoHash = NoHash
    NoUser = NoUser
    NoLogin = NoLogin
    Tasks <- TwoTasks
    Ticker = tick
    Operations <- LiveOperations
    NotFound = NotFound
    MaxEvents = 1
PROPERTIES
    StaleIsRefreshed
    StoredListsConverge
