SPECIFICATION Spec
CONSTANTS
    sell = sell
    wish = wish
    other = other
    stored = stored
    NoCards = NoCards
    Lists <- MCLists
    Bodies <- MCBodies
    MaxUpgrades = 2
INVARIANTS
    TypeOK
    IncompleteOnlyIfTorn
