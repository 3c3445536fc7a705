SPECIFICATION SessionSpec
CONSTANTS
    Tabs = {t1, t2}
    Slots = {1}
    MaxTokens = 2
INVARIANTS
    SessionTypeOK
PROPERTIES
    FreshTokenSafe
    DeadSessionEnds
