CONSTANTS
    Base = 4
    Width = 8
    KeyLen = 3
    TextBytes = {0, 1}
    DEFAULT_KEY_NAME <- MCDefaultName
SPECIFICATION Spec
INVARIANTS
    TargetIsMantissaTimesPower
    WorkFollowsDifficulty
    EncodingTellsTransactionsApart
    RootTellsListsApart
    
