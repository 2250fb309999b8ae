SPECIFICATION Spec
CONSTANTS
    Blocks <- MCBlocks
    DefaultHash = "zero"
    NoHash = "none"
    MaxWork = 6
    MaxAmount = 3
    BlockSubsidy = 2
INVARIANTS
    ChainTypeOK
    BestTipHeaviest
    EntriesFormATree
PROPERTY
    TipMovesOnlyToMoreWork
