SPECIFICATION Spec
CONSTANTS
    Blocks <- MCBlocks
    Transactions <- MCTransactions
    MineRequests <- MCMineRequests
    Payments <- MCPayments
    DefaultHash = "zero"
    NoHash = "none"
    MaxWork = 7
    MaxAmount = 8
    BlockSubsidy = 3
    MaxMempool = 2
INVARIANT PreferredTipIsValid
