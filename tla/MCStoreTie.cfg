CONSTANTS
    Blocks <- MCTiedBlocks
    Transactions <- MCTransactions
    MineRequests <- MCMineRequests
    HashRank <- MCHashRank
    TornSaves = FALSE
    FailingSaves = FALSE
    DefaultHash = "zero"
    NoHash = "none"
    MaxWork = 100
    MaxAmount = 100
    BlockSubsidy = 3
    MaxMempool = 2
SPECIFICATION Spec
INVARIANT IdleStoreLoads
CHECK_DEADLOCK FALSE
