CONSTANTS
    Blocks <- MCBlocks
    Transactions <- MCTransactions
    MineRequests <- MCMineRequests
    HashRank <- MCHashRank
    TornSaves = TRUE
    FailingSaves = TRUE
    DefaultHash = "zero"
    NoHash = "none"
    MaxWork = 100
    MaxAmount = 100
    BlockSubsidy = 3
    MaxMempool = 2
SPECIFICATION Spec
INVARIANTS
    StoredBlocksReplay
    StoredUtxosAreActive
    PendingAreStored
    RebuiltNodeIsSound
    IndexFollowsBestChain
    WalletHistoryAddsUp
    SettledStoreLoads
CHECK_DEADLOCK FALSE
