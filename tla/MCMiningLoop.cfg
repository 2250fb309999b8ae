SPECIFICATION Spec
CONSTANTS
    Txs = {t1, t2}
    MaxTip = 1
    MaxTransactions = 1
    Capacity = 5
    Load = 1
    SyncAdvances = FALSE
INVARIANTS
    MiningTypeOK
    
    

    
    
