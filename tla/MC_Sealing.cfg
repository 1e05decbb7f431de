CONSTANTS
    t1 = t1
    a1 = a1
    None = None
    NoTime = NoTime
    Txs <- MC_Txs
    Addresses <- MC_Addresses
    Sender <- MC_Sender
    MaxBlock = 2
    MaxMine = 2
    MaxSnapshotId = 1
    MaxTime = 2
    Gaps = {1}
    Periods = {1}

INIT CInit
NEXT CNext

INVARIANTS
    SealingTypeOK
    


    
