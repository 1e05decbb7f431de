CONSTANTS
    t1 = t1
    t2 = t2
    a1 = a1
    a2 = a2
    r1 = r1
    None = None
    Latest = Latest
    Txs <- MC_Txs
    Addresses <- MC_Addresses
    Sender <- MC_Sender
    Readers <- MC_Readers
    Forked = TRUE
    MaxBlock = 2
    MaxMine = 2
    MaxSnapshotId = 2

INIT Init_
NEXT RNext

INVARIANT TraceBlockAtomic
