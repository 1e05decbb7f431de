CONSTANTS
    k1 = k1
    k2 = k2
    f1 = f1
    NoFork = NoFork
    Unset = Unset
    Unavailable = Unavailable
    Unit = Unit
    NoBlob = NoBlob
    Keys <- MC_Keys
    CodeKeys <- MC_CodeKeys
    Forks <- MC_OneFork
    Remote <- MC_Remote
    v0 = v0
    v1 = v1
    Values <- MC_Values
    Zero = v0
    MaxSnapshotId = 1
INIT FInit
NEXT FNext
INVARIANT
    StorageTypeOK
PROPERTY
    StoreRefinement
