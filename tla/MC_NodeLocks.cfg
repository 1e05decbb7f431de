CONSTANTS
    t1 = t1
    t2 = t2
    t3 = t3
    f1 = f1
    f2 = f2
    NoFork = NoFork
    Threads <- MC_TwoThreads
    Forks <- MC_Forks
    Calls <- MC_AllCalls
    WriterPreferring = TRUE
    MaxFaults = 1
INIT Init
NEXT LNext
SYMMETRY MC_TwoSymmetry
INVARIANTS
    LocksTypeOK
    FetchFromCurrentFork
CHECK_DEADLOCK FALSE
