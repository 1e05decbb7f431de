CONSTANTS
    t1 = t1
    t2 = t2
    t3 = t3
    f1 = f1
    f2 = f2
    NoFork = NoFork
    Threads <- MC_Threads
    Forks <- MC_Forks
    Calls <- MC_LockOrderCalls
    WriterPreferring = TRUE
    MaxFaults = 0
INIT Init
NEXT LNext
SYMMETRY MC_Symmetry
INVARIANT
    NoDeadlock
CHECK_DEADLOCK FALSE
