SPECIFICATION FairSpec
CONSTANTS
    CPUs = {c1, c2, c3}
    W = 3
INVARIANTS
    MutualExclusion
    TicketInv
PROPERTIES
    ImplementsFifoLock
    EveryTicketServed
CHECK_DEADLOCK TRUE
