CONSTANTS
    Main = main
    Threads = {main, t1}
    InitFpu = init
    SignalSet = {1, 2}
    LowSignals = {1}
    SIGCANCEL = 2
    Systems <- MCSystems
    MaxPosts = 2
    MaxStarts = 2
SPECIFICATION Spec
INVARIANTS
    TypeOK
    FpuIsOwn
    SignalsAccounted
    CancellationHonoured
PROPERTY CancellationDelivered
CHECK_DEADLOCK FALSE
