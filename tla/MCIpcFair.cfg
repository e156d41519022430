SPECIFICATION FairSpec
CONSTANTS
    Threads = {t1, t2, t3}
    Boot = t1
    NULL = NULL
    Endpoints = {e1}
    Sizes = {0, 1}
    BaseCredits = 1
    MaxCredits = 2
    AppMay = {}
INVARIANTS
    SendersReachable
PROPERTIES
    ReadyThreadsRun
