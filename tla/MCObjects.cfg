SPECIFICATION Spec
CONSTANTS
    Processes = {p1, p2}
    Endpoints = {e1}
    Threads = {t1, t2}
    NULL = NULL
    DescNum = 2
    BootProcess = p1
    BootThread = t1
    MintPerms = {{"RECEIVE"}, {"SEND"}, {"OPEN"}}
    AppMay = {}
CHECK_DEADLOCK FALSE
INVARIANTS
    TypeOK
    FreedUnreferenced
    RefsCounted
    NothingLeftBehind
    OwnerUnique
