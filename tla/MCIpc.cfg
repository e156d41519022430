SPECIFICATION Spec
CONSTANTS
    Threads = {t1, t2, t3}
    Boot = t1
    NULL = NULL
    Endpoints = {e1, e2}
    Sizes = {0, 1}
    BaseCredits = 1
    MaxCredits = 1
    AppMay = {"receive_again", "change_buffers"}
SYMMETRY Symmetry
INVARIANTS
    TypeOK
    ListsConsistent
    ServicedSendersWait
    NoMissedRendezvous
    WakesWithOutcome
    AwaitersReleased
