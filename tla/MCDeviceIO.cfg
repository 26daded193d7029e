SPECIFICATION FairSpec
CONSTANTS
    Proc = {p1, p2}
    Installed <- Devices03
    NULL = NULL
INVARIANTS
    TypeOK
    SemaphoresTellActivity
PROPERTIES
    ImplementsRequests
    Answered
