SPECIFICATION FairSpec
CONSTANTS
    UPROCMAX = 2
    PGMAX = 4
    POOLSIZE = 2
    TLBSIZE = 2
INVARIANTS
    TypeOK
    PoolAgrees
    TLBAgrees
    SwapPoolOwned
    PanicExplained
PROPERTIES
    EndNoticed
    FaultServed
CHECK_DEADLOCK FALSE
