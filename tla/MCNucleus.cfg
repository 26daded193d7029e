SPECIFICATION FairSpec
CONSTANTS
    Pcb = {p1, p2, p3}
    Sema4 = {s1, s2}
    Device = {d1}
    Clock = clock
    Support = {}
    NULL = NULL
    SemMax = 2
INVARIANTS
    TypeOK
    ProcessAccounting
    SoftBlockAccounting
    OneQueueEach
    StopsOnlyWhenStuck
    QueuedStateSaved
    NoDangling
    TreeIntact
    SemaphoreAccounting
    DescriptorsSuffice
PROPERTIES
    NoOvertaking
    ImplementsProcesses
    VWakes
    ReadyRuns
    ClockReleases
