SPECIFICATION Spec
CONSTANTS
    Pcb = {p1, p2, p3, p4}
    SemAdd = {1, 2, 3}
    MAXPROC = 2
    NULL = 9
SYMMETRY PcbSymmetry
INVARIANTS
    TypeOK
    ListsIntact
    WaitersFound
PROPERTIES
    ImplementsFifo
    RefusesOnlyWhenFull
