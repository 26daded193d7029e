SPECIFICATION Spec
CONSTANTS
    Pcb = {p1, p2}
    Sema4 = {s1}
    Device = {d1}
    Clock = clock
    Support = {}
    NULL = NULL
    SemMax = 1
INVARIANTS
    TerminatedIsOrphaned
