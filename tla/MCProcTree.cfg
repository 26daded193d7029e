SPECIFICATION Spec
CONSTANTS
    Pcb = {p1, p2, p3, p4}
    NULL = NULL
    Zero = Zero
    Drained = FALSE
SYMMETRY PcbSymmetry
INVARIANTS
    TypeOK
    ListsEnd
PROPERTIES
    OneChildAtATime
