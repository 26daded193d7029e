SPECIFICATION TestSpec
CONSTANTS
    Pcb = {1, 2, 3, 4, 5, 6, 7, 8, 9, 10, 11, 12, 13, 14, 15, 16, 17, 18, 19, 20}
    Sema4 = {"term_mut", "testsem", "startp2", "s", "endp2", "endp3", "blkp4", "synp4", "endp4", "endp5", "endp8", "endcreate", "blkp8"}
    Device = {"term0"}
    Clock = "clock"
    Support = {"pFiveSupport"}
    NULL = NULL
    SemMax = 10
    Slices = 4
INVARIANTS
    Passes
PROPERTIES
    Finishes
