SPECIFICATION QueuesSpec
CONSTANTS
    Pcb = {p1, p2, p3, p4}
    Queue = {free, a, b}
    pcbList_h = free
    NULL = NULL
PROPERTIES
    OutReturnsTaken
