----------------------------- MODULE ProcQueues -----------------------------
(***************************************************************************)
(* The process queues of all phases implement FIFO queues.                 *)
(***************************************************************************)
EXTENDS ProcQueue

VARIABLE phase \* whose pcb.c it is: 1, or 2 for phases 2 and 3

Phase1 == INSTANCE ProcQueue1

QueuesInit == phase \in {1, 2} /\ IF phase = 1 THEN Phase1!Init ELSE Init

QueuesNext == UNCHANGED phase /\ IF phase = 1 THEN Phase1!Next ELSE Next

QueuesSpec == QueuesInit /\ [][QueuesNext]_<<vars, phase>>

\* The contents of a queue, head first.
QueueOf(q) == IF phase = 1 THEN Phase1!Contents(tp[q]) ELSE Contents(tp[q])

\* The two directions of every ring agree, whatever the links of a pcb were before it
\* came in and whichever way another was taken out, and no ring runs into another.
RingsIntact == IF phase = 1 THEN Phase1!Phase2!RingsAgree ELSE RingsAgree

Abstract == INSTANCE Fifo WITH Elem <- Pcb, seq <- [q \in Queue |-> QueueOf(q)]

\* The rings are first-in first-out queues, and taking a pcb out of turn, be it the
\* head or the tail, leaves the others in order.
ImplementsFifo == Abstract!FSpec

HeadOf(q) == IF QueueOf(q) = <<>> THEN NULL ELSE Head(QueueOf(q))

\* removeProcQ and headProcQ return the head, or NULL of an empty queue (pcb.c:80, 127).
\* outProcQ returns NULL of a pcb that is not in this queue, be it in another one or in
\* none, and in phases 2 and 3 any other that it is asked for (pcb.c:104).
Returns ==
    [][/\ \A q \in Queue :
             IF phase = 1 THEN Phase1!removeProcQ(q) \/ Phase1!headProcQ(q) => ret' = HeadOf(q)
                          ELSE removeProcQ(q) \/ headProcQ(q) => ret' = HeadOf(q)
       /\ \A q \in Queue, p \in Pcb :
             LET here == p \in ToSet(QueueOf(q)) IN
             IF phase = 1 THEN Phase1!outProcQ(q, p) /\ ~here => ret' = NULL
                          ELSE outProcQ(q, p) => ret' = IF here THEN p ELSE NULL]_<<vars, phase>>

\* outProcQ of phase 1, comment at phase1/pcb.c:106: "Return NULL if the desired pcb is
\* not in the given queue, otherwise return p".
OutReturnsTaken ==
    [][\A q \in Queue, p \in Pcb :
          phase = 1 /\ p \in ToSet(QueueOf(q)) /\ Phase1!outProcQ(q, p) => ret' = p]_<<vars, phase>>

=============================================================================
