----------------------------- MODULE ProcQueue1 -----------------------------
(***************************************************************************)
(* The process queues of src/phase1/pcb.c.  They are those of phase 2 with *)
(* the two links exchanged, here p_next leads from the tail to the head,   *)
(* except for outProcQ.                                                    *)
(***************************************************************************)
EXTENDS Integers, FiniteSets, SequencesExt

CONSTANTS Pcb, Queue, pcbList_h, NULL

VARIABLES p_next, p_prev, tp, ret

vars == <<p_next, p_prev, tp, ret>>

Phase2 == INSTANCE ProcQueue WITH p_next <- p_prev, p_prev <- p_next

Contents(t) == Phase2!Contents(t)

Init == Phase2!Init

insertProcQ(q, p) == Phase2!insertProcQ(q, p)

removeProcQ(q) == Phase2!removeProcQ(q)

headProcQ(q) == Phase2!headProcQ(q)

freePcb(p) == insertProcQ(pcbList_h, p)

allocPcb == Phase2!allocPcb

\* Mutant of OutTail: the tail pointer goes to the head.
OutTailTurned(q) == /\ Phase2!Unlinked(tp[q])
                    /\ tp' = [tp EXCEPT ![q] = p_next[@]]
                    /\ ret' = NULL

\* The tail of a queue of two or more is unlinked.  The search that follows starts
\* behind it, does not meet it any more, and reports that it was not found.
OutTail(q) == /\ Phase2!Unlinked(tp[q])
              /\ tp' = [tp EXCEPT ![q] = p_prev[@]]
              /\ ret' = NULL

\* Another pcb than the tail is looked for from the head, MAXPROC pcbs far.
OutInner(q, p) ==
    IF p \in ToSet(Contents(tp[q]))
    THEN Phase2!Unlinked(p) /\ ret' = p /\ UNCHANGED tp
    ELSE ret' = NULL /\ UNCHANGED <<p_next, p_prev, tp>>

outProcQ(q, p) ==
    \/ tp[q] = NULL /\ ret' = NULL /\ UNCHANGED <<p_next, p_prev, tp>>
    \/ tp[q] = p /\ p_next[p] = p
       /\ tp' = [tp EXCEPT ![q] = NULL] /\ ret' = p /\ UNCHANGED <<p_next, p_prev>>
    \/ tp[q] = p /\ p_next[p] # p /\ OutTail(q)
    \/ tp[q] # NULL /\ tp[q] # p /\ OutInner(q, p)

Next ==
    \/ allocPcb
    \/ \E p \in Pcb : freePcb(p)
    \/ \E q \in Queue \ {pcbList_h} : removeProcQ(q) \/ headProcQ(q)
    \/ \E q \in Queue \ {pcbList_h}, p \in Pcb : insertProcQ(q, p) \/ outProcQ(q, p)

Spec == Init /\ [][Next]_vars

=============================================================================
