------------------------------ MODULE ProcQueue ------------------------------
(***************************************************************************)
(* The process queues of src/phase2/pcb.c (the same file in phase 3):      *)
(* circular lists through the p_next and p_prev fields of the pcbs, each   *)
(* known by a pointer to its tail.  The free list is one of them.          *)
(*                                                                         *)
(* From the tail, p_prev leads to the head and on from each pcb to the one *)
(* that came after it; p_next leads back.  A pcb that is in no queue keeps *)
(* whatever its links were.                                                *)
(***************************************************************************)
EXTENDS Integers, FiniteSets, SequencesExt

CONSTANTS
    Pcb,       \* the elements of procTable
    Queue,     \* the tail pointers
    pcbList_h, \* the one of the free list
    NULL

ASSUME QueueAssumption ==
    IsFiniteSet(Pcb) /\ Pcb # {} /\ NULL \notin Pcb /\ pcbList_h \in Queue

VARIABLES
    p_next,
    p_prev,
    tp,        \* where the tail pointers point
    ret        \* what the last call returned

vars == <<p_next, p_prev, tp, ret>>
links == <<p_next, p_prev, tp>>

TypeOK ==
    /\ p_next \in [Pcb -> Pcb \cup {NULL}]
    /\ p_prev \in [Pcb -> Pcb \cup {NULL}]
    /\ tp \in [Queue -> Pcb \cup {NULL}]
    /\ ret \in Pcb \cup {NULL}
    /\ \A q \in Queue : tp[q] # NULL => p_prev[tp[q]] # NULL /\ p_next[tp[q]] # NULL

\* The pcbs met on the way from p along the links, until p is met again.
Walk(link, p) ==
    LET next == [t \in Pcb \cup {NULL} |-> IF t \in Pcb THEN link[t] ELSE NULL]
        at[n \in Nat] == IF n = 0 THEN p ELSE next[at[n - 1]]
        rounds == {n \in 1 .. Cardinality(Pcb) : at[n] = p}
    IN [i \in 1 .. IF rounds = {} THEN 0 ELSE Min(rounds) |-> at[i]]

\* The queue whose tail is t, head first.
Contents(t) == IF t = NULL THEN <<>> ELSE Walk(p_prev, t)

Queued == UNION {ToSet(Contents(tp[q])) : q \in Queue}

----------------------------------------------------------------------------
(* The parts of the operations.                                            *)

\* Mutant of Linked: the old head is not told of the new tail.
LinkedOneWay(t, p) ==
    /\ p_prev' = [p_prev EXCEPT ![p] = p_prev[t], ![t] = p]
    /\ p_next' = [p_next EXCEPT ![p] = t]

\* p goes between the tail t and the head.
Linked(t, p) ==
    /\ p_prev' = [p_prev EXCEPT ![p] = p_prev[t], ![t] = p]
    /\ p_next' = [p_next EXCEPT ![p] = t, ![p_prev[t]] = p]

\* Mutant of Unlinked: the links of p are cleared before they are used.
UnlinkedTooLate(p) ==
    /\ p_next' = [p_next EXCEPT ![p_prev[p]] = NULL, ![p] = NULL]
    /\ p_prev' = [p_prev EXCEPT ![p_next[p]] = NULL, ![p] = NULL]

\* p leaves its ring and keeps its own links.
Unlinked(p) ==
    /\ p_next' = [p_next EXCEPT ![p_prev[p]] = p_next[p]]
    /\ p_prev' = [p_prev EXCEPT ![p_next[p]] = p_prev[p]]

\* Mutant of TailWithout: the head becomes the tail.
TailWithoutTurned(t, p) == IF p # t THEN t ELSE IF p_prev[t] = t THEN NULL ELSE p_prev[t]

\* The tail pointer once outProcQ has taken p out: the one before the tail moves up.
TailWithout(t, p) == IF p # t THEN t ELSE IF p_next[t] = t THEN NULL ELSE p_next[t]

\* Mutant of Finds: the search stops before the tail.
FindsBeforeTail(q, p) ==
    tp[q] # NULL /\ p \in ToSet(Walk(p_next, tp[q])) /\ (p = tp[q] => p_next[p] = p)

\* Whether the search, from the one before the tail along p_next and as far as the
\* tail, finds p.
Finds(q, p) == tp[q] # NULL /\ p \in ToSet(Walk(p_next, tp[q]))

----------------------------------------------------------------------------
(* The operations.                                                         *)

insertProcQ(q, p) ==
    /\ p \notin Queued
    /\ IF tp[q] # NULL
       THEN Linked(tp[q], p)
       ELSE p_next' = [p_next EXCEPT ![p] = p] /\ p_prev' = [p_prev EXCEPT ![p] = p]
    /\ tp' = [tp EXCEPT ![q] = p]
    /\ UNCHANGED ret

headProcQ(q) ==
    /\ ret' = IF tp[q] = NULL THEN NULL ELSE p_prev[tp[q]]
    /\ UNCHANGED links

removeProcQ(q) ==
    IF tp[q] = NULL THEN ret' = NULL /\ UNCHANGED links
    ELSE LET head == p_prev[tp[q]] IN
         /\ ret' = head
         /\ IF head = tp[q]
            THEN tp' = [tp EXCEPT ![q] = NULL] /\ UNCHANGED <<p_next, p_prev>>
            ELSE Unlinked(head) /\ UNCHANGED tp

\* p may be anywhere in the queue, in another queue, or in none.
outProcQ(q, p) ==
    IF Finds(q, p)
    THEN /\ Unlinked(p)
         /\ tp' = [tp EXCEPT ![q] = TailWithout(@, p)]
         /\ ret' = p
    ELSE ret' = NULL /\ UNCHANGED links

freePcb(p) == insertProcQ(pcbList_h, p)

\* A pcb is taken off the free list; its links are cleared unless it was the last.
allocPcb ==
    LET head == p_prev[tp[pcbList_h]] IN
    IF tp[pcbList_h] = NULL \/ head = tp[pcbList_h] THEN removeProcQ(pcbList_h)
    ELSE /\ ret' = head
         /\ p_next' = [p_next EXCEPT ![p_prev[head]] = p_next[head], ![head] = NULL]
         /\ p_prev' = [p_prev EXCEPT ![p_next[head]] = p_prev[head], ![head] = NULL]
         /\ UNCHANGED tp

\* initPcbs puts every pcb on the free list in turn; the other queues start out as
\* mkEmptyProcQ().
Init ==
    \E order \in SetToSeqs(Pcb) :
        LET last == Len(order)
            position(p) == CHOOSE i \in 1 .. last : order[i] = p
        IN /\ p_prev = [p \in Pcb |-> order[(position(p) % last) + 1]]
           /\ p_next = [p \in Pcb |-> order[((position(p) + last - 2) % last) + 1]]
           /\ tp = [q \in Queue |-> IF q = pcbList_h THEN order[last] ELSE NULL]
           /\ ret = NULL

Next ==
    \/ allocPcb
    \/ \E p \in Pcb : freePcb(p)
    \/ \E q \in Queue \ {pcbList_h} : removeProcQ(q) \/ headProcQ(q)
    \/ \E q \in Queue \ {pcbList_h}, p \in Pcb : insertProcQ(q, p) \/ outProcQ(q, p)

Spec == Init /\ [][Next]_vars

----------------------------------------------------------------------------
(* Correctness.                                                            *)

\* The two directions of every ring agree whatever the links of a pcb were before
\* it came in, and no ring runs into another.
RingsAgree ==
    /\ \A q \in Queue : tp[q] # NULL =>
          Contents(tp[q]) # <<>> /\ Walk(p_next, p_prev[tp[q]]) = Reverse(Contents(tp[q]))
    /\ \A q, r \in Queue :
          ToSet(Contents(tp[q])) \cap ToSet(Contents(tp[r])) # {} => q = r

=============================================================================
