--------------------------------- MODULE ASL ---------------------------------
(***************************************************************************)
(* The active semaphore list of src/phase2/asl.c (the same file in phase   *)
(* 3), and of src/phase1/asl.c, which differs in that p_semAdd is not      *)
(* cleared.  Process queues are sequences here (see ProcQueue).            *)
(*                                                                         *)
(* The descriptors are the elements 1 .. MAXPROC + 2 of semdTable; 0 is    *)
(* the pointer that static memory starts out with and NULL is 0xFFFFFFFF,  *)
(* larger than every address.                                              *)
(***************************************************************************)
EXTENDS Integers, FiniteSets, SequencesExt

CONSTANTS
    Pcb,
    SemAdd,  \* addresses of semaphores
    MAXPROC,
    NULL

ASSUME ASLAssumption ==
    /\ MAXPROC \in Nat \ {0} /\ NULL \in Nat /\ MAXPROC + 2 < NULL
    /\ \A a \in SemAdd : a \in 1 .. NULL - 1

Semd == 1 .. MAXPROC + 2
semd_h == MAXPROC + 1
LastDummy == MAXPROC + 2

VARIABLES
    s_next,
    s_semAdd,
    s_procQ,
    semdFree_h,
    p_semAdd,
    phase       \* whose asl.c it is: 1, or 2 for phases 2 and 3

vars == <<s_next, s_semAdd, s_procQ, semdFree_h, p_semAdd, phase>>

TypeOK ==
    /\ s_next \in [Semd -> Semd \cup {0, NULL}]
    /\ s_semAdd \in [Semd -> SemAdd \cup {0, NULL}]
    /\ DOMAIN s_procQ = Semd /\ \A s \in Semd : s_procQ[s] \in Seq(Pcb)
    /\ semdFree_h \in Semd \cup {0, NULL}
    /\ p_semAdd \in [Pcb -> SemAdd \cup {NULL}]
    /\ phase \in {1, 2}

\* The descriptors from s along s_next.
Path(s) ==
    LET next == [t \in Semd \cup {0, NULL} |-> IF t \in Semd THEN s_next[t] ELSE NULL]
        at[n \in Nat] == IF n = 0 THEN s ELSE next[at[n - 1]]
        ends == {n \in 0 .. Cardinality(Semd) : at[n] \notin Semd}
    IN [i \in 1 .. IF ends = {} THEN 0 ELSE Min(ends) |-> at[i - 1]]

Active == ToSet(Path(semd_h)) \ {semd_h, LastDummy}

\* The processes blocked on a semaphore.
Blocked(a) == LET found == {s \in Active : s_semAdd[s] = a} IN
              IF found = {} THEN <<>> ELSE s_procQ[CHOOSE s \in found : TRUE]

Queued == UNION {ToSet(Blocked(a)) : a \in SemAdd}

----------------------------------------------------------------------------
(* Helpers.                                                                *)

\* Mutant of traverseASL: it goes one descriptor too far.
traverseTooFar(a) ==
    LET list == Path(semd_h)
    IN list[Min({i \in 2 .. Len(list) : s_semAdd[list[i]] > a}) - 1]

\* The descriptor before the first one whose address is at least a.
traverseASL(a) ==
    LET list == Path(semd_h)
    IN list[Min({i \in 2 .. Len(list) : s_semAdd[list[i]] >= a}) - 1]

\* Mutant of semdAlloc: the last free descriptor is kept back.
semdAllocKeeps ==
    IF semdFree_h \in {0, NULL} \/ s_next[semdFree_h] \in {0, NULL} THEN NULL ELSE semdFree_h

\* The descriptor semdAlloc returns.
semdAlloc == IF semdFree_h \in {0, NULL} THEN NULL ELSE semdFree_h

\* Mutant of semdDealloc: the free list is dropped.
semdDeallocDrops(s, q) ==
    LET child == s_next[s] IN
    /\ s_next' = [s_next EXCEPT ![s] = s_next[child], ![child] = NULL]
    /\ semdFree_h' = child
    /\ s_semAdd' = [s_semAdd EXCEPT ![child] = NULL]
    /\ s_procQ' = [s_procQ EXCEPT ![child] = <<>>]

\* Mutant of semdDealloc: the queue is not looked at.
semdDeallocAlways(s, q) ==
    LET child == s_next[s] IN
    /\ s_next' = [s_next EXCEPT ![s] = s_next[child], ![child] = semdFree_h]
    /\ semdFree_h' = child
    /\ s_semAdd' = [s_semAdd EXCEPT ![child] = NULL]
    /\ s_procQ' = [s_procQ EXCEPT ![child] = <<>>]

\* The descriptor after s, left with the queue q, goes to the free list if q is empty.
semdDealloc(s, q) ==
    LET child == s_next[s] IN
    IF q # <<>>
    THEN s_procQ' = [s_procQ EXCEPT ![child] = q] /\ UNCHANGED <<s_next, s_semAdd, semdFree_h>>
    ELSE /\ s_next' = [s_next EXCEPT ![s] = s_next[child], ![child] = semdFree_h]
         /\ semdFree_h' = child
         /\ s_semAdd' = [s_semAdd EXCEPT ![child] = NULL]
         /\ s_procQ' = [s_procQ EXCEPT ![child] = <<>>]

----------------------------------------------------------------------------
(* The operations.                                                         *)

insertBlocked(a, p) ==
    LET s == traverseASL(a)
        new == semdAlloc
    IN /\ p \notin Queued
       /\ IF s_semAdd[s_next[s]] = a
          THEN /\ s_procQ' = [s_procQ EXCEPT ![s_next[s]] = Append(@, p)]
               /\ p_semAdd' = [p_semAdd EXCEPT ![p] = a]
               /\ UNCHANGED <<s_next, s_semAdd, semdFree_h>>
          ELSE IF new = NULL
          THEN semdFree_h' = NULL /\ UNCHANGED <<s_next, s_semAdd, s_procQ, p_semAdd>>
          ELSE /\ s_next' = [s_next EXCEPT ![new] = s_next[s], ![s] = new]
               /\ s_semAdd' = [s_semAdd EXCEPT ![new] = a]
               /\ s_procQ' = [s_procQ EXCEPT ![new] = <<p>>]
               /\ semdFree_h' = s_next[new]
               /\ p_semAdd' = [p_semAdd EXCEPT ![p] = a]
       /\ UNCHANGED phase

\* Mutant of Forgotten: NULL taken for 0.
ForgottenZero(p) == [p_semAdd EXCEPT ![p] = 0]

\* p_semAdd once p is out of its queue.
Forgotten(p) == IF phase = 1 THEN p_semAdd ELSE [p_semAdd EXCEPT ![p] = NULL]

removeBlocked(a) ==
    LET s == traverseASL(a) IN
    /\ s_semAdd[s_next[s]] = a
    /\ semdDealloc(s, Tail(s_procQ[s_next[s]]))
    /\ p_semAdd' = Forgotten(Head(s_procQ[s_next[s]]))
    /\ UNCHANGED phase

\* terminateProcess calls it for blocked processes, p1test.c:309 also for one that no
\* longer is.  (A p_semAdd of NULL would lead to the last dummy.)
outBlocked(p) ==
    LET s == traverseASL(p_semAdd[p])
        q == s_procQ[s_next[s]]
        found == p \in ToSet(q)
    IN /\ found \/ (phase = 1 /\ p_semAdd[p] # NULL)
       /\ s_semAdd[s_next[s]] = p_semAdd[p]
       /\ semdDealloc(s, IF found THEN RemoveFirst(q, p) ELSE q)
       /\ p_semAdd' = Forgotten(p)
       /\ UNCHANGED phase

headBlocked(a) ==
    LET s == s_next[traverseASL(a)] IN
    IF s_semAdd[s] = a /\ s_procQ[s] # <<>> THEN Head(s_procQ[s]) ELSE NULL

\* initASL: the last of the free descriptors and the fields that are not assigned
\* have what static memory starts out with.
Init ==
    /\ s_next = [s \in Semd |-> IF s < MAXPROC THEN s + 1
                                ELSE IF s = semd_h THEN LastDummy
                                ELSE IF s = LastDummy THEN NULL ELSE 0]
    /\ s_semAdd = [s \in Semd |-> IF s = LastDummy THEN NULL ELSE 0]
    /\ s_procQ = [s \in Semd |-> <<>>]
    /\ semdFree_h = 1
    /\ p_semAdd = [p \in Pcb |-> NULL]
    /\ phase \in {1, 2}

Next ==
    \/ \E a \in SemAdd : removeBlocked(a) \/ \E p \in Pcb : insertBlocked(a, p)
    \/ \E p \in Pcb : outBlocked(p)

Spec == Init /\ [][Next]_vars

----------------------------------------------------------------------------
(* Correctness.                                                            *)

\* The active list is sorted, ends in its last dummy and has only semaphores with
\* waiters; every other descriptor is on the free list, and none is on both.
ListsIntact ==
    LET active == Path(semd_h)
        free == IF semdFree_h \in Semd THEN Path(semdFree_h) ELSE <<>>
    IN /\ active # <<>> /\ active[Len(active)] = LastDummy
       /\ \A i \in 1 .. Len(active) - 1 : s_semAdd[active[i]] < s_semAdd[active[i + 1]]
       /\ \A s \in Active : s_procQ[s] # <<>>
       /\ ToSet(active) \cap ToSet(free) = {}
       /\ ToSet(active) \cup ToSet(free) = Semd

\* A process is found under the address it waits on, whatever other semaphores are
\* active, and p_semAdd says which; in phase 1 it only says so of blocked ones.
WaitersFound ==
    /\ \A a \in SemAdd :
          headBlocked(a) = IF Blocked(a) = <<>> THEN NULL ELSE Head(Blocked(a))
    /\ \A a \in SemAdd, p \in Pcb : p \in ToSet(Blocked(a)) => p_semAdd[p] = a
    /\ phase = 2 => \A p \in Pcb : p \notin Queued => p_semAdd[p] = NULL

Abstract == INSTANCE Fifo WITH
    Elem <- Pcb, Queue <- SemAdd, seq <- [a \in SemAdd |-> Blocked(a)]

\* The list is one FIFO queue of processes for each address, active or not.
ImplementsFifo == Abstract!FSpec

\* insertBlocked refuses a process only if MAXPROC semaphores are active, and then
\* other than the one it is to wait on.
RefusesOnlyWhenFull ==
    [][\A a \in SemAdd, p \in Pcb : UNCHANGED s_procQ /\ insertBlocked(a, p) =>
          Cardinality(Active) = MAXPROC /\ Blocked(a) = <<>>]_vars

=============================================================================
