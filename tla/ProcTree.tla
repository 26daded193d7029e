------------------------------ MODULE ProcTree ------------------------------
(***************************************************************************)
(* The process trees of src/phase2/pcb.c (the same file in phase 3): the   *)
(* children of a pcb are a list from p_child along p_next_sib.  allocPcb   *)
(* belongs to it, because the list relies on links that it clears.         *)
(*                                                                         *)
(* procTable is static: its links start out as 0, which is not NULL        *)
(* (0xFFFFFFFF), and is no address to read or write.  p_prev_sib is left   *)
(* out: it is assigned and never used.                                     *)
(***************************************************************************)
EXTENDS Integers, FiniteSets, SequencesExt

CONSTANTS
    Pcb,
    NULL,
    Zero,   \* the pointer 0
    Drained \* whether the last pcb is allocated while its links are still 0

ASSUME TreeAssumption ==
    IsFiniteSet(Pcb) /\ NULL \notin Pcb /\ Zero \notin Pcb \cup {NULL} /\ Drained \in BOOLEAN

VARIABLES
    pcbFree,    \* the free list, head first
    p_prnt,
    p_child,
    p_next_sib,
    new,        \* the pcb of a process being created, or NULL
    fault       \* address 0 has been read or written

treeVars == <<p_prnt, p_child, p_next_sib>>
vars == <<pcbFree, treeVars, new, fault>>

Pointer == Pcb \cup {NULL, Zero}

TypeOK ==
    /\ pcbFree \in Seq(Pcb) /\ IsInjective(pcbFree)
    /\ p_prnt \in [Pcb -> Pointer]
    /\ p_child \in [Pcb -> Pointer]
    /\ p_next_sib \in [Pcb -> Pointer]
    /\ new \in Pcb \cup {NULL}
    /\ fault \in BOOLEAN

Used == Pcb \ ToSet(pcbFree)

\* The children of x, the latest first.
Children(x) ==
    LET next == [p \in Pointer |-> IF p \in Pcb THEN p_next_sib[p] ELSE NULL]
        at[n \in Nat] == IF n = 0 THEN p_child[x] ELSE next[at[n - 1]]
        ends == {n \in 0 .. Cardinality(Pcb) : at[n] \notin Pcb}
    IN [i \in 1 .. IF ends = {} THEN 0 ELSE Min(ends) |-> at[i - 1]]

IsChild(p) == \E x \in Pcb : p \in ToSet(Children(x))

----------------------------------------------------------------------------
(* The operations.                                                         *)

\* Mutant of Cleared: the links are never cleared.
ClearedNever(link, p) == link

\* The links of the pcb that allocPcb hands out; those of the last one stay.
Cleared(link, p) == IF Len(pcbFree) = 1 THEN link ELSE [link EXCEPT ![p] = NULL]

allocPcb ==
    LET p == Head(pcbFree) IN
    /\ pcbFree # <<>> /\ new = NULL
    /\ Len(pcbFree) = 1 /\ p_child[p] = Zero => Drained
    /\ pcbFree' = Tail(pcbFree)
    /\ p_prnt' = Cleared(p_prnt, p)
    /\ p_child' = Cleared(p_child, p)
    /\ p_next_sib' = Cleared(p_next_sib, p)
    /\ new' = p
    /\ UNCHANGED fault

\* Mutant of freePcb: it may be free already.
freePcbAgain(p) ==
    /\ p # new /\ ~IsChild(p) /\ p_child[p] = NULL
    /\ pcbFree' = Append(pcbFree, p)
    /\ UNCHANGED <<treeVars, new, fault>>

\* A pcb is freed when it is in no list of children and has none.
freePcb(p) ==
    /\ p \in Used /\ p # new /\ ~IsChild(p) /\ p_child[p] = NULL
    /\ pcbFree' = Append(pcbFree, p)
    /\ UNCHANGED <<treeVars, new, fault>>

\* Mutant of FirstChild: the link to siblings stays as it was.
FirstChildStale(x) == p_prnt' = [p_prnt EXCEPT ![new] = x] /\ UNCHANGED p_next_sib

\* The new pcb becomes the only child of x.
FirstChild(x) ==
    /\ p_prnt' = [p_prnt EXCEPT ![new] = x]
    /\ p_next_sib' = [p_next_sib EXCEPT ![new] = NULL]

\* The first process is its own: it has no parent.
noParent == new # NULL /\ Used = {new} /\ new' = NULL /\ UNCHANGED <<pcbFree, treeVars, fault>>

\* The new pcb becomes a child of x.  Only the first child has its p_prnt set.
insertChild(x) ==
    /\ new # NULL /\ x \in Used /\ x # new
    /\ IF p_child[x] = NULL
       THEN FirstChild(x)
       ELSE p_next_sib' = [p_next_sib EXCEPT ![new] = p_child[x]] /\ UNCHANGED p_prnt
    /\ p_child' = [p_child EXCEPT ![x] = new]
    /\ fault' = (p_child[x] = Zero)
    /\ new' = NULL
    /\ UNCHANGED pcbFree

removeChild(x) ==
    /\ x \in Used /\ p_child[x] # NULL
    /\ IF p_child[x] = Zero
       THEN fault' = TRUE /\ UNCHANGED p_child
       ELSE p_child' = [p_child EXCEPT ![x] = p_next_sib[p_child[x]]] /\ UNCHANGED fault
    /\ UNCHANGED <<pcbFree, p_prnt, p_next_sib, new>>

\* The links once the sibling before p, among the children of x, skips p.
Skipped(x, p) ==
    LET list == Children(x)
        i == CHOOSE j \in 1 .. Len(list) : list[j] = p
    IN [p_next_sib EXCEPT ![list[i - 1]] = p_next_sib[p]]

\* p is looked for among the children of its p_prnt, which may be that of an earlier
\* life of p; nothing happens if it is not there.
outChild(p) ==
    LET x == p_prnt[p] IN
    /\ p \in Used /\ p # new /\ x # NULL
    /\ x = Zero \/ p \in ToSet(Children(x))
    /\ fault' = (x = Zero)
    /\ CASE x = Zero -> UNCHANGED <<p_child, p_next_sib>>
         [] x # Zero /\ p_child[x] = p ->
               p_child' = [p_child EXCEPT ![x] = p_next_sib[p]] /\ UNCHANGED p_next_sib
         [] x # Zero /\ p_child[x] # p ->
               p_next_sib' = Skipped(x, p) /\ UNCHANGED p_child
    /\ UNCHANGED <<pcbFree, p_prnt, new>>

Init ==
    /\ pcbFree \in SetToSeqs(Pcb)
    /\ p_prnt = [p \in Pcb |-> Zero]
    /\ p_child = [p \in Pcb |-> Zero]
    /\ p_next_sib = [p \in Pcb |-> Zero]
    /\ new = NULL
    /\ fault = FALSE

Next ==
    /\ ~fault
    /\ \/ allocPcb \/ noParent
       \/ \E p \in Pcb : freePcb(p) \/ insertChild(p) \/ removeChild(p) \/ outChild(p)

Spec == Init /\ [][Next]_vars

----------------------------------------------------------------------------
(* Correctness.                                                            *)

\* The new pcb becomes the first child of one parent, or one child leaves one list,
\* from wherever it is; no list picks up pcbs from an earlier life of its members.
OneChildAtATime ==
    [][LET changed == {x \in Pcb : Children(x)' # Children(x)} IN
       /\ Cardinality(changed) <= 1
       /\ \A x \in changed :
             \/ Children(x)' = <<new>> \o Children(x)
             \/ \E p \in ToSet(Children(x)) : Children(x)' = RemoveFirst(Children(x), p)]_vars

\* Every list of children ends in NULL, nothing on it is free, and 0 is not used as
\* a pointer.
ListsEnd ==
    /\ \A x \in Used \ {new} : p_child[x] # Zero
    /\ \A x \in Pcb : Children(x) # <<>> => p_next_sib[Last(Children(x))] = NULL
    /\ \A x \in Pcb : ToSet(Children(x)) \subseteq Used
    /\ ~fault

\* allocPcb removes an element from the free list and initializes it (pcb.c:13).
AllocInitializes == new # NULL => p_child[new] = NULL

=============================================================================
