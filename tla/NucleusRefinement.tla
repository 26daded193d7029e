------------------------- MODULE NucleusRefinement -------------------------
(***************************************************************************)
(* The nucleus implements Processes: to the processes that stay, the       *)
(* recursion of terminateProcess is one step.                              *)
(***************************************************************************)
EXTENDS Nucleus

\* The processes that SYS2 has still to remove, which for the promise are gone
\* from the moment it was called.
Doomed == IF dying = <<>> THEN {} ELSE Progeny(ToSet(dying))

ParentOf(p) ==
    IF p \in Live \ Doomed /\ \E q \in Pcb : p \in Children(q)
    THEN CHOOSE q \in Pcb : p \in Children(q)
    ELSE NULL

Promise == INSTANCE Processes WITH
    Process <- Pcb, Counting <- Sema4, Event <- Device \cup {Clock}, Nobody <- NULL,
    run     <- IF InKernel THEN NULL ELSE currentProc,
    ready   <- Ready \ Doomed,
    waits   <- [a \in SemAdd |-> ToSet(asl[a]) \ Doomed],
    count   <- [s \in Sema4 |-> semaphore[s] + Cardinality(ToSet(asl[s]) \cap Doomed)],
    parent  <- [p \in Pcb |-> ParentOf(p)]

\* Every step of the nucleus is a step of Processes or changes nothing there: SYS2
\* removes exactly the caller and its progeny and undoes their Ps, a V lets
\* somebody go if and only if somebody waits, and no handler does anything else.
ImplementsProcesses == Promise!PSpec

=============================================================================
