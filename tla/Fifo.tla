-------------------------------- MODULE Fifo --------------------------------
(***************************************************************************)
(* What process queues promise: any number of first-in first-out queues,   *)
(* with an element in at most one of them, from which any element can also *)
(* be taken out of turn.                                                   *)
(***************************************************************************)
EXTENDS SequencesExt

CONSTANTS Elem, Queue

VARIABLE seq

Queued == UNION {ToSet(seq[q]) : q \in Queue}

\* No element is in two queues or twice in one.
Disjoint ==
    /\ \A q \in Queue : IsInjective(seq[q]) /\ ToSet(seq[q]) \subseteq Elem
    /\ \A q, r \in Queue : q # r => ToSet(seq[q]) \cap ToSet(seq[r]) = {}

FInit == DOMAIN seq = Queue /\ Disjoint

Insert(q, e) == e \notin Queued /\ seq' = [seq EXCEPT ![q] = Append(@, e)]

RemoveHead(q) == seq[q] # <<>> /\ seq' = [seq EXCEPT ![q] = Tail(@)]

Out(q, e) == e \in ToSet(seq[q]) /\ seq' = [seq EXCEPT ![q] = RemoveFirst(@, e)]

FNext == \E q \in Queue : RemoveHead(q) \/ \E e \in Elem : Insert(q, e) \/ Out(q, e)

FSpec == FInit /\ [][FNext]_seq

=============================================================================
