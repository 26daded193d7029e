----------------------------- MODULE ASLProofs -----------------------------
(***************************************************************************)
(* For any number of pcbs, semaphores and descriptors: the active          *)
(* semaphore list of src/phase2/asl.c and of src/phase1/asl.c.             *)
(*                                                                         *)
(* The list of active descriptors is sorted by address, so that the        *)
(* descriptor traverseASL stops before is the only one that can have the   *)
(* address (Traversed, Located).  Every descriptor is on it or on the free *)
(* list, and taking one from a list to the other changes two links.        *)
(***************************************************************************)
EXTENDS ASL, QueueLemmas

----------------------------------------------------------------------------
(* What Path finds.                                                        *)

\* The links chain the descriptors q from s.
Linked(s, q) == Chain(s_next, s, Semd, q)

Walks == \A s \in Semd \cup {0, NULL} : \A q : Linked(s, q) => Path(s) = q

LEMMA FiniteSemd == IsFiniteSet(Semd) /\ Cardinality(Semd) = MAXPROC + 2
<1>1. MAXPROC \in Nat
  BY ASLAssumption
<1> QED BY <1>1, FS_Interval DEF Semd

\* Following the links until they lead out of semdTable gives the list.
LEMMA WalkNow == TypeOK => Walks
<1> SUFFICES ASSUME TypeOK, NEW s \in Semd \cup {0, NULL}, NEW q, Linked(s, q)
             PROVE  Path(s) = q
  BY DEF Walks
<1> DEFINE next == [t \in Semd \cup {0, NULL} |-> IF t \in Semd THEN s_next[t] ELSE NULL]
           at[n \in Nat] == IF n = 0 THEN s ELSE next[at[n - 1]]
           ends == {n \in 0 .. Cardinality(Semd) : at[n] \notin Semd}
<1>1. \A t \in Semd : next[t] = s_next[t]
  OBVIOUS
<1> HIDE DEF next
<1>2. \E g : g = [n \in Nat |-> IF n = 0 THEN s ELSE next[g[n - 1]]]
  <2>1. PICK g : Recurs(next, s, g)
    BY Recursion
  <2> QED BY <2>1 DEF Recurs
<1>3. at = [n \in Nat |-> IF n = 0 THEN s ELSE next[at[n - 1]]]
  BY <1>2, Zenon
<1> HIDE DEF at
<1>4. Follows(at, next, s)
  <2>1. ASSUME NEW n \in Nat PROVE at[n + 1] = next[at[n]]
    <3>1. n + 1 \in Nat /\ n + 1 # 0 /\ (n + 1) - 1 = n
      OBVIOUS
    <3> QED BY <1>3, <3>1
  <2> QED BY <1>3, <2>1 DEF Follows
<1>5. Chain(next, s, Semd, q)
  <2>1. Chain(s_next, s, Semd, q)
    BY DEF Linked
  <2>2. ToSet(q) \subseteq Semd
    BY <2>1, QueueLength DEF Chain
  <2> QED BY <1>1, <2>1, <2>2, ChainFrame
<1>6. Meets(at, Semd, q)
  BY <1>4, <1>5, ChainWalk, FiniteSemd
<1>7. ends = Outs(at, Semd)
  BY DEF Outs
<1>8. Path(s) = [i \in 1 .. IF ends = {} THEN 0 ELSE Min(ends) |-> at[i - 1]]
  BY DEF Path, at, next
<1> HIDE DEF ends
<1>9. Path(s) = [i \in 1 .. Len(q) |-> q[i]]
  BY <1>6, <1>7, <1>8 DEF Meets
<1>10. q = [i \in 1 .. Len(q) |-> q[i]]
  <2>1. q \in Seq(Semd)
    BY <1>5 DEF Chain, IsQueue
  <2> QED BY <2>1
<1> QED BY <1>9, <1>10

LEMMA WalkAfter == TypeOK' => Walks'
BY WalkNow, PTL

----------------------------------------------------------------------------
(* The inductive invariant.                                                *)

List == Path(semd_h)
Free == Path(semdFree_h)

Chained == Linked(semd_h, List) /\ Linked(semdFree_h, Free)

\* The dummies are at the ends, with addresses below and above all others.
Dummies ==
    /\ Len(List) >= 2 /\ List[Len(List)] = LastDummy
    /\ s_semAdd[semd_h] = 0 /\ s_semAdd[LastDummy] = NULL

Sorted == \A i, j \in 1 .. Len(List) : i < j => s_semAdd[List[i]] < s_semAdd[List[j]]

Partition == ToSet(List) \cap ToSet(Free) = {} /\ ToSet(List) \cup ToSet(Free) = Semd

Lists == Chained /\ Dummies /\ Sorted /\ Partition

\* Active descriptors, and no others, have waiters.
Waiting ==
    /\ \A s \in Active : s_semAdd[s] \in SemAdd /\ s_procQ[s] # <<>>
    /\ \A s \in Semd \ Active : s_procQ[s] = <<>>

\* Nobody waits twice.
Queues ==
    /\ \A s \in Semd : IsQueue(s_procQ[s], Pcb)
    /\ \A s, t \in Semd : s # t => ToSet(s_procQ[s]) \cap ToSet(s_procQ[t]) = {}

\* Those who wait know for what; from phase 2 on, the others know that they do not.
Remembered ==
    /\ \A s \in Active : \A p \in ToSet(s_procQ[s]) : p_semAdd[p] = s_semAdd[s]
    /\ phase = 2 => \A p \in Pcb : p_semAdd[p] = NULL \/ \E s \in Active : p \in ToSet(s_procQ[s])

IInv == TypeOK /\ Lists /\ Waiting /\ Queues /\ Remembered

----------------------------------------------------------------------------
(* The search.                                                             *)

LEMMA Addresses ==
    ASSUME TypeOK
    PROVE  /\ \A s \in Semd : s_semAdd[s] \in Nat /\ s_semAdd[s] <= NULL
           /\ \A a \in SemAdd : a \in Nat /\ 0 < a /\ a < NULL
           /\ NULL \in Nat /\ semd_h \in Semd /\ LastDummy \in Semd /\ semd_h # LastDummy
           /\ 0 \notin Semd /\ NULL \notin Semd
<1>1. /\ NULL \in Nat /\ \A a \in SemAdd : a \in 1 .. NULL - 1
      /\ MAXPROC \in Nat \ {0} /\ MAXPROC + 2 < NULL
  BY ASLAssumption
<1>2. \A s \in Semd : s_semAdd[s] \in SemAdd \cup {0, NULL}
  BY DEF TypeOK
<1>3. /\ semd_h \in Semd /\ LastDummy \in Semd /\ semd_h # LastDummy
      /\ 0 \notin Semd /\ NULL \notin Semd
  BY <1>1 DEF Semd, semd_h, LastDummy
<1> QED BY <1>1, <1>2, <1>3

LEMMA ListIs ==
    ASSUME IInv
    PROVE  /\ IsQueue(List, Semd) /\ List \in Seq(Semd) /\ Len(List) \in Nat
           /\ List # <<>> /\ List[1] = semd_h
           /\ \A i \in 1 .. Len(List) : List[i] \in Semd /\ List[i] \in ToSet(List)
           /\ \A s \in ToSet(List) : \E i \in 1 .. Len(List) : List[i] = s
           /\ \A i, j \in 1 .. Len(List) : List[i] = List[j] => i = j
           /\ \A i \in 1 .. Len(List) - 1 : s_next[List[i]] = List[i + 1]
           /\ s_next[List[Len(List)]] \notin Semd
<1>1. Chain(s_next, semd_h, Semd, List)
  BY DEF IInv, Lists, Chained, Linked
<1>2. IsQueue(List, Semd) /\ List \in Seq(Semd) /\ Len(List) \in Nat
  BY <1>1, LenProperties DEF Chain, IsQueue
<1>3. Len(List) >= 2
  BY DEF IInv, Lists, Dummies
<1>4. List # <<>>
  BY <1>2, <1>3, EmptySeq
<1>5. List[1] = semd_h /\ s_next[List[Len(List)]] \notin Semd
      /\ \A i \in 1 .. Len(List) - 1 : s_next[List[i]] = List[i + 1]
  BY <1>1, <1>4 DEF Chain
<1>6. /\ \A i \in 1 .. Len(List) : List[i] \in Semd /\ List[i] \in ToSet(List)
      /\ \A s \in ToSet(List) : \E i \in 1 .. Len(List) : List[i] = s
  BY <1>2, ElementOfSeq, Elements
<1>7. \A i, j \in 1 .. Len(List) : List[i] = List[j] => i = j
  BY <1>2 DEF IsQueue, IsInjective
<1> QED BY <1>2, <1>4, <1>5, <1>6, <1>7

\* traverseASL(a) is what the list has before its place i.
StopsAt(a, i) ==
    /\ i \in 2 .. Len(List)
    /\ traverseASL(a) = List[i - 1] /\ s_next[List[i - 1]] = List[i]
    /\ s_semAdd[List[i]] >= a
    /\ \A j \in 1 .. i - 1 : s_semAdd[List[j]] < a

LEMMA Traversed ==
    ASSUME IInv, NEW a \in Nat, 0 < a, a <= NULL
    PROVE  \E i \in 2 .. Len(List) : StopsAt(a, i)
<1> DEFINE F == {i \in 2 .. Len(List) : s_semAdd[List[i]] >= a}
<1>1. Len(List) \in F /\ F \in SUBSET Nat
  <2>1. Len(List) \in 2 .. Len(List) /\ s_semAdd[List[Len(List)]] = NULL
    BY ListIs DEF IInv, Lists, Dummies
  <2>2. NULL >= a
    BY ASLAssumption
  <2> QED BY <2>1, <2>2
<1>2. PICK i \in F : \A k \in F : i <= k
  BY <1>1, LeastNatural
<1>3. Min(F) = i
  <2> HIDE DEF F
  <2>1. \A k \in F : (\A l \in F : k <= l) => k = i
    BY <1>1, <1>2
  <2>2. Min(F) \in F /\ \A l \in F : Min(F) <= l
    BY <1>2, Zenon DEF Min
  <2> QED BY <2>1, <2>2
<1>4. traverseASL(a) = List[i - 1]
  BY <1>3 DEF traverseASL, List
<1>5. i \in 2 .. Len(List) /\ s_semAdd[List[i]] >= a
  BY <1>2
<1>6. ASSUME NEW j \in 1 .. i - 1 PROVE s_semAdd[List[j]] < a
  <2>1. j \in 1 .. Len(List) /\ List[j] \in Semd /\ ~(i <= j)
    BY <1>5, ListIs
  <2>2. s_semAdd[List[j]] \in Nat
    BY <2>1, Addresses DEF IInv
  <2>3. CASE j = 1
    BY <2>3, ListIs DEF IInv, Lists, Dummies
  <2>4. CASE j # 1
    <3>1. j \in 2 .. Len(List) /\ j \notin F
      BY <1>2, <2>1, <2>4
    <3> QED BY <2>2, <3>1
  <2> QED BY <2>3, <2>4
<1>7. s_next[List[i - 1]] = List[i]
  <2>1. i - 1 \in 1 .. Len(List) - 1 /\ (i - 1) + 1 = i
    BY <1>5
  <2> QED BY <2>1, ListIs
<1> HIDE DEF F
<1>8. StopsAt(a, i)
  BY <1>4, <1>5, <1>6, <1>7 DEF StopsAt
<1> QED BY <1>5, <1>8

\* The descriptor behind is the active one with the address, if there is one.
LEMMA Located ==
    ASSUME IInv, NEW a \in SemAdd, NEW i \in 2 .. Len(List), StopsAt(a, i)
    PROVE  /\ s_semAdd[List[i]] = a => List[i] \in Active
           /\ s_semAdd[List[i]] # a => \A s \in Active : s_semAdd[s] # a
<1>0. /\ a \in Nat /\ 0 < a /\ a < NULL /\ NULL \in Nat /\ Len(List) \in Nat
      /\ \A s \in Semd : s_semAdd[s] \in Nat
  BY Addresses, ListIs DEF IInv
<1>1. ASSUME s_semAdd[List[i]] = a PROVE List[i] \in Active
  <2>1. List[i] \in ToSet(List)
    BY ListIs
  <2>2. List[i] # semd_h /\ List[i] # LastDummy
    BY <1>0, <1>1 DEF IInv, Lists, Dummies
  <2> QED BY <2>1, <2>2 DEF Active, List
<1>2. ASSUME s_semAdd[List[i]] # a, NEW s \in Active, s_semAdd[s] = a PROVE FALSE
  <2>1. PICK k \in 1 .. Len(List) : List[k] = s
    BY ListIs DEF Active, List
  <2>2. s_semAdd[List[i]] >= a /\ \A j \in 1 .. i - 1 : s_semAdd[List[j]] < a
    BY DEF StopsAt
  <2>3. k \notin 1 .. i - 1
    BY <1>0, <1>2, <2>1, <2>2
  <2>4. k # i
    BY <1>2, <2>1
  <2>5. i < k /\ i \in 1 .. Len(List)
    BY <1>0, <2>3, <2>4
  <2>6. s_semAdd[List[i]] < s_semAdd[List[k]]
    BY <2>5 DEF IInv, Lists, Sorted
  <2>7. List[i] \in Semd
    BY <2>5, ListIs
  <2> QED BY <1>0, <1>2, <2>1, <2>2, <2>6, <2>7
<1> QED BY <1>1, <1>2

\* Active descriptors have different addresses.
LEMMA OneAddress ==
    ASSUME IInv, NEW s \in Active, NEW t \in Active, s_semAdd[s] = s_semAdd[t]
    PROVE  s = t
<1>1. PICK i \in 1 .. Len(List) : List[i] = s
  BY ListIs DEF Active, List
<1>2. PICK j \in 1 .. Len(List) : List[j] = t
  BY ListIs DEF Active, List
<1>3. s_semAdd[s] \in Nat
  BY <1>1, ListIs, Addresses DEF IInv
<1>4. ~(i < j) /\ ~(j < i)
  BY <1>1, <1>2, <1>3 DEF IInv, Lists, Sorted
<1>5. i = j
  BY <1>4, ListIs
<1> QED BY <1>1, <1>2, <1>5

\* Whom Blocked names.
BlockedIs ==
    \A a \in SemAdd :
        /\ \A s \in Active : s_semAdd[s] = a => Blocked(a) = s_procQ[s]
        /\ (\A s \in Active : s_semAdd[s] # a) => Blocked(a) = <<>>

LEMMA BlockedNow == IInv => BlockedIs
<1> SUFFICES ASSUME IInv, NEW a \in SemAdd
             PROVE  /\ \A s \in Active : s_semAdd[s] = a => Blocked(a) = s_procQ[s]
                    /\ (\A s \in Active : s_semAdd[s] # a) => Blocked(a) = <<>>
  BY DEF BlockedIs
<1> DEFINE found == {s \in Active : s_semAdd[s] = a}
<1>0. Blocked(a) = IF found = {} THEN <<>> ELSE s_procQ[CHOOSE s \in found : TRUE]
  BY DEF Blocked
<1>1. ASSUME NEW s \in Active, s_semAdd[s] = a PROVE Blocked(a) = s_procQ[s]
  <2>1. found = {s}
    BY <1>1, OneAddress
  <2>2. (CHOOSE t \in found : TRUE) = s
    BY <2>1
  <2> HIDE DEF found
  <2> QED BY <1>0, <2>1, <2>2
<1>2. ASSUME \A s \in Active : s_semAdd[s] # a PROVE Blocked(a) = <<>>
  <2>1. found = {}
    BY <1>2
  <2> HIDE DEF found
  <2> QED BY <1>0, <2>1
<1> QED BY <1>1, <1>2

LEMMA BlockedAfter == IInv' => BlockedIs'
BY BlockedNow, PTL

----------------------------------------------------------------------------
(* What steps do to the two lists.                                         *)

LEMMA ListAfter ==
    ASSUME TypeOK', NEW q, Chain(s_next', semd_h, Semd, q)
    PROVE  List' = q /\ Linked(semd_h, List)'
<1>1. semd_h \in Semd
  BY ASLAssumption DEF Semd, semd_h
<1>2. Path(semd_h)' = q
  BY <1>1, WalkAfter DEF Walks, Linked
<1> QED BY <1>2 DEF Linked, List

LEMMA FreeAfter ==
    ASSUME TypeOK', NEW q, Chain(s_next', semdFree_h', Semd, q)
    PROVE  Free' = q /\ Linked(semdFree_h, Free)'
<1>1. PICK f \in Semd \cup {0, NULL} : f = semdFree_h'
  BY DEF TypeOK
<1>2. Path(f)' = q
  BY <1>1, WalkAfter DEF Walks, Linked
<1>3. Free' = q
  BY <1>1, <1>2 DEF Free
<1> QED BY <1>3 DEF Linked

\* The first free descriptor, if any, is none of the others.
LEMMA FreeIs ==
    ASSUME IInv
    PROVE  /\ IsQueue(Free, Semd)
           /\ Chain(s_next, semdFree_h, Semd, Free)
           /\ \A s \in ToSet(Free) : s \notin ToSet(List) /\ s \in Semd
           /\ semdFree_h \in Semd <=> Free # <<>>
           /\ semdFree_h \in Semd => semdFree_h \in ToSet(Free) /\ semdFree_h = Head(Free)
<1>1. Chain(s_next, semdFree_h, Semd, Free)
  BY DEF IInv, Lists, Chained, Linked
<1>2. IsQueue(Free, Semd)
  BY <1>1 DEF Chain
<1>3. ToSet(Free) \subseteq Semd
  BY <1>2, QueueLength
<1> QED BY <1>1, <1>2, <1>3, ChainHead DEF IInv, Lists, Partition

\* Nothing but a waiter comes or goes.  (semdAlloc takes 0 for NULL.)
LEMMA ListsKept ==
    ASSUME TypeOK', IInv, UNCHANGED <<s_next, s_semAdd>>,
           semdFree_h' = semdFree_h \/ {semdFree_h, semdFree_h'} \subseteq {0, NULL}
    PROVE  Lists' /\ Active' = Active
<1>1. List' = List /\ Linked(semd_h, List)'
  BY ListAfter DEF IInv, Lists, Chained, Linked
<1>2. Free' = Free /\ Linked(semdFree_h, Free)'
  <2>1. Chain(s_next', semdFree_h', Semd, Free)
    <3>1. Chain(s_next, semdFree_h, Semd, Free)
      BY FreeIs
    <3>2. CASE semdFree_h' = semdFree_h
      BY <3>1, <3>2
    <3>3. CASE {semdFree_h, semdFree_h'} \subseteq {0, NULL}
      <4>1. semdFree_h \notin Semd /\ semdFree_h' \notin Semd
        BY <3>3, Addresses DEF IInv
      <4>2. Free = <<>>
        BY <4>1, FreeIs
      <4> QED BY <3>1, <4>1, <4>2 DEF Chain
    <3> QED BY <3>2, <3>3
  <2> QED BY <2>1, FreeAfter
<1>3. Active' = Active
  BY <1>1 DEF Active, List
<1>4. Dummies' /\ Sorted' /\ Partition'
  BY <1>1, <1>2 DEF IInv, Lists, Dummies, Sorted, Partition
<1> QED BY <1>1, <1>2, <1>3, <1>4 DEF Lists, Chained

\* The descriptor e goes before place i of the list.
Opened(a, i, e) ==
    /\ s_next' = [s_next EXCEPT ![e] = List[i], ![List[i - 1]] = e]
    /\ s_semAdd' = [s_semAdd EXCEPT ![e] = a]
    /\ semdFree_h' = s_next[e]

\* The descriptor c at place i of the list goes.
Closed(i, c) ==
    /\ s_next' = [s_next EXCEPT ![List[i - 1]] = s_next[c], ![c] = semdFree_h]
    /\ s_semAdd' = [s_semAdd EXCEPT ![c] = NULL]
    /\ semdFree_h' = c

\* The first free descriptor becomes active, between those with lower and those with
\* higher addresses.
LEMMA ListsOpened ==
    ASSUME TypeOK', IInv, NEW a \in SemAdd, NEW i \in 2 .. Len(List), StopsAt(a, i),
           s_semAdd[List[i]] # a, NEW e \in Semd, e = semdFree_h, Opened(a, i, e)
    PROVE  Lists' /\ Active' = Active \cup {e} /\ e \notin Active
<1> DEFINE r == InsertAt(List, i, e)
<1>0. /\ IsQueue(List, Semd) /\ Len(List) \in Nat /\ Len(List) >= 2
      /\ i \in 1 .. Len(List) /\ i - 1 \in 1 .. Len(List)
      /\ \A j \in 1 .. Len(List) : List[j] \in Semd /\ List[j] \in ToSet(List)
  BY ListIs DEF IInv, Lists, Dummies
<1>1. e \in ToSet(Free) /\ e \notin ToSet(List) /\ Free # <<>> /\ e = Head(Free)
  BY FreeIs
<1>2. /\ s_next'[e] = List[i] /\ s_next'[List[i - 1]] = e
      /\ \A s \in Semd \ {e, List[i - 1]} : s_next'[s] = s_next[s]
      /\ s_semAdd'[e] = a /\ \A s \in Semd \ {e} : s_semAdd'[s] = s_semAdd[s]
  <2>1. e # List[i - 1] /\ List[i - 1] \in Semd
    BY <1>0, <1>1
  <2> QED BY <2>1 DEF IInv, TypeOK, Opened
<1>3. List' = r /\ Linked(semd_h, List)'
  <2>1. Chain(s_next, semd_h, Semd, List)
    BY DEF IInv, Lists, Chained, Linked
  <2>2. \A s \in ToSet(List) : s # List[i - 1] => s_next'[s] = s_next[s]
    BY <1>0, <1>1, <1>2, QueueLength
  <2>3. Chain(s_next', semd_h, Semd, InsertAt(List, i, e))
    <3>1. e \notin ToSet(List) /\ s_next'[e] = List[i] /\ s_next'[List[i - 1]] = e
      BY <1>1, <1>2
    <3> HIDE DEF r
    <3> QED BY <2>1, <2>2, <3>1, ChainInsert
  <2> QED BY <2>3, ListAfter
<1>4. Free' = Tail(Free) /\ Linked(semdFree_h, Free)'
  <2>1. Chain(s_next, s_next[e], Semd, Tail(Free))
    BY FreeIs, ChainTail
  <2>2. ToSet(Tail(Free)) = ToSet(Free) \ {e}
    BY <1>1, FreeIs, QueueTail
  <2>3. \A s \in ToSet(Tail(Free)) : s_next'[s] = s_next[s]
    BY <1>0, <1>2, <2>2, FreeIs
  <2>4. Chain(s_next', semdFree_h', Semd, Tail(Free))
    <3> HIDE DEF r
    <3>1. Chain(s_next', s_next[e], Semd, Tail(Free))
      BY <2>1, <2>3, ChainFrame
    <3> QED BY <3>1 DEF Opened
  <2> QED BY <2>4, FreeAfter
<1>5. /\ IsQueue(r, Semd) /\ ToSet(r) = ToSet(List) \cup {e} /\ Len(r) = Len(List) + 1
      /\ \A j \in 1 .. Len(List) + 1 : r[j] =
            IF j < i THEN List[j] ELSE IF j = i THEN e ELSE List[j - 1]
  BY <1>0, <1>1, QueueInsertAt
<1> HIDE DEF r
<1>6. Active' = Active \cup {e} /\ e \notin Active
  <2>1. e # semd_h /\ e # LastDummy
    BY <1>0, <1>1, ListIs DEF IInv, Lists, Dummies
  <2>2. /\ Active' = ToSet(List') \ {semd_h, LastDummy}
        /\ Active = ToSet(List) \ {semd_h, LastDummy}
    BY DEF Active, List
  <2> QED BY <1>1, <1>3, <1>5, <2>1, <2>2
<1>7. Dummies'
  <2>1. Len(r) >= 2 /\ r[Len(r)] = LastDummy
    <3>1. /\ Len(r) \in 1 .. Len(List) + 1 /\ ~(Len(r) < i) /\ Len(r) # i
          /\ Len(r) - 1 = Len(List)
      BY <1>0, <1>5
    <3> QED BY <1>0, <1>5, <3>1 DEF IInv, Lists, Dummies
  <2>2. semd_h # e /\ LastDummy # e
    BY <1>0, <1>1, ListIs DEF IInv, Lists, Dummies
  <2>3. s_semAdd'[semd_h] = 0 /\ s_semAdd'[LastDummy] = NULL
    BY <1>2, <2>2, Addresses DEF IInv, Lists, Dummies
  <2> QED BY <1>3, <2>1, <2>3 DEF Dummies
<1>8. Sorted'
  <2> SUFFICES ASSUME NEW j \in 1 .. Len(r), NEW k \in 1 .. Len(r), j < k
               PROVE  s_semAdd'[r[j]] < s_semAdd'[r[k]]
    BY <1>3 DEF Sorted
  <2>0. /\ j \in 1 .. Len(List) + 1 /\ k \in 1 .. Len(List) + 1
        /\ \A l \in 1 .. Len(List) : s_semAdd'[List[l]] = s_semAdd[List[l]]
        /\ \A l \in 1 .. Len(List) : s_semAdd[List[l]] \in Nat
        /\ \A l, m \in 1 .. Len(List) : l < m => s_semAdd[List[l]] < s_semAdd[List[m]]
        /\ a \in Nat
    BY <1>0, <1>1, <1>2, <1>5, Addresses DEF IInv, Lists, Sorted
  <2>1. a < s_semAdd[List[i]] /\ \A l \in 1 .. i - 1 : s_semAdd[List[l]] < a
    BY <1>0, <2>0 DEF StopsAt
  <2>2. CASE k < i
    <3>1. r[j] = List[j] /\ r[k] = List[k] /\ j \in 1 .. Len(List) /\ k \in 1 .. Len(List)
      BY <1>0, <1>5, <2>0, <2>2
    <3> QED BY <2>0, <3>1
  <2>3. CASE k = i
    <3>1. r[j] = List[j] /\ r[k] = e /\ j \in 1 .. i - 1 /\ j \in 1 .. Len(List)
      BY <1>0, <1>5, <2>0, <2>3
    <3> QED BY <1>2, <2>0, <2>1, <3>1
  <2>4. CASE k > i
    <3>1. r[k] = List[k - 1] /\ k - 1 \in 1 .. Len(List) /\ i <= k - 1
      BY <1>0, <1>5, <2>0, <2>4
    <3>2. a < s_semAdd[List[k - 1]]
      <4>1. CASE i = k - 1
        BY <2>1, <4>1
      <4>2. CASE i < k - 1
        <5>1. s_semAdd[List[i]] < s_semAdd[List[k - 1]]
          BY <1>0, <2>0, <3>1, <4>2
        <5>2. s_semAdd[List[i]] \in Nat /\ s_semAdd[List[k - 1]] \in Nat
          BY <1>0, <2>0, <3>1
        <5> QED BY <2>0, <2>1, <5>1, <5>2
      <4> QED BY <3>1, <4>1, <4>2
    <3>3. CASE j < i
      <4>1. r[j] = List[j] /\ j \in 1 .. i - 1 /\ j \in 1 .. Len(List)
        BY <1>0, <1>5, <2>0, <3>3
      <4>2. s_semAdd[List[j]] < a
        BY <2>1, <4>1
      <4>3. /\ s_semAdd'[r[j]] = s_semAdd[List[j]] /\ s_semAdd[List[j]] \in Nat
            /\ s_semAdd'[r[k]] = s_semAdd[List[k - 1]] /\ s_semAdd[List[k - 1]] \in Nat
        BY <2>0, <3>1, <4>1
      <4> QED BY <2>0, <3>2, <4>2, <4>3
    <3>4. CASE j = i
      <4>1. r[j] = e
        BY <1>5, <2>0, <3>4
      <4>2. s_semAdd'[r[j]] = a /\ s_semAdd'[r[k]] = s_semAdd[List[k - 1]]
        BY <1>2, <2>0, <3>1, <4>1
      <4> QED BY <3>2, <4>2
    <3>5. CASE j > i
      <4>1. r[j] = List[j - 1] /\ j - 1 \in 1 .. Len(List) /\ j - 1 < k - 1
        BY <1>0, <1>5, <2>0, <3>5
      <4> QED BY <2>0, <3>1, <4>1
    <3> QED BY <1>0, <2>0, <3>3, <3>4, <3>5
  <2> QED BY <1>0, <2>0, <2>2, <2>3, <2>4
<1>9. Partition'
  <2>1. ToSet(Tail(Free)) = ToSet(Free) \ {e}
    BY <1>1, FreeIs, QueueTail
  <2> QED BY <1>1, <1>3, <1>4, <1>5, <2>1 DEF IInv, Lists, Partition
<1> QED BY <1>3, <1>4, <1>6, <1>7, <1>8, <1>9 DEF Lists, Chained

\* An active descriptor goes to the head of the free list.
LEMMA ListsClosed ==
    ASSUME TypeOK', IInv, NEW i \in 2 .. Len(List), NEW c \in Active, c = List[i],
           Closed(i, c)
    PROVE  Lists' /\ Active' = Active \ {c}
<1> DEFINE r == RemoveFirst(List, c)
           f == <<c>> \o Free
<1>0. /\ IsQueue(List, Semd) /\ Len(List) \in Nat /\ Len(List) >= 2
      /\ i \in 1 .. Len(List) /\ i - 1 \in 1 .. Len(List)
      /\ \A j \in 1 .. Len(List) : List[j] \in Semd /\ List[j] \in ToSet(List)
      /\ \A j, k \in 1 .. Len(List) : List[j] = List[k] => j = k
      /\ List[Len(List)] = LastDummy /\ List[1] = semd_h
  BY ListIs DEF IInv, Lists, Dummies
<1>1. c # semd_h /\ c # LastDummy /\ c \in Semd /\ c \in ToSet(List) /\ c \notin ToSet(Free)
  BY <1>0, FreeIs DEF Active
<1>2. /\ s_next'[List[i - 1]] = s_next[c] /\ s_next'[c] = semdFree_h
      /\ \A s \in Semd \ {c, List[i - 1]} : s_next'[s] = s_next[s]
      /\ s_semAdd'[c] = NULL /\ \A s \in Semd \ {c} : s_semAdd'[s] = s_semAdd[s]
  <2>1. c # List[i - 1] /\ List[i - 1] \in Semd
    BY <1>0
  <2> QED BY <1>1, <2>1 DEF IInv, TypeOK, Closed
<1>3. List' = r /\ Linked(semd_h, List)'
  <2>1. Chain(s_next, semd_h, Semd, List)
    BY DEF IInv, Lists, Chained, Linked
  <2>2. \A s \in ToSet(List) \ {List[i]} : s # List[i - 1] => s_next'[s] = s_next[s]
    BY <1>0, <1>2, QueueLength
  <2>3. Chain(s_next', semd_h, Semd, RemoveFirst(List, List[i]))
    <3>1. s_next'[List[i - 1]] = s_next[List[i]]
      BY <1>2
    <3> HIDE DEF r, f
    <3> QED BY <2>1, <2>2, <3>1, ChainSkip
  <2> QED BY <2>3, ListAfter
<1>4. Free' = f /\ Linked(semdFree_h, Free)' /\ ToSet(f) = ToSet(Free) \cup {c}
  <2>1. \A s \in ToSet(Free) : s_next'[s] = s_next[s]
    BY <1>0, <1>1, <1>2, FreeIs
  <2>2. Chain(s_next', c, Semd, f) /\ ToSet(f) = ToSet(Free) \cup {c}
    <3>1. Chain(s_next, semdFree_h, Semd, Free)
      BY FreeIs
    <3>2. c \in Semd /\ c \notin ToSet(Free) /\ s_next'[c] = semdFree_h
      BY <1>1, <1>2
    <3> HIDE DEF f
    <3>3. Chain(s_next', c, Semd, <<c>> \o Free) /\ ToSet(<<c>> \o Free) = ToSet(Free) \cup {c}
      BY <2>1, <3>1, <3>2, ChainPush
    <3> QED BY <3>3 DEF f
  <2>3. semdFree_h' = c
    BY DEF Closed
  <2> QED BY <2>2, <2>3, FreeAfter
<1>5. /\ IsQueue(r, Semd) /\ ToSet(r) = ToSet(List) \ {c} /\ Len(r) = Len(List) - 1
      /\ \A j \in 1 .. Len(List) - 1 : r[j] = IF j < i THEN List[j] ELSE List[j + 1]
  <2>1. r = RemoveAt(List, i)
    BY <1>0, QueuePlace
  <2> QED BY <1>0, <2>1, QueueRemoveAt
<1> HIDE DEF r, f
<1>6. Active' = Active \ {c}
  <2>1. /\ Active' = ToSet(List') \ {semd_h, LastDummy}
        /\ Active = ToSet(List) \ {semd_h, LastDummy}
    BY DEF Active, List
  <2> QED BY <1>3, <1>5, <2>1
<1>7. Dummies'
  <2>0. i # 1 /\ i # Len(List)
    BY <1>0, <1>1
  <2>1. Len(r) >= 2 /\ r[Len(r)] = LastDummy
    <3>1. /\ Len(r) \in 1 .. Len(List) - 1 /\ ~(Len(r) < i) /\ Len(r) + 1 = Len(List)
          /\ Len(r) >= 2
      BY <1>0, <1>5, <2>0
    <3> QED BY <1>0, <1>5, <3>1
  <2>2. s_semAdd'[semd_h] = 0 /\ s_semAdd'[LastDummy] = NULL
    BY <1>1, <1>2, Addresses DEF IInv, Lists, Dummies
  <2> QED BY <1>3, <2>1, <2>2 DEF Dummies
<1>8. Sorted'
  <2> SUFFICES ASSUME NEW j \in 1 .. Len(r), NEW k \in 1 .. Len(r), j < k
               PROVE  s_semAdd'[r[j]] < s_semAdd'[r[k]]
    BY <1>3 DEF Sorted
  <2>0. /\ j \in 1 .. Len(List) - 1 /\ k \in 1 .. Len(List) - 1
        /\ \A l, m \in 1 .. Len(List) : l < m => s_semAdd[List[l]] < s_semAdd[List[m]]
    BY <1>0, <1>5 DEF IInv, Lists, Sorted
  <2>1. \A l \in 1 .. Len(List) : l # i => s_semAdd'[List[l]] = s_semAdd[List[l]]
    BY <1>0, <1>2
  <2>2. CASE k < i
    <3>1. /\ r[j] = List[j] /\ r[k] = List[k] /\ j # i /\ k # i
          /\ j \in 1 .. Len(List) /\ k \in 1 .. Len(List)
      BY <1>0, <1>5, <2>0, <2>2
    <3> QED BY <2>0, <2>1, <3>1
  <2>3. CASE ~(k < i) /\ j < i
    <3>1. /\ r[j] = List[j] /\ r[k] = List[k + 1] /\ j # i /\ k + 1 # i /\ j < k + 1
          /\ j \in 1 .. Len(List) /\ k + 1 \in 1 .. Len(List)
      BY <1>0, <1>5, <2>0, <2>3
    <3> QED BY <2>0, <2>1, <3>1
  <2>4. CASE ~(j < i)
    <3>1. /\ ~(k < i) /\ j + 1 # i /\ k + 1 # i /\ j + 1 < k + 1
          /\ j + 1 \in 1 .. Len(List) /\ k + 1 \in 1 .. Len(List)
      BY <1>0, <2>0, <2>4
    <3>2. r[j] = List[j + 1] /\ r[k] = List[k + 1]
      BY <1>5, <2>0, <2>4, <3>1
    <3> QED BY <2>0, <2>1, <3>1, <3>2
  <2> QED BY <2>2, <2>3, <2>4
<1>9. Partition'
  BY <1>1, <1>3, <1>4, <1>5 DEF IInv, Lists, Partition
<1> QED BY <1>3, <1>4, <1>6, <1>7, <1>8, <1>9 DEF Lists, Chained

----------------------------------------------------------------------------
(* The first state.                                                        *)

LEMMA InitIInv == Init => IInv
<1> SUFFICES ASSUME Init PROVE IInv
  OBVIOUS
<1> DEFINE q == <<semd_h, LastDummy>>
           f == [i \in 1 .. MAXPROC |-> i]
<1>0. /\ MAXPROC \in Nat /\ MAXPROC >= 1 /\ NULL \in Nat /\ NULL > MAXPROC + 2
      /\ semd_h = MAXPROC + 1 /\ LastDummy = MAXPROC + 2 /\ Semd = 1 .. MAXPROC + 2
      /\ semd_h \in Semd /\ LastDummy \in Semd /\ semd_h # LastDummy
      /\ 0 \notin Semd /\ NULL \notin Semd /\ 1 \in Semd
  BY ASLAssumption DEF Semd, semd_h, LastDummy
<1>1. /\ \A s \in Semd : s_next[s] = IF s < MAXPROC THEN s + 1
                                     ELSE IF s = semd_h THEN LastDummy
                                     ELSE IF s = LastDummy THEN NULL ELSE 0
      /\ \A s \in Semd : s_semAdd[s] = IF s = LastDummy THEN NULL ELSE 0
      /\ \A s \in Semd : s_procQ[s] = <<>>
      /\ semdFree_h = 1
      /\ \A p \in Pcb : p_semAdd[p] = NULL
      /\ phase \in {1, 2}
  BY DEF Init
<1>2. TypeOK
  <2>1. s_next \in [Semd -> Semd \cup {0, NULL}]
    <3>1. \A s \in Semd : s_next[s] \in Semd \cup {0, NULL}
      <4> TAKE s \in Semd
      <4>1. s < MAXPROC => s + 1 \in Semd
        BY <1>0
      <4> QED BY <1>0, <1>1, <4>1
    <3> QED BY <3>1 DEF Init
  <2>2. s_semAdd \in [Semd -> SemAdd \cup {0, NULL}]
    BY DEF Init
  <2>3. DOMAIN s_procQ = Semd /\ \A s \in Semd : s_procQ[s] \in Seq(Pcb)
    BY <1>1 DEF Init
  <2>4. p_semAdd \in [Pcb -> SemAdd \cup {NULL}]
    BY DEF Init
  <2> QED BY <1>0, <1>1, <2>1, <2>2, <2>3, <2>4 DEF TypeOK
<1>3. List = q /\ Linked(semd_h, List)
  <2>1. /\ q \in Seq(Semd) /\ Len(q) = 2 /\ q # <<>>
        /\ q[1] = semd_h /\ q[2] = LastDummy
    BY <1>0
  <2>2. s_next[semd_h] = LastDummy /\ s_next[LastDummy] = NULL
    BY <1>0, <1>1
  <2> HIDE DEF q
  <2>3. IsQueue(q, Semd)
    <3>1. DOMAIN q = 1 .. 2
      BY <2>1
    <3>2. \A i, j \in 1 .. 2 : q[i] = q[j] => i = j
      BY <1>0, <2>1
    <3> QED BY <2>1, <3>1, <3>2 DEF IsQueue, IsInjective
  <2>4. \A i \in 1 .. Len(q) - 1 : s_next[q[i]] = q[i + 1]
    <3> TAKE i \in 1 .. Len(q) - 1
    <3>1. i = 1 /\ i + 1 = 2
      BY <2>1
    <3> QED BY <2>1, <2>2, <3>1
  <2>5. s_next[q[Len(q)]] \notin Semd
    BY <1>0, <2>1, <2>2
  <2>6. Linked(semd_h, q)
    BY <2>1, <2>3, <2>4, <2>5 DEF Linked, Chain
  <2> QED BY <1>0, <1>2, <2>6, WalkNow DEF Walks, List
<1>4. Free = f /\ Linked(semdFree_h, Free) /\ ToSet(Free) = 1 .. MAXPROC
  <2>1. f \in Seq(Semd) /\ Len(f) = MAXPROC /\ DOMAIN f = 1 .. MAXPROC
    BY <1>0
  <2>2. \A i \in 1 .. MAXPROC : f[i] = i
    OBVIOUS
  <2> HIDE DEF f
  <2>3. IsQueue(f, Semd)
    BY <2>1, <2>2 DEF IsQueue, IsInjective
  <2>4. \A i \in 1 .. Len(f) - 1 : s_next[f[i]] = f[i + 1]
    <3> TAKE i \in 1 .. Len(f) - 1
    <3>1. i \in 1 .. MAXPROC /\ i + 1 \in 1 .. MAXPROC /\ i < MAXPROC /\ i \in Semd
      BY <1>0, <2>1
    <3> QED BY <1>1, <2>2, <3>1
  <2>5. f # <<>> /\ f[1] = 1 /\ s_next[f[Len(f)]] \notin Semd
    <3>1. f # <<>>
      BY <1>0, <2>1, EmptySeq
    <3>2. /\ 1 \in 1 .. MAXPROC /\ MAXPROC \in 1 .. MAXPROC /\ MAXPROC \in Semd
          /\ MAXPROC # semd_h /\ MAXPROC # LastDummy /\ ~(MAXPROC < MAXPROC)
      BY <1>0
    <3>3. s_next[MAXPROC] = 0
      BY <1>1, <3>2
    <3> QED BY <1>0, <2>1, <2>2, <3>1, <3>2, <3>3
  <2>6. Linked(semdFree_h, f)
    BY <1>1, <2>3, <2>4, <2>5 DEF Linked, Chain
  <2>7. ToSet(f) = 1 .. MAXPROC
    BY <2>1, <2>2 DEF ToSet
  <2> QED BY <1>0, <1>1, <1>2, <2>6, <2>7, WalkNow DEF Walks, Free
<1>5. /\ ToSet(List) = {semd_h, LastDummy} /\ Len(List) = 2
      /\ List[1] = semd_h /\ List[2] = LastDummy
  <2>1. ToSet(q) = {q[i] : i \in 1 .. 2}
    BY DEF ToSet
  <2> QED BY <1>3, <2>1
<1> HIDE DEF q, f
<1>6. Active = {}
  BY <1>5 DEF Active, List
<1>7. Dummies
  BY <1>0, <1>1, <1>5 DEF Dummies
<1>8. Sorted
  <2> SUFFICES ASSUME NEW i \in 1 .. Len(List), NEW j \in 1 .. Len(List), i < j
               PROVE  s_semAdd[List[i]] < s_semAdd[List[j]]
    BY DEF Sorted
  <2>1. i = 1 /\ j = 2
    BY <1>5
  <2>2. s_semAdd[semd_h] = 0 /\ s_semAdd[LastDummy] = NULL
    BY <1>0, <1>1
  <2> QED BY <1>0, <1>5, <2>1, <2>2
<1>9. Partition
  BY <1>0, <1>4, <1>5 DEF Partition
<1>10. Waiting /\ Remembered
  BY <1>1, <1>6 DEF Waiting, Remembered
<1>11. Queues
  <2>1. IsQueue(<<>>, Pcb) /\ ToSet(<<>>) = {}
    BY DEF IsQueue, IsInjective, ToSet
  <2> QED BY <1>1, <2>1 DEF Queues
<1> QED BY <1>2, <1>3, <1>4, <1>7, <1>8, <1>9, <1>10, <1>11 DEF IInv, Lists, Chained

----------------------------------------------------------------------------
(* What steps do to the waiters.                                           *)

\* Those who wait for a, at the descriptor c, become q; nobody else's waiting changes.
Requeues(a, c, q) ==
    /\ s_procQ' = [s_procQ EXCEPT ![c] = q] /\ IsQueue(q, Pcb)
    /\ \A s \in Semd \ {c} : /\ s_semAdd'[s] = s_semAdd[s]
                             /\ ToSet(q) \cap ToSet(s_procQ[s]) = {}
                             /\ \A p \in ToSet(s_procQ[s]) : p_semAdd'[p] = p_semAdd[p]
    /\ Active' = IF q = <<>> THEN Active \ {c} ELSE Active \cup {c}
    /\ q # <<>> => s_semAdd'[c] = a
    /\ c \in Active => s_semAdd[c] = a
    /\ c \notin Active => \A s \in Active : s_semAdd[s] # a
    /\ \A p \in ToSet(q) : p_semAdd'[p] = a
    /\ phase = 2 => \A p \in Pcb : \/ p \in ToSet(q)
                                   \/ p_semAdd'[p] = NULL
                                   \/ p_semAdd'[p] = p_semAdd[p] /\ p \notin ToSet(s_procQ[c])
    /\ phase' = phase

\* Only the queue of a changes.
Becomes(a, q) == \A b \in SemAdd : Blocked(b)' = IF b = a THEN q ELSE Blocked(b)

LEMMA Requeued ==
    ASSUME IInv, TypeOK', Lists', NEW a \in SemAdd, NEW c \in Semd, NEW q, Requeues(a, c, q)
    PROVE  IInv' /\ Becomes(a, q)
<1>1. /\ s_procQ'[c] = q /\ \A s \in Semd \ {c} : s_procQ'[s] = s_procQ[s]
      /\ IsQueue(q, Pcb) /\ phase' = phase
      /\ Active' = IF q = <<>> THEN Active \ {c} ELSE Active \cup {c}
      /\ \A s \in Semd \ {c} : s_semAdd'[s] = s_semAdd[s]
      /\ q # <<>> => s_semAdd'[c] = a
  BY DEF Requeues, IInv, TypeOK
<1>2. Active \subseteq Semd /\ Active' \subseteq Semd
  <2>1. Active \subseteq Semd
    BY ListIs DEF Active, List
  <2> QED BY <1>1, <2>1
<1>3. Waiting'
  <2>1. ASSUME NEW s \in Active' PROVE s_semAdd'[s] \in SemAdd /\ s_procQ'[s] # <<>>
    BY <1>1, <1>2, <2>1 DEF IInv, Waiting
  <2>2. ASSUME NEW s \in Semd \ Active' PROVE s_procQ'[s] = <<>>
    BY <1>1, <1>2, <2>2 DEF IInv, Waiting
  <2> QED BY <2>1, <2>2 DEF Waiting
<1>4. Queues'
  <2>1. \A s \in Semd \ {c} : ToSet(q) \cap ToSet(s_procQ[s]) = {}
    BY DEF Requeues
  <2> QED BY <1>1, <2>1 DEF IInv, Queues
<1>5. Remembered'
  <2>1. ASSUME NEW s \in Active', NEW p \in ToSet(s_procQ'[s])
        PROVE  p_semAdd'[p] = s_semAdd'[s]
    <3>1. CASE s = c
      <4>1. q # <<>>
        BY <1>1, <3>1
      <4>2. p \in ToSet(q)
        BY <1>1, <2>1, <3>1
      <4> QED BY <1>1, <3>1, <4>1, <4>2 DEF Requeues
    <3>2. CASE s # c
      <4>1. s \in Active /\ s \in Semd \ {c} /\ p \in ToSet(s_procQ[s])
        BY <1>1, <1>2, <2>1, <3>2
      <4>2. p_semAdd'[p] = p_semAdd[p] /\ s_semAdd'[s] = s_semAdd[s]
        BY <4>1 DEF Requeues
      <4> QED BY <4>1, <4>2 DEF IInv, Remembered
    <3> QED BY <3>1, <3>2
  <2>2. ASSUME phase = 2, NEW p \in Pcb
        PROVE  p_semAdd'[p] = NULL \/ \E s \in Active' : p \in ToSet(s_procQ'[s])
    <3>1. CASE p \in ToSet(q)
      <4>1. q # <<>>
        BY <3>1 DEF ToSet
      <4> QED BY <1>1, <3>1, <4>1
    <3>2. CASE p_semAdd'[p] = p_semAdd[p] /\ p \notin ToSet(s_procQ[c])
      <4>1. p_semAdd[p] = NULL \/ \E s \in Active : p \in ToSet(s_procQ[s])
        BY <2>2 DEF IInv, Remembered
      <4> QED BY <1>1, <1>2, <3>2, <4>1
    <3> QED BY <2>2, <3>1, <3>2 DEF Requeues
  <2> QED BY <1>1, <2>1, <2>2 DEF Remembered
<1>6. IInv'
  BY <1>3, <1>4, <1>5 DEF IInv
<1>7. ASSUME NEW b \in SemAdd PROVE Blocked(b)' = IF b = a THEN q ELSE Blocked(b)
  <2>1. /\ \A s \in Active' : s_semAdd'[s] = b => Blocked(b)' = s_procQ'[s]
        /\ (\A s \in Active' : s_semAdd'[s] # b) => Blocked(b)' = <<>>
    BY <1>6, BlockedAfter DEF BlockedIs
  <2>2. /\ \A s \in Active : s_semAdd[s] = b => Blocked(b) = s_procQ[s]
        /\ (\A s \in Active : s_semAdd[s] # b) => Blocked(b) = <<>>
    BY BlockedNow DEF BlockedIs
  <2>3. CASE b = a
    <3>1. CASE q # <<>>
      BY <1>1, <2>1, <2>3, <3>1
    <3>2. CASE q = <<>>
      <4>1. ASSUME NEW s \in Active' PROVE s_semAdd'[s] # a
        <5>1. s \in Active /\ s # c /\ s_semAdd'[s] = s_semAdd[s]
          BY <1>1, <1>2, <3>2, <4>1
        <5>2. CASE c \in Active
          BY <5>1, <5>2, OneAddress DEF Requeues
        <5>3. CASE c \notin Active
          BY <5>1, <5>3 DEF Requeues
        <5> QED BY <5>2, <5>3
      <4> QED BY <2>1, <2>3, <3>2, <4>1
    <3> QED BY <3>1, <3>2
  <2>4. CASE b # a
    <3>1. CASE \E s \in Active : s_semAdd[s] = b
      <4>1. PICK s \in Active : s_semAdd[s] = b
        BY <3>1
      <4>2. s # c
        BY <2>4, <4>1 DEF Requeues
      <4>3. s \in Active' /\ s_semAdd'[s] = b /\ s_procQ'[s] = s_procQ[s]
        BY <1>1, <1>2, <4>1, <4>2
      <4> QED BY <2>1, <2>2, <2>4, <4>1, <4>3
    <3>2. CASE \A s \in Active : s_semAdd[s] # b
      <4>1. ASSUME NEW s \in Active' PROVE s_semAdd'[s] # b
        <5>1. CASE s = c
          BY <1>1, <2>4, <4>1, <5>1
        <5>2. CASE s # c
          BY <1>1, <1>2, <3>2, <4>1, <5>2
        <5> QED BY <5>1, <5>2
      <4> QED BY <2>1, <2>2, <2>4, <3>2, <4>1
    <3> QED BY <3>1, <3>2
  <2> QED BY <2>3, <2>4
<1> QED BY <1>6, <1>7 DEF Becomes

----------------------------------------------------------------------------
(* What the operations do to the waiters.                                  *)

LEMMA QueueIn ==
    ASSUME IInv
    PROVE  /\ \A s \in Semd : IsQueue(s_procQ[s], Pcb)
           /\ \A s \in Semd : \A p \in ToSet(s_procQ[s]) : p \in Pcb /\ s \in Active
           /\ Active \subseteq Semd
<1>1. \A s \in Semd : IsQueue(s_procQ[s], Pcb)
  BY DEF IInv, Queues
<1>2. ASSUME NEW s \in Semd, NEW p \in ToSet(s_procQ[s]) PROVE p \in Pcb /\ s \in Active
  <2>1. p \in Pcb
    BY <1>1, QueueLength
  <2>2. s_procQ[s] # <<>>
    BY <1>2 DEF ToSet
  <2> QED BY <2>1, <2>2 DEF IInv, Waiting
<1>3. Active \subseteq Semd
  BY ListIs DEF Active, List
<1> QED BY <1>1, <1>2, <1>3

\* Forgotten is of one process.
LEMMA Forgets ==
    ASSUME IInv, NEW p \in Pcb, p_semAdd' = Forgotten(p)
    PROVE  /\ \A r \in Pcb \ {p} : p_semAdd'[r] = p_semAdd[r]
           /\ phase = 2 => p_semAdd'[p] = NULL
           /\ p_semAdd' \in [Pcb -> SemAdd \cup {NULL}]
BY DEF IInv, TypeOK, Forgotten

\* A process leaves the queue of an active descriptor, or none does.
LEMMA Dealloc ==
    ASSUME IInv, NEW a \in SemAdd, NEW i \in 2 .. Len(List), StopsAt(a, i),
           s_semAdd[List[i]] = a,
           NEW q, NEW p \in Pcb, semdDealloc(traverseASL(a), q), p_semAdd' = Forgotten(p),
           IsQueue(q, Pcb), ToSet(q) = ToSet(s_procQ[List[i]]) \ {p},
           p \notin ToSet(s_procQ[List[i]]) =>
              phase = 1 /\ \A s \in Semd : p \notin ToSet(s_procQ[s]),
           UNCHANGED phase
    PROVE  IInv' /\ Becomes(a, q)
<1>1. PICK c \in Active : c = List[i]
  BY Located
<1>2. /\ c \in Semd /\ s_semAdd[c] = a /\ s_procQ[c] # <<>>
      /\ traverseASL(a) = List[i - 1] /\ s_next[List[i - 1]] = c
      /\ List[i - 1] \in Semd /\ semdFree_h \in Semd \cup {0, NULL}
      /\ s_next[c] \in Semd \cup {0, NULL}
  <2>1. i - 1 \in 1 .. Len(List)
    BY ListIs
  <2> QED BY <1>1, <2>1, ListIs, QueueIn DEF StopsAt, IInv, Waiting, TypeOK
<1>3. q \in Seq(Pcb)
  BY DEF IsQueue
<1>4. CASE q # <<>>
  <2>1. /\ s_procQ' = [s_procQ EXCEPT ![c] = q]
        /\ UNCHANGED <<s_next, s_semAdd, semdFree_h>>
    BY <1>2, <1>4 DEF semdDealloc
  <2>2. TypeOK'
    <3>1. DOMAIN s_procQ' = Semd /\ \A s \in Semd : s_procQ'[s] \in Seq(Pcb)
      BY <1>3, <2>1 DEF IInv, TypeOK
    <3>2. p_semAdd' \in [Pcb -> SemAdd \cup {NULL}]
      BY Forgets
    <3> QED BY <2>1, <3>1, <3>2 DEF IInv, TypeOK
  <2>3. Lists' /\ Active' = Active
    BY <2>1, <2>2, ListsKept
  <2>4. Requeues(a, c, q)
    <3>1. /\ \A s \in Semd \ {c} :
                /\ s_semAdd'[s] = s_semAdd[s]
                /\ ToSet(q) \cap ToSet(s_procQ[s]) = {}
                /\ \A r \in ToSet(s_procQ[s]) : p_semAdd'[r] = p_semAdd[r]
          /\ \A r \in ToSet(q) : p_semAdd'[r] = a
      <4>1. ASSUME NEW s \in Semd \ {c}
            PROVE  /\ ToSet(q) \cap ToSet(s_procQ[s]) = {}
                   /\ p \notin ToSet(s_procQ[s])
        BY <1>1, <1>2 DEF IInv, Queues
      <4>2. ASSUME NEW r \in ToSet(q) PROVE p_semAdd'[r] = a
        <5>1. r \in ToSet(s_procQ[c]) /\ r # p /\ r \in Pcb
          BY <1>1, <1>2, QueueIn
        <5> QED BY <1>1, <1>2, <5>1, Forgets DEF IInv, Remembered
      <4>3. ASSUME NEW s \in Semd \ {c}, NEW r \in ToSet(s_procQ[s])
            PROVE  p_semAdd'[r] = p_semAdd[r]
        BY <4>1, Forgets, QueueIn
      <4> QED BY <2>1, <4>1, <4>2, <4>3
    <3>2. phase = 2 => \A r \in Pcb : \/ r \in ToSet(q)
                                      \/ p_semAdd'[r] = NULL
                                      \/ p_semAdd'[r] = p_semAdd[r] /\ r \notin ToSet(s_procQ[c])
      BY <1>1, Forgets
    <3> QED BY <1>1, <1>2, <1>4, <2>1, <2>3, <3>1, <3>2 DEF Requeues
  <2> QED BY <1>2, <2>2, <2>3, <2>4, Requeued
<1>5. CASE q = <<>>
  <2>1. Closed(i, c) /\ s_procQ' = [s_procQ EXCEPT ![c] = q]
    BY <1>2, <1>5 DEF semdDealloc, Closed
  <2>2. TypeOK'
    <3>1. DOMAIN s_procQ' = Semd /\ \A s \in Semd : s_procQ'[s] \in Seq(Pcb)
      BY <1>3, <2>1 DEF IInv, TypeOK
    <3>2. p_semAdd' \in [Pcb -> SemAdd \cup {NULL}]
      BY Forgets
    <3>3. /\ s_next' \in [Semd -> Semd \cup {0, NULL}]
          /\ s_semAdd' \in [Semd -> SemAdd \cup {0, NULL}]
          /\ semdFree_h' \in Semd
      BY <1>2, <2>1 DEF IInv, TypeOK, Closed
    <3> QED BY <3>1, <3>2, <3>3 DEF IInv, TypeOK
  <2>3. Lists' /\ Active' = Active \ {c}
    BY <1>1, <2>1, <2>2, ListsClosed
  <2>4. Requeues(a, c, q)
    <3>0. ToSet(q) = {}
      BY <1>5 DEF ToSet
    <3>1. \A s \in Semd \ {c} :
              /\ s_semAdd'[s] = s_semAdd[s]
              /\ \A r \in ToSet(s_procQ[s]) : p_semAdd'[r] = p_semAdd[r]
      <4>1. ASSUME NEW s \in Semd \ {c} PROVE p \notin ToSet(s_procQ[s])
        BY <1>1, <1>2 DEF IInv, Queues
      <4>2. ASSUME NEW s \in Semd \ {c} PROVE s_semAdd'[s] = s_semAdd[s]
        BY <2>1 DEF IInv, TypeOK, Closed
      <4>3. ASSUME NEW s \in Semd \ {c}, NEW r \in ToSet(s_procQ[s])
            PROVE  p_semAdd'[r] = p_semAdd[r]
        BY <4>1, Forgets, QueueIn
      <4> QED BY <4>2, <4>3
    <3>2. phase = 2 => \A r \in Pcb : \/ p_semAdd'[r] = NULL
                                      \/ p_semAdd'[r] = p_semAdd[r] /\ r \notin ToSet(s_procQ[c])
      BY <1>1, <3>0, Forgets
    <3> QED BY <1>1, <1>2, <1>5, <2>1, <2>3, <3>0, <3>1, <3>2 DEF Requeues
  <2> QED BY <1>2, <2>2, <2>3, <2>4, Requeued
<1> QED BY <1>4, <1>5

LEMMA Removed ==
    ASSUME IInv, NEW a \in SemAdd, removeBlocked(a)
    PROVE  IInv' /\ Blocked(a) # <<>> /\ Becomes(a, Tail(Blocked(a)))
<1>1. PICK i \in 2 .. Len(List) : StopsAt(a, i)
  BY Addresses, Traversed DEF IInv
<1>2. /\ traverseASL(a) = List[i - 1] /\ s_next[traverseASL(a)] = List[i]
  BY <1>1 DEF StopsAt
<1>3. /\ s_semAdd[List[i]] = a /\ UNCHANGED phase
      /\ semdDealloc(traverseASL(a), Tail(s_procQ[List[i]]))
      /\ p_semAdd' = Forgotten(Head(s_procQ[List[i]]))
  BY <1>2 DEF removeBlocked
<1>4. List[i] \in Active
  BY <1>1, <1>3, Located
<1>5. IsQueue(s_procQ[List[i]], Pcb) /\ s_procQ[List[i]] # <<>>
      /\ Blocked(a) = s_procQ[List[i]]
  BY <1>3, <1>4, QueueIn, BlockedNow DEF IInv, Waiting, BlockedIs
<1> DEFINE q == s_procQ[List[i]]
<1>6. /\ Head(q) \in Pcb /\ Head(q) \in ToSet(q) /\ IsQueue(Tail(q), Pcb)
      /\ ToSet(Tail(q)) = ToSet(q) \ {Head(q)}
  BY <1>5, QueueTail
<1>7. IInv' /\ Becomes(a, Tail(q))
  BY <1>1, <1>3, <1>6, Dealloc
<1> QED BY <1>5, <1>7

\* The queue only stays if the process is in none.
LEMMA Outed ==
    ASSUME IInv, NEW p \in Pcb, outBlocked(p)
    PROVE  /\ IInv'
           /\ \E a \in SemAdd : \/ p \in ToSet(Blocked(a)) /\ Becomes(a, RemoveFirst(Blocked(a), p))
                                \/ Becomes(a, Blocked(a))
<1>0. p_semAdd[p] \in SemAdd \cup {NULL} /\ NULL \in Nat /\ NULL > 0
  BY ASLAssumption DEF IInv, TypeOK
<1>1. PICK i \in 2 .. Len(List) : StopsAt(p_semAdd[p], i)
  <2>1. p_semAdd[p] \in Nat /\ 0 < p_semAdd[p] /\ p_semAdd[p] <= NULL
    BY <1>0, Addresses DEF IInv
  <2> QED BY <2>1, Traversed
<1>2. /\ traverseASL(p_semAdd[p]) = List[i - 1] /\ s_next[traverseASL(p_semAdd[p])] = List[i]
      /\ i \in 1 .. Len(List) /\ List[i] \in Semd
  BY <1>1, ListIs DEF StopsAt
<1> DEFINE q == s_procQ[List[i]]
           r == IF p \in ToSet(q) THEN RemoveFirst(q, p) ELSE q
<1>3. /\ s_semAdd[List[i]] = p_semAdd[p] /\ UNCHANGED phase
      /\ semdDealloc(traverseASL(p_semAdd[p]), r)
      /\ p_semAdd' = Forgotten(p)
      /\ p \in ToSet(q) \/ (phase = 1 /\ p_semAdd[p] # NULL)
  BY <1>2 DEF outBlocked
<1>4. PICK a \in SemAdd : a = p_semAdd[p]
  <2>1. CASE p \in ToSet(q)
    BY <1>2, <1>3, <2>1, QueueIn DEF IInv, Waiting
  <2>2. CASE p_semAdd[p] # NULL
    BY <1>0, <2>2
  <2> QED BY <1>3, <2>1, <2>2
<1>5. List[i] \in Active
  BY <1>1, <1>3, <1>4, Located
<1>6. IsQueue(q, Pcb) /\ Blocked(a) = q
  BY <1>3, <1>4, <1>5, QueueIn, BlockedNow DEF BlockedIs
<1>7. IsQueue(r, Pcb) /\ ToSet(r) = ToSet(q) \ {p}
  BY <1>6, QueueRemove
<1>8. ASSUME p \notin ToSet(q) PROVE phase = 1 /\ \A s \in Semd : p \notin ToSet(s_procQ[s])
  <2>1. phase = 1
    BY <1>3, <1>8
  <2>2. ASSUME NEW s \in Semd, p \in ToSet(s_procQ[s]) PROVE FALSE
    <3>1. s \in Active
      BY <2>2, QueueIn
    <3>2. s_semAdd[s] = p_semAdd[p]
      BY <2>2, <3>1 DEF IInv, Remembered
    <3>3. s = List[i]
      BY <1>3, <1>5, <3>1, <3>2, OneAddress
    <3> QED BY <1>8, <2>2, <3>3
  <2> QED BY <2>1, <2>2
<1> HIDE DEF r
<1>9. IInv' /\ Becomes(a, r)
  BY <1>1, <1>3, <1>4, <1>7, <1>8, Dealloc
<1> QED BY <1>6, <1>9 DEF r

\* Who is in no queue named by an address is in none.
LEMMA NotQueued ==
    ASSUME IInv, NEW p, p \notin Queued
    PROVE  \A s \in Semd : p \notin ToSet(s_procQ[s])
<1> SUFFICES ASSUME NEW s \in Semd, p \in ToSet(s_procQ[s]) PROVE FALSE
  OBVIOUS
<1>1. s \in Active
  BY QueueIn
<1>2. PICK a \in SemAdd : a = s_semAdd[s]
  BY <1>1 DEF IInv, Waiting
<1>3. Blocked(a) = s_procQ[s]
  BY <1>1, <1>2, BlockedNow DEF BlockedIs
<1> QED BY <1>2, <1>3 DEF Queued

\* Either the process is the last one now, or there is nothing free and nobody waits for a.
LEMMA Inserted ==
    ASSUME IInv, NEW a \in SemAdd, NEW p \in Pcb, insertBlocked(a, p)
    PROVE  /\ IInv'
           /\ \/ Becomes(a, Append(Blocked(a), p)) /\ s_procQ' # s_procQ
              \/ Becomes(a, Blocked(a)) /\ Blocked(a) = <<>> /\ Free = <<>>
<1>1. PICK i \in 2 .. Len(List) : StopsAt(a, i)
  BY Addresses, Traversed DEF IInv
<1>2. /\ traverseASL(a) = List[i - 1] /\ s_next[traverseASL(a)] = List[i]
      /\ i \in 1 .. Len(List) /\ List[i] \in Semd /\ List[i - 1] \in Semd
  <2>1. i - 1 \in 1 .. Len(List) /\ i \in 1 .. Len(List)
    BY ListIs
  <2> QED BY <1>1, <2>1, ListIs DEF StopsAt
<1>3. p \notin Queued /\ UNCHANGED phase
  BY DEF insertBlocked
<1>4. \A s \in Semd : p \notin ToSet(s_procQ[s])
  BY <1>3, NotQueued
<1>5. CASE s_semAdd[List[i]] = a
  <2>1. PICK c \in Active : c = List[i]
    BY <1>1, <1>5, Located
  <2> DEFINE q == Append(s_procQ[c], p)
  <2>2. /\ s_procQ' = [s_procQ EXCEPT ![c] = q]
        /\ p_semAdd' = [p_semAdd EXCEPT ![p] = a]
        /\ UNCHANGED <<s_next, s_semAdd, semdFree_h>>
    BY <1>2, <1>5, <2>1 DEF insertBlocked
  <2>3. c \in Semd /\ IsQueue(s_procQ[c], Pcb) /\ Blocked(a) = s_procQ[c]
    BY <1>2, <1>5, <2>1, QueueIn, BlockedNow DEF BlockedIs
  <2>4. /\ IsQueue(q, Pcb) /\ ToSet(q) = ToSet(s_procQ[c]) \cup {p}
        /\ q # <<>> /\ Len(q) = Len(s_procQ[c]) + 1
    BY <1>4, <2>3, QueueAppend
  <2>5. s_procQ'[c] = q /\ q # s_procQ[c]
    <3>1. Len(s_procQ[c]) \in Nat
      BY <2>3 DEF IsQueue
    <3>2. s_procQ'[c] = q
      BY <2>2, <2>3 DEF IInv, TypeOK
    <3> QED BY <2>4, <3>1, <3>2
  <2> HIDE DEF q
  <2>6. TypeOK'
    <3>1. DOMAIN s_procQ' = Semd /\ \A s \in Semd : s_procQ'[s] \in Seq(Pcb)
      BY <2>2, <2>4 DEF IInv, TypeOK, IsQueue
    <3>2. p_semAdd' \in [Pcb -> SemAdd \cup {NULL}]
      BY <2>2 DEF IInv, TypeOK
    <3> QED BY <1>3, <2>2, <3>1, <3>2 DEF IInv, TypeOK
  <2>7. Lists' /\ Active' = Active
    BY <2>2, <2>6, ListsKept
  <2>8. Requeues(a, c, q)
    <3>1. p_semAdd'[p] = a /\ \A r \in Pcb \ {p} : p_semAdd'[r] = p_semAdd[r]
      BY <2>2 DEF IInv, TypeOK
    <3>2. ASSUME NEW s \in Semd \ {c}
          PROVE  /\ ToSet(q) \cap ToSet(s_procQ[s]) = {}
                 /\ \A r \in ToSet(s_procQ[s]) : p_semAdd'[r] = p_semAdd[r]
      <4>1. ToSet(q) \cap ToSet(s_procQ[s]) = {}
        BY <1>4, <2>3, <2>4 DEF IInv, Queues
      <4>2. ASSUME NEW r \in ToSet(s_procQ[s]) PROVE p_semAdd'[r] = p_semAdd[r]
        BY <1>4, <3>1, <4>2, QueueIn
      <4> QED BY <4>1, <4>2
    <3>3. ASSUME NEW r \in ToSet(q) PROVE p_semAdd'[r] = a
      <4>1. CASE r = p
        BY <3>1, <4>1
      <4>2. CASE r # p
        <5>1. r \in ToSet(s_procQ[c]) /\ r \in Pcb
          BY <2>3, <2>4, <3>3, <4>2, QueueIn
        <5>2. p_semAdd[r] = s_semAdd[c]
          BY <2>1, <5>1 DEF IInv, Remembered
        <5> QED BY <1>5, <2>1, <3>1, <4>2, <5>1, <5>2
      <4> QED BY <4>1, <4>2
    <3>4. ASSUME NEW r \in Pcb
          PROVE  r \in ToSet(q) \/ (p_semAdd'[r] = p_semAdd[r] /\ r \notin ToSet(s_procQ[c]))
      BY <2>4, <3>1
    <3> QED BY <1>3, <1>5, <2>1, <2>2, <2>4, <2>7, <3>2, <3>3, <3>4 DEF Requeues
  <2>9. IInv' /\ Becomes(a, q)
    BY <2>3, <2>6, <2>7, <2>8, Requeued
  <2> QED BY <2>3, <2>5, <2>9 DEF q
<1>6. CASE s_semAdd[List[i]] # a
  <2>1. \A s \in Active : s_semAdd[s] # a
    BY <1>1, <1>6, Located
  <2>2. Blocked(a) = <<>>
    BY <2>1, BlockedNow DEF BlockedIs
  <2>3. /\ semdFree_h \in Semd \cup {0, NULL} /\ 0 \notin Semd /\ NULL \notin Semd
    BY Addresses DEF IInv, TypeOK
  <2>4. CASE semdAlloc = NULL
    <3>1. semdFree_h' = NULL /\ UNCHANGED <<s_next, s_semAdd, s_procQ, p_semAdd>>
      BY <1>2, <1>6, <2>4 DEF insertBlocked
    <3>2. semdFree_h \in {0, NULL}
      BY <2>3, <2>4 DEF semdAlloc
    <3>3. TypeOK'
      BY <1>3, <3>1 DEF IInv, TypeOK
    <3>4. Lists' /\ Active' = Active
      BY <3>1, <3>2, <3>3, ListsKept
    <3>5. Waiting' /\ Queues' /\ Remembered'
      BY <1>3, <3>1, <3>4 DEF IInv, Waiting, Queues, Remembered
    <3>6. IInv'
      BY <3>3, <3>4, <3>5 DEF IInv
    <3>7. ASSUME NEW b \in SemAdd PROVE Blocked(b)' = Blocked(b)
      BY <3>1, <3>4 DEF Blocked
    <3>8. Free = <<>>
      BY <2>3, <3>2, FreeIs
    <3> QED BY <2>2, <3>6, <3>7, <3>8 DEF Becomes
  <2>5. CASE semdAlloc # NULL
    <3>1. PICK e \in Semd : e = semdFree_h /\ semdAlloc = e
      BY <2>3, <2>5 DEF semdAlloc
    <3>2. /\ Opened(a, i, e) /\ s_procQ' = [s_procQ EXCEPT ![e] = <<p>>]
          /\ p_semAdd' = [p_semAdd EXCEPT ![p] = a]
      BY <1>2, <1>6, <2>5, <3>1 DEF insertBlocked, Opened
    <3>3. /\ IsQueue(<<p>>, Pcb) /\ ToSet(<<p>>) = {p} /\ <<p>> # <<>>
      BY DEF IsQueue, IsInjective, ToSet
    <3>4. TypeOK'
      <4>1. DOMAIN s_procQ' = Semd /\ \A s \in Semd : s_procQ'[s] \in Seq(Pcb)
        BY <3>2 DEF IInv, TypeOK
      <4>2. p_semAdd' \in [Pcb -> SemAdd \cup {NULL}]
        BY <3>2 DEF IInv, TypeOK
      <4>3. /\ s_next' \in [Semd -> Semd \cup {0, NULL}]
            /\ s_semAdd' \in [Semd -> SemAdd \cup {0, NULL}]
            /\ semdFree_h' \in Semd \cup {0, NULL}
        BY <1>2, <3>1, <3>2 DEF IInv, TypeOK, Opened
      <4> QED BY <1>3, <4>1, <4>2, <4>3 DEF IInv, TypeOK
    <3>5. Lists' /\ Active' = Active \cup {e} /\ e \notin Active
      BY <1>1, <1>6, <3>1, <3>2, <3>4, ListsOpened
    <3>6. s_procQ[e] = <<>> /\ s_procQ'[e] = <<p>> /\ s_semAdd'[e] = a
      BY <3>2, <3>5 DEF IInv, Waiting, TypeOK, Opened
    <3>7. Requeues(a, e, <<p>>)
      <4>1. p_semAdd'[p] = a /\ \A r \in Pcb \ {p} : p_semAdd'[r] = p_semAdd[r]
        BY <3>2 DEF IInv, TypeOK
      <4>2. ASSUME NEW s \in Semd \ {e}
            PROVE  /\ s_semAdd'[s] = s_semAdd[s]
                   /\ ToSet(<<p>>) \cap ToSet(s_procQ[s]) = {}
                   /\ \A r \in ToSet(s_procQ[s]) : p_semAdd'[r] = p_semAdd[r]
        <5>1. s_semAdd'[s] = s_semAdd[s]
          BY <3>2 DEF IInv, TypeOK, Opened
        <5>2. ToSet(<<p>>) \cap ToSet(s_procQ[s]) = {}
          BY <1>4, <3>3
        <5>3. \A r \in ToSet(s_procQ[s]) : p_semAdd'[r] = p_semAdd[r]
          BY <1>4, <4>1, QueueIn
        <5> QED BY <5>1, <5>2, <5>3
      <4>3. \A r \in ToSet(<<p>>) : p_semAdd'[r] = a
        BY <3>3, <4>1
      <4>4. ASSUME NEW r \in Pcb
            PROVE  r \in ToSet(<<p>>) \/ (p_semAdd'[r] = p_semAdd[r] /\ r \notin ToSet(s_procQ[e]))
        BY <3>3, <3>6, <4>1 DEF ToSet
      <4> QED BY <1>3, <2>1, <3>2, <3>3, <3>5, <3>6, <4>2, <4>3, <4>4 DEF Requeues
    <3>8. IInv' /\ Becomes(a, <<p>>)
      BY <3>4, <3>5, <3>7, Requeued
    <3>9. Append(Blocked(a), p) = <<p>>
      BY <2>2
    <3>10. s_procQ' # s_procQ
      BY <3>3, <3>6
    <3> QED BY <3>8, <3>9, <3>10
  <2> QED BY <2>4, <2>5
<1> QED BY <1>5, <1>6

----------------------------------------------------------------------------
(* The theorems.                                                           *)

\* Every step keeps the invariant, and it is one of Fifo or changes no queue.
LEMMA EachStep ==
    ASSUME IInv, [Next]_vars
    PROVE  /\ IInv'
           /\ \/ \E a \in SemAdd, p \in Pcb :
                    insertBlocked(a, p) /\ Becomes(a, Append(Blocked(a), p))
              \/ \E a \in SemAdd : Blocked(a) # <<>> /\ Becomes(a, Tail(Blocked(a)))
              \/ \E a \in SemAdd, p \in Pcb :
                    p \in ToSet(Blocked(a)) /\ Becomes(a, RemoveFirst(Blocked(a), p))
              \/ \A a \in SemAdd : Blocked(a)' = Blocked(a)
<1>1. ASSUME NEW a \in SemAdd, removeBlocked(a)
      PROVE  IInv' /\ Blocked(a) # <<>> /\ Becomes(a, Tail(Blocked(a)))
  BY <1>1, Removed
<1>2. ASSUME NEW a \in SemAdd, NEW p \in Pcb, insertBlocked(a, p)
      PROVE  /\ IInv'
             /\ Becomes(a, Append(Blocked(a), p)) \/ \A b \in SemAdd : Blocked(b)' = Blocked(b)
  BY <1>2, Inserted DEF Becomes
<1>3. ASSUME NEW p \in Pcb, outBlocked(p)
      PROVE  /\ IInv'
             /\ \/ \E a \in SemAdd :
                      p \in ToSet(Blocked(a)) /\ Becomes(a, RemoveFirst(Blocked(a), p))
                \/ \A b \in SemAdd : Blocked(b)' = Blocked(b)
  BY <1>3, Outed DEF Becomes
<1>4. ASSUME UNCHANGED vars
      PROVE  IInv' /\ \A b \in SemAdd : Blocked(b)' = Blocked(b)
  <2>1. List' = List /\ Free' = Free /\ Active' = Active
    BY <1>4 DEF vars, List, Free, Active, Path
  <2>2. IInv'
    BY <1>4, <2>1 DEF vars, IInv, TypeOK, Lists, Chained, Linked, Dummies, Sorted, Partition,
       Waiting, Queues, Remembered
  <2>3. ASSUME NEW b \in SemAdd PROVE Blocked(b)' = Blocked(b)
    BY <1>4, <2>1 DEF vars, Blocked
  <2> QED BY <2>2, <2>3
<1>5. CASE UNCHANGED vars
  BY <1>4, <1>5
<1>6. CASE Next
  <2>1. CASE \E a \in SemAdd : removeBlocked(a)
    BY <1>1, <2>1
  <2>2. CASE \E a \in SemAdd, p \in Pcb : insertBlocked(a, p)
    <3>1. PICK a \in SemAdd, p \in Pcb : insertBlocked(a, p)
      BY <2>2
    <3> QED BY <1>2, <3>1
  <2>3. CASE \E p \in Pcb : outBlocked(p)
    BY <1>3, <2>3
  <2> QED BY <1>6, <2>1, <2>2, <2>3 DEF Next
<1> QED BY <1>5, <1>6

\* The lists partition the descriptors, the active one is sorted and has exactly those
\* with waiters, and a waiter's p_semAdd says for what it waits.
THEOREM Invariance == Spec => []IInv
<1>1. Init => IInv
  BY InitIInv
<1>2. IInv /\ [Next]_vars => IInv'
  BY EachStep
<1> QED BY <1>1, <1>2, PTL DEF Spec

\* The fields, the queues and the free list have their types.
THEOREM TypeCorrect == Spec => []TypeOK
<1>1. IInv => TypeOK
  BY DEF IInv
<1> QED BY <1>1, Invariance, PTL

\* asl.c: the active list is sorted and ends in the last dummy, has only semaphores with
\* waiters, and no descriptor is lost or on both lists.
THEOREM ListsStayIntact == Spec => []ListsIntact
<1>1. ASSUME IInv PROVE ListsIntact
  <2>1. Path(semd_h) = List
    BY DEF List
  <2>2. (IF semdFree_h \in Semd THEN Path(semdFree_h) ELSE <<>>) = Free
    BY <1>1, FreeIs DEF Free
  <2>3. List # <<>> /\ List[Len(List)] = LastDummy
    BY <1>1, ListIs DEF IInv, Lists, Dummies
  <2>4. \A i \in 1 .. Len(List) - 1 : s_semAdd[List[i]] < s_semAdd[List[i + 1]]
    <3> TAKE i \in 1 .. Len(List) - 1
    <3>1. i \in 1 .. Len(List) /\ i + 1 \in 1 .. Len(List) /\ i < i + 1
      BY <1>1, ListIs
    <3> QED BY <1>1, <3>1 DEF IInv, Lists, Sorted
  <2>5. \A s \in Active : s_procQ[s] # <<>>
    BY <1>1 DEF IInv, Waiting
  <2>6. ToSet(List) \cap ToSet(Free) = {} /\ ToSet(List) \cup ToSet(Free) = Semd
    BY <1>1 DEF IInv, Lists, Partition
  <2> QED BY <2>1, <2>2, <2>3, <2>4, <2>5, <2>6 DEF ListsIntact
<1> QED BY <1>1, Invariance, PTL

\* headBlocked finds the first waiter of every semaphore, and p_semAdd says of a blocked
\* process for what it waits, and from phase 2 on of another that it does not.
THEOREM WaitersStayFound == Spec => []WaitersFound
<1>1. ASSUME IInv PROVE WaitersFound
  <2>1. ASSUME NEW a \in SemAdd
        PROVE  headBlocked(a) = IF Blocked(a) = <<>> THEN NULL ELSE Head(Blocked(a))
    <3>1. PICK i \in 2 .. Len(List) : StopsAt(a, i)
      BY <1>1, Addresses, Traversed DEF IInv
    <3>2. s_next[traverseASL(a)] = List[i]
      BY <3>1 DEF StopsAt
    <3>3. CASE s_semAdd[List[i]] = a
      <4>1. List[i] \in Active
        BY <1>1, <3>1, <3>3, Located
      <4>2. Blocked(a) = s_procQ[List[i]] /\ s_procQ[List[i]] # <<>>
        BY <1>1, <3>3, <4>1, BlockedNow DEF BlockedIs, IInv, Waiting
      <4> QED BY <3>2, <3>3, <4>2 DEF headBlocked
    <3>4. CASE s_semAdd[List[i]] # a
      <4>1. Blocked(a) = <<>>
        BY <1>1, <3>1, <3>4, Located, BlockedNow DEF BlockedIs
      <4> QED BY <3>2, <3>4, <4>1 DEF headBlocked
    <3> QED BY <3>3, <3>4
  <2>2. ASSUME NEW a \in SemAdd, NEW p \in Pcb, p \in ToSet(Blocked(a)) PROVE p_semAdd[p] = a
    <3>1. Blocked(a) # <<>>
      BY <2>2 DEF ToSet
    <3>2. PICK s \in Active : s_semAdd[s] = a
      BY <1>1, <3>1, BlockedNow DEF BlockedIs
    <3>3. Blocked(a) = s_procQ[s]
      BY <1>1, <3>2, BlockedNow DEF BlockedIs
    <3> QED BY <1>1, <2>2, <3>2, <3>3 DEF IInv, Remembered
  <2>3. ASSUME phase = 2, NEW p \in Pcb, p \notin Queued PROVE p_semAdd[p] = NULL
    <3>1. \A s \in Semd : p \notin ToSet(s_procQ[s])
      BY <1>1, <2>3, NotQueued
    <3> QED BY <1>1, <2>3, <3>1, QueueIn DEF IInv, Remembered
  <2> QED BY <2>1, <2>2, <2>3 DEF WaitersFound
<1> QED BY <1>1, Invariance, PTL

\* insertBlocked refuses a process only when MAXPROC semaphores have waiters and none of
\* them is the one it is to wait on: no descriptor leaks, and one is enough for each.
THEOREM RefusesOnlyFull == Spec => RefusesOnlyWhenFull
<1> DEFINE Refuses == \A a \in SemAdd, p \in Pcb : UNCHANGED s_procQ /\ insertBlocked(a, p) =>
                         Cardinality(Active) = MAXPROC /\ Blocked(a) = <<>>
<1>1. ASSUME IInv PROVE Refuses
  <2> SUFFICES ASSUME NEW a \in SemAdd, NEW p \in Pcb, UNCHANGED s_procQ, insertBlocked(a, p)
               PROVE  Cardinality(Active) = MAXPROC /\ Blocked(a) = <<>>
    OBVIOUS
  <2>1. Blocked(a) = <<>> /\ Free = <<>>
    BY <1>1, Inserted
  <2>2. ToSet(Free) = {}
    BY <2>1 DEF ToSet
  <2>3. Active = (Semd \ {semd_h}) \ {LastDummy}
    BY <1>1, <2>2 DEF IInv, Lists, Partition, Active, List
  <2>4. /\ IsFiniteSet(Semd \ {semd_h})
        /\ Cardinality(Semd \ {semd_h}) = Cardinality(Semd) - 1
    BY <1>1, FiniteSemd, FS_RemoveElement, Addresses DEF IInv
  <2>5. LastDummy \in Semd \ {semd_h}
    BY <1>1, Addresses DEF IInv
  <2>6. Cardinality(Active) = Cardinality(Semd \ {semd_h}) - 1
    BY <2>3, <2>4, <2>5, FS_RemoveElement
  <2> QED BY <2>1, <2>4, <2>6, FiniteSemd, ASLAssumption
<1>2. IInv /\ [Next]_vars => [Refuses]_vars
  BY <1>1
<1>3. Spec => [][Refuses]_vars
  BY <1>2, Invariance, PTL DEF Spec
<1> QED BY <1>3 DEF RefusesOnlyWhenFull

\* RemoveFirst as Fifo has it.
LEMMA SameRemoveFirst == \A q, p : Abstract!RemoveFirst(q, p) = RemoveFirst(q, p)
BY DEF RemoveFirst, Abstract!RemoveFirst, RemoveAt, Abstract!RemoveAt,
   SelectInSeq, Abstract!SelectInSeq, Min, Abstract!Min

\* asl.c keeps one first-in first-out queue of processes for each semaphore: a process
\* goes in at the end and only if it is in none, and comes out from the front or, with
\* outBlocked, from where it is.
THEOREM Refinement == Spec => ImplementsFifo
<1> DEFINE abs == [a \in SemAdd |-> Blocked(a)]
<1>1. Init => Abstract!FInit
  <2> SUFFICES ASSUME Init PROVE Abstract!FInit
    OBVIOUS
  <2>1. IInv /\ Active = {}
    <3>1. IInv
      BY InitIInv
    <3>2. ASSUME NEW s \in Active PROVE FALSE
      <4>1. s \in Semd /\ s_procQ[s] # <<>>
        BY <3>1, QueueIn DEF IInv, Waiting
      <4> QED BY <4>1 DEF Init
    <3> QED BY <3>1, <3>2
  <2>2. \A a \in SemAdd : Blocked(a) = <<>>
    BY <2>1, BlockedNow DEF BlockedIs
  <2>3. \A a \in SemAdd : IsInjective(Blocked(a)) /\ ToSet(Blocked(a)) = {}
    <3>1. IsInjective(<<>>) /\ ToSet(<<>>) = {}
      BY DEF IsInjective, ToSet
    <3> QED BY <2>2, <3>1
  <2>4. \A a \in SemAdd : abs[a] = Blocked(a)
    OBVIOUS
  <2>5. Abstract!Disjoint
    BY <2>3, <2>4 DEF Abstract!Disjoint, ToSet, Abstract!ToSet, IsInjective, Abstract!IsInjective
  <2> QED BY <2>5 DEF Abstract!FInit
<1>2. IInv /\ [Next]_vars => [Abstract!FNext]_abs
  <2> SUFFICES ASSUME IInv, [Next]_vars PROVE [Abstract!FNext]_abs
    OBVIOUS
  <2>0. /\ abs = [a \in SemAdd |-> Blocked(a)]
        /\ abs' = [a \in SemAdd |-> Blocked(a)']
    OBVIOUS
  <2>1. ASSUME NEW a \in SemAdd, NEW q, Becomes(a, q)
        PROVE  abs' = [abs EXCEPT ![a] = q]
    BY <2>0, <2>1 DEF Becomes
  <2>2. CASE \E a \in SemAdd, p \in Pcb :
                insertBlocked(a, p) /\ Becomes(a, Append(Blocked(a), p))
    <3>1. PICK a \in SemAdd, p \in Pcb :
             insertBlocked(a, p) /\ Becomes(a, Append(Blocked(a), p))
      BY <2>2
    <3>2. p \notin Abstract!Queued
      <4>1. p \notin Queued
        BY <3>1 DEF insertBlocked
      <4> QED BY <4>1 DEF Queued, Abstract!Queued, ToSet, Abstract!ToSet
    <3>3. abs' = [abs EXCEPT ![a] = Append(abs[a], p)]
      BY <2>0, <2>1, <3>1
    <3>4. Abstract!Insert(a, p)
      BY <3>2, <3>3 DEF Abstract!Insert
    <3> QED BY <3>4 DEF Abstract!FNext
  <2>3. CASE \E a \in SemAdd : Blocked(a) # <<>> /\ Becomes(a, Tail(Blocked(a)))
    <3>1. PICK a \in SemAdd : Blocked(a) # <<>> /\ Becomes(a, Tail(Blocked(a)))
      BY <2>3
    <3>2. abs[a] # <<>> /\ abs' = [abs EXCEPT ![a] = Tail(abs[a])]
      BY <2>0, <2>1, <3>1
    <3>3. Abstract!RemoveHead(a)
      BY <3>2 DEF Abstract!RemoveHead
    <3> QED BY <3>3 DEF Abstract!FNext
  <2>4. CASE \E a \in SemAdd, p \in Pcb :
                p \in ToSet(Blocked(a)) /\ Becomes(a, RemoveFirst(Blocked(a), p))
    <3>1. PICK a \in SemAdd, p \in Pcb :
             p \in ToSet(Blocked(a)) /\ Becomes(a, RemoveFirst(Blocked(a), p))
      BY <2>4
    <3>2. p \in ToSet(abs[a]) /\ abs' = [abs EXCEPT ![a] = RemoveFirst(abs[a], p)]
      BY <2>0, <2>1, <3>1
    <3>3. Abstract!Out(a, p)
      BY <3>2, SameRemoveFirst DEF Abstract!Out, ToSet, Abstract!ToSet
    <3> QED BY <3>3 DEF Abstract!FNext
  <2>5. CASE \A a \in SemAdd : Blocked(a)' = Blocked(a)
    BY <2>0, <2>5
  <2> QED BY <2>2, <2>3, <2>4, <2>5, EachStep
<1> QED BY <1>1, <1>2, Invariance, PTL DEF Spec, ImplementsFifo, Abstract!FSpec

=============================================================================
