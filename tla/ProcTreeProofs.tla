--------------------------- MODULE ProcTreeProofs ---------------------------
(***************************************************************************)
(* For any number of pcbs: the lists of children of src/phase2/pcb.c.      *)
(*                                                                         *)
(* Children(x) follows the links of one state.  That it is q when the      *)
(* links chain the elements of q is a lemma about states (WalkNow), and    *)
(* used in both: a step is shown to chain, from what was chained before,   *)
(* what its lists are to be.                                               *)
(***************************************************************************)
EXTENDS ProcTree, QueueLemmas

\* The links chain the elements of q from the first child of x.
ListOf(x, q) == Chain(p_next_sib, p_child[x], Pcb, q)

----------------------------------------------------------------------------
(* What Children finds.                                                    *)

Walks == \A x \in Pcb : \A q : ListOf(x, q) => Children(x) = q

\* Following the links until they lead out of procTable gives the list.
LEMMA WalkNow == TypeOK => Walks
<1> SUFFICES ASSUME TypeOK, NEW x \in Pcb, NEW q, ListOf(x, q)
             PROVE  Children(x) = q
  BY DEF Walks
<1> DEFINE next == [p \in Pointer |-> IF p \in Pcb THEN p_next_sib[p] ELSE NULL]
           at[n \in Nat] == IF n = 0 THEN p_child[x] ELSE next[at[n - 1]]
           ends == {n \in 0 .. Cardinality(Pcb) : at[n] \notin Pcb}
<1>1. \A p \in Pcb : next[p] = p_next_sib[p]
  BY DEF Pointer
<1> HIDE DEF next
<1>2. \E g : g = [n \in Nat |-> IF n = 0 THEN p_child[x] ELSE next[g[n - 1]]]
  <2>1. PICK g : Recurs(next, p_child[x], g)
    BY Recursion
  <2> QED BY <2>1 DEF Recurs
<1>3. at = [n \in Nat |-> IF n = 0 THEN p_child[x] ELSE next[at[n - 1]]]
  BY <1>2, Zenon
<1> HIDE DEF at
<1>4. at[0] = p_child[x] /\ \A n \in Nat : at[n + 1] = next[at[n]]
  <2>1. ASSUME NEW n \in Nat PROVE at[n + 1] = next[at[n]]
    <3>1. n + 1 \in Nat /\ n + 1 # 0 /\ (n + 1) - 1 = n
      OBVIOUS
    <3> QED BY <1>3, <3>1
  <2> QED BY <1>3, <2>1
<1>5. Chain(next, p_child[x], Pcb, q)
  <2>1. Chain(p_next_sib, p_child[x], Pcb, q)
    BY DEF ListOf
  <2>2. ToSet(q) \subseteq Pcb
    BY <2>1, QueueLength DEF Chain
  <2> QED BY <1>1, <2>1, <2>2, ChainFrame
<1>6. Meets(at, Pcb, q)
  <2>1. Follows(at, next, p_child[x])
    BY <1>4 DEF Follows
  <2> QED BY <1>5, <2>1, ChainWalk, TreeAssumption
<1>7. ends = Outs(at, Pcb)
  BY DEF Outs
<1>8. Children(x) = [i \in 1 .. IF ends = {} THEN 0 ELSE Min(ends) |-> at[i - 1]]
  BY DEF Children, at, next
<1> HIDE DEF ends
<1>9. Children(x) = [i \in 1 .. Len(q) |-> q[i]]
  BY <1>6, <1>7, <1>8 DEF Meets
<1>10. q = [i \in 1 .. Len(q) |-> q[i]]
  <2>1. q \in Seq(Pcb)
    BY <1>5 DEF Chain, IsQueue
  <2> QED BY <2>1
<1> QED BY <1>9, <1>10

LEMMA WalkAfter == TypeOK' => Walks'
BY WalkNow, PTL

----------------------------------------------------------------------------
(* The inductive invariant.                                                *)

\* Free pcbs and the new one have no children.
Childless == \A x \in Pcb : x \notin Used \/ x = new => p_child[x] \notin Pcb

\* The lists share no pcb and have none that is free or new.
Apart ==
    /\ \A x, y \in Pcb : x # y => ToSet(Children(x)) \cap ToSet(Children(y)) = {}
    /\ \A x \in Pcb : ToSet(Children(x)) \subseteq Used \ {new}
    /\ Childless

\* The links of every pcb chain its children.
Chained == \A x \in Pcb : ListOf(x, Children(x))

IInv == TypeOK /\ (new # NULL => new \in Used) /\ Chained /\ Apart

\* The pcb allocPcb takes is not free any more, and no other changes sides.
LEMMA Allocated ==
    ASSUME TypeOK, pcbFree # <<>>, pcbFree' = Tail(pcbFree)
    PROVE  /\ Head(pcbFree) \in Pcb \ Used
           /\ Used' = Used \cup {Head(pcbFree)}
           /\ pcbFree' \in Seq(Pcb) /\ IsInjective(pcbFree')
<1>1. IsQueue(pcbFree, Pcb)
  BY DEF TypeOK, IsQueue
<1>2. /\ Head(pcbFree) \in Pcb /\ Head(pcbFree) \in ToSet(pcbFree)
      /\ IsQueue(pcbFree', Pcb) /\ ToSet(pcbFree') = ToSet(pcbFree) \ {Head(pcbFree)}
  BY <1>1, QueueTail
<1> QED BY <1>2 DEF Used, IsQueue

\* A pcb that is given back was not free.
LEMMA Freed ==
    ASSUME TypeOK, NEW p \in Used, pcbFree' = Append(pcbFree, p)
    PROVE  /\ Used' = Used \ {p}
           /\ pcbFree' \in Seq(Pcb) /\ IsInjective(pcbFree')
<1>1. IsQueue(pcbFree, Pcb) /\ p \in Pcb /\ p \notin ToSet(pcbFree)
  BY DEF TypeOK, IsQueue, Used
<1>2. IsQueue(pcbFree', Pcb) /\ ToSet(pcbFree') = ToSet(pcbFree) \cup {p}
  BY <1>1, QueueAppend
<1> QED BY <1>2 DEF Used, IsQueue

----------------------------------------------------------------------------
(* Types.                                                                  *)

LEMMA InitType == Init => TypeOK
<1> SUFFICES ASSUME Init PROVE TypeOK
  OBVIOUS
<1>1. pcbFree \in Seq(Pcb) /\ IsInjective(pcbFree)
  <2>1. Cardinality(Pcb) \in Nat
    BY FS_CardinalityType, TreeAssumption
  <2>2. /\ pcbFree \in [1 .. Cardinality(Pcb) -> Pcb]
        /\ \A i, j \in 1 .. Cardinality(Pcb) : i # j => pcbFree[i] # pcbFree[j]
    BY DEF Init, SetToSeqs
  <2>3. pcbFree \in Seq(Pcb) /\ DOMAIN pcbFree = 1 .. Cardinality(Pcb)
    BY <2>1, <2>2
  <2> QED BY <2>2, <2>3 DEF IsInjective
<1> QED BY <1>1 DEF Init, TypeOK, Pointer

LEMMA NextType ==
    ASSUME TypeOK, [Next]_vars
    PROVE  TypeOK'
<1> USE DEF Pointer
<1>1. CASE allocPcb
  <2>1. pcbFree # <<>> /\ pcbFree' = Tail(pcbFree)
    BY <1>1 DEF allocPcb
  <2>2. pcbFree' \in Seq(Pcb) /\ IsInjective(pcbFree') /\ Head(pcbFree) \in Pcb
    BY <2>1, Allocated
  <2>3. /\ p_prnt' \in [Pcb -> Pointer] /\ p_child' \in [Pcb -> Pointer]
        /\ p_next_sib' \in [Pcb -> Pointer]
    BY <1>1 DEF allocPcb, Cleared, TypeOK
  <2>4. new' \in Pcb /\ fault' \in BOOLEAN
    BY <1>1, <2>2 DEF allocPcb, TypeOK
  <2> QED BY <2>2, <2>3, <2>4 DEF TypeOK
<1>2. ASSUME NEW p \in Pcb, freePcb(p) PROVE TypeOK'
  <2>1. pcbFree' \in Seq(Pcb) /\ IsInjective(pcbFree')
    BY <1>2, Freed DEF freePcb
  <2> QED BY <1>2, <2>1 DEF freePcb, treeVars, TypeOK
<1>3. CASE noParent
  BY <1>3 DEF noParent, treeVars, TypeOK
<1>4. ASSUME NEW x \in Pcb, insertChild(x) PROVE TypeOK'
  <2>1. new \in Pcb /\ p_child[x] \in Pointer
    BY <1>4 DEF insertChild, TypeOK
  <2>2. p_prnt' \in [Pcb -> Pointer]
    BY <1>4, <2>1 DEF insertChild, FirstChild, TypeOK
  <2>3. p_next_sib' \in [Pcb -> Pointer]
    BY <1>4, <2>1 DEF insertChild, FirstChild, TypeOK
  <2>4. p_child' \in [Pcb -> Pointer] /\ fault' \in BOOLEAN /\ new' \in Pcb \cup {NULL}
    BY <1>4, <2>1 DEF insertChild, TypeOK
  <2>5. pcbFree' \in Seq(Pcb) /\ IsInjective(pcbFree')
    BY <1>4 DEF insertChild, TypeOK
  <2> QED BY <2>2, <2>3, <2>4, <2>5 DEF TypeOK
<1>5. ASSUME NEW x \in Pcb, removeChild(x) PROVE TypeOK'
  <2>1. p_child' \in [Pcb -> Pointer] /\ fault' \in BOOLEAN
    <3>1. CASE p_child[x] = Zero
      BY <1>5, <3>1 DEF removeChild, TypeOK
    <3>2. CASE p_child[x] # Zero
      <4>1. p_child[x] \in Pcb
        BY <1>5, <3>2 DEF removeChild, TypeOK
      <4> QED BY <1>5, <3>2, <4>1 DEF removeChild, TypeOK
    <3> QED BY <3>1, <3>2
  <2> QED BY <1>5, <2>1 DEF removeChild, TypeOK
<1>6. ASSUME NEW p \in Pcb, outChild(p) PROVE TypeOK'
  <2>1. p_child' \in [Pcb -> Pointer] /\ p_next_sib' \in [Pcb -> Pointer]
    BY <1>6 DEF outChild, Skipped, TypeOK
  <2> QED BY <1>6, <2>1 DEF outChild, TypeOK
<1>7. CASE UNCHANGED vars
  BY <1>7 DEF vars, treeVars, TypeOK
<1> QED BY <1>1, <1>2, <1>3, <1>4, <1>5, <1>6, <1>7 DEF Next

\* The links of a pcb lead to pcbs, to NULL or to 0, and no pcb is on the free list
\* twice, in whatever order pcbs are allocated, related and freed.
THEOREM TypeCorrect == Spec => []TypeOK
BY InitType, NextType, PTL DEF Spec

----------------------------------------------------------------------------
(* What steps do to the lists.                                             *)

\* A list is what the links chain after a step.
LEMMA Relisted ==
    ASSUME TypeOK', NEW x \in Pcb, NEW q, Chain(p_next_sib', p_child'[x], Pcb, q)
    PROVE  Children(x)' = q /\ ListOf(x, Children(x))'
<1>1. Children(x)' = q
  BY WalkAfter DEF Walks, ListOf
<1> QED BY <1>1 DEF ListOf

\* A list stays if the links of its members do.
LEMMA Kept ==
    ASSUME TypeOK', Chained, NEW x \in Pcb, p_child'[x] = p_child[x],
           \A p \in ToSet(Children(x)) : p_next_sib'[p] = p_next_sib[p]
    PROVE  Children(x)' = Children(x) /\ ListOf(x, Children(x))'
<1>1. Chain(p_next_sib, p_child[x], Pcb, Children(x))
  BY DEF Chained, ListOf
<1>2. Chain(p_next_sib', p_child'[x], Pcb, Children(x))
  BY <1>1, ChainFrame
<1> QED BY <1>2, Relisted

\* At most the list of x changes, and becomes q.
Becomes(x, q) ==
    /\ Chained'
    /\ Children(x)' = q
    /\ \A y \in Pcb \ {x} : Children(y)' = Children(y)

\* No list changes.
Same == Chained' /\ \A y \in Pcb : Children(y)' = Children(y)

\* The children of a pcb are pcbs.
LEMMA ChildrenIn ==
    ASSUME Chained, NEW x \in Pcb
    PROVE  IsQueue(Children(x), Pcb) /\ ToSet(Children(x)) \subseteq Pcb
<1>1. IsQueue(Children(x), Pcb)
  BY DEF Chained, ListOf, Chain
<1> QED BY <1>1, QueueLength

LEMMA AllocSame ==
    ASSUME TypeOK, TypeOK', Chained, Apart, allocPcb
    PROVE  Same
<1> DEFINE p == Head(pcbFree)
<1>1. p \in Pcb \ Used
  BY Allocated DEF allocPcb
<1>2. \A y \in Pcb \ {p} : p_child'[y] = p_child[y] /\ p_next_sib'[y] = p_next_sib[y]
  BY DEF allocPcb, Cleared, TypeOK
<1>3. p_child[p] \notin Pcb /\ p_child'[p] \notin Pcb
  <2>1. p_child[p] \notin Pcb
    BY <1>1 DEF Apart, Childless
  <2>2. p_child'[p] \in {NULL, p_child[p]}
    BY <1>1 DEF allocPcb, Cleared, TypeOK
  <2> QED BY <2>1, <2>2, TreeAssumption
<1> HIDE DEF p
<1>4. ASSUME NEW y \in Pcb PROVE Children(y)' = Children(y) /\ ListOf(y, Children(y))'
  <2>1. CASE y # p
    <3>1. \A c \in ToSet(Children(y)) : c \in Pcb \ {p}
      BY <1>1 DEF Apart, Used
    <3> QED BY <1>2, <2>1, <3>1, Kept
  <2>2. CASE y = p
    <3>1. Chain(p_next_sib', p_child'[y], Pcb, <<>>)
      BY <1>3, <2>2 DEF Chain, IsQueue, IsInjective
    <3>2. Chain(p_next_sib, p_child[y], Pcb, Children(y))
      BY DEF Chained, ListOf
    <3>3. Children(y) = <<>>
      BY <1>3, <2>2, <3>2, ChainHead
    <3> QED BY <3>1, <3>3, Relisted
  <2> QED BY <2>1, <2>2
<1> QED BY <1>4 DEF Same, Chained

LEMMA LinksSame ==
    ASSUME TypeOK', Chained, UNCHANGED <<p_child, p_next_sib>>
    PROVE  Same
<1>1. ASSUME NEW y \in Pcb PROVE Children(y)' = Children(y) /\ ListOf(y, Children(y))'
  BY Kept
<1> QED BY <1>1 DEF Same, Chained

LEMMA InsertBecomes ==
    ASSUME TypeOK, TypeOK', Chained, Apart, NEW x \in Pcb, insertChild(x)
    PROVE  Becomes(x, <<new>> \o Children(x))
<1>1. new \in Pcb /\ x # new
  BY DEF insertChild, TypeOK
<1>2. /\ p_next_sib' = [p_next_sib EXCEPT ![new] = p_child[x]]
      /\ p_child' = [p_child EXCEPT ![x] = new]
  BY DEF insertChild, FirstChild
<1>3. \A y \in Pcb : new \notin ToSet(Children(y)) /\ ToSet(Children(y)) \subseteq Pcb
  BY DEF Apart, Used
<1>4. \A p \in Pcb \ {new} : p_next_sib'[p] = p_next_sib[p]
  BY <1>2 DEF TypeOK
<1>5. Children(x)' = <<new>> \o Children(x) /\ ListOf(x, Children(x))'
  <2>1. Chain(p_next_sib, p_child[x], Pcb, Children(x))
    BY DEF Chained, ListOf
  <2>2. /\ p_next_sib'[new] = p_child[x] /\ p_child'[x] = new
        /\ \A p \in ToSet(Children(x)) : p_next_sib'[p] = p_next_sib[p]
    BY <1>1, <1>2, <1>3, <1>4 DEF TypeOK
  <2>3. Chain(p_next_sib', p_child'[x], Pcb, <<new>> \o Children(x))
    BY <1>1, <1>3, <2>1, <2>2, ChainPush
  <2> QED BY <2>3, Relisted
<1>6. ASSUME NEW y \in Pcb \ {x}
      PROVE  Children(y)' = Children(y) /\ ListOf(y, Children(y))'
  <2>1. /\ p_child'[y] = p_child[y]
        /\ \A p \in ToSet(Children(y)) : p_next_sib'[p] = p_next_sib[p]
    BY <1>2, <1>3, <1>4 DEF TypeOK
  <2> QED BY <2>1, Kept
<1> QED BY <1>5, <1>6 DEF Becomes, Chained

\* The first child of x is taken off its list.
LEMMA FirstOut ==
    ASSUME TypeOK, TypeOK', Chained, NEW x \in Pcb, p_child[x] \in Pcb,
           p_child' = [p_child EXCEPT ![x] = p_next_sib[p_child[x]]], UNCHANGED p_next_sib
    PROVE  /\ Becomes(x, RemoveFirst(Children(x), p_child[x]))
           /\ p_child[x] \in ToSet(Children(x))
<1>1. Chain(p_next_sib, p_child[x], Pcb, Children(x))
  BY DEF Chained, ListOf
<1>2. p_child[x] \in ToSet(Children(x))
  BY <1>1, ChainHead
<1>3. Chain(p_next_sib, p_next_sib[p_child[x]], Pcb, RemoveFirst(Children(x), p_child[x]))
  <2>1. PICK c \in Pcb : c = p_child[x]
    OBVIOUS
  <2>2. Chain(p_next_sib, c, Pcb, Children(x))
    BY <1>1, <2>1
  <2>3. /\ Chain(p_next_sib, p_next_sib[c], Pcb, Tail(Children(x)))
        /\ RemoveFirst(Children(x), c) = Tail(Children(x))
    BY <2>2, ChainTail
  <2> QED BY <2>1, <2>3
<1>4. p_child'[x] = p_next_sib[p_child[x]]
  BY DEF TypeOK
<1>5. /\ Children(x)' = RemoveFirst(Children(x), p_child[x])
      /\ ListOf(x, Children(x))'
  BY <1>3, <1>4, Relisted
<1>6. ASSUME NEW y \in Pcb \ {x}
      PROVE  Children(y)' = Children(y) /\ ListOf(y, Children(y))'
  <2>1. p_child'[y] = p_child[y]
    BY DEF TypeOK
  <2> QED BY <2>1, Kept
<1> QED BY <1>2, <1>5, <1>6 DEF Becomes, Chained

LEMMA RemoveBecomes ==
    ASSUME TypeOK, TypeOK', Chained, NEW x \in Pcb, removeChild(x)
    PROVE  \/ Same
           \/ \E p \in ToSet(Children(x)) : Becomes(x, RemoveFirst(Children(x), p))
<1>1. CASE p_child[x] = Zero
  BY <1>1, LinksSame DEF removeChild
<1>2. CASE p_child[x] # Zero
  <2>1. p_child[x] \in Pcb
    BY <1>2 DEF removeChild, TypeOK, Pointer
  <2> QED BY <1>2, <2>1, FirstOut DEF removeChild
<1> QED BY <1>1, <1>2

\* A child of x that is not the first is taken off its list.
LEMMA InnerOut ==
    ASSUME TypeOK, TypeOK', Chained, Apart, NEW x \in Pcb, NEW p \in ToSet(Children(x)),
           p_child[x] # p, UNCHANGED p_child, p_next_sib' = Skipped(x, p)
    PROVE  /\ Becomes(x, RemoveFirst(Children(x), p))
           /\ \E s \in Pcb : p_next_sib' = [p_next_sib EXCEPT ![s] = p_next_sib[p]]
<1> DEFINE list == Children(x)
           j == CHOOSE k \in 1 .. Len(list) : list[k] = p
<1>1. Chain(p_next_sib, p_child[x], Pcb, list)
  BY DEF Chained, ListOf
<1>2. IsQueue(list, Pcb) /\ list \in Seq(Pcb) /\ Len(list) \in Nat /\ ToSet(list) \subseteq Pcb
  BY ChildrenIn, LenProperties DEF IsQueue
<1>3. j \in 1 .. Len(list) /\ list[j] = p
  <2>1. \E k \in 1 .. Len(list) : list[k] = p
    BY <1>2, Elements
  <2> QED BY <2>1, Zenon
<1>4. p_next_sib' = [p_next_sib EXCEPT ![list[j - 1]] = p_next_sib[p]]
  BY Zenon DEF Skipped
<1> HIDE DEF j, list
<1>5. j \in 2 .. Len(list) /\ j - 1 \in 1 .. Len(list)
  <2>1. list # <<>>
    BY <1>2, <1>3
  <2>2. p_child[x] = list[1]
    BY <1>1, <2>1, ChainHead
  <2> QED BY <1>2, <1>3, <2>2
<1> DEFINE s == list[j - 1]
<1>6. s \in Pcb /\ s \in ToSet(list)
  BY <1>2, <1>5, Elements
<1>7. /\ p_next_sib'[s] = p_next_sib[p]
      /\ \A c \in Pcb \ {s} : p_next_sib'[c] = p_next_sib[c]
  BY <1>4, <1>6 DEF TypeOK
<1> HIDE DEF s
<1>8. Chain(p_next_sib', p_child'[x], Pcb, RemoveFirst(list, p))
  <2>1. Chain(p_next_sib, p_child'[x], Pcb, list)
    BY <1>1
  <2>2. /\ p_next_sib'[list[j - 1]] = p_next_sib[list[j]]
        /\ \A c \in ToSet(list) : c # list[j - 1] => p_next_sib'[c] = p_next_sib[c]
    BY <1>2, <1>3, <1>7 DEF s
  <2>3. Chain(p_next_sib', p_child'[x], Pcb, RemoveFirst(list, list[j]))
    BY <1>5, <2>1, <2>2, ChainSkip
  <2> QED BY <1>3, <2>3
<1>9. Children(x)' = RemoveFirst(Children(x), p) /\ ListOf(x, Children(x))'
  BY <1>8, Relisted DEF list
<1>10. ASSUME NEW y \in Pcb \ {x}
       PROVE  Children(y)' = Children(y) /\ ListOf(y, Children(y))'
  <2>1. \A c \in ToSet(Children(y)) : c \in Pcb \ {s}
    BY <1>6, ChildrenIn DEF Apart, list
  <2> QED BY <1>7, <2>1, Kept
<1>11. Becomes(x, RemoveFirst(Children(x), p))
  BY <1>9, <1>10 DEF Becomes, Chained
<1> QED BY <1>4, <1>6, <1>11 DEF s

LEMMA OutBecomes ==
    ASSUME TypeOK, TypeOK', Chained, Apart, NEW p \in Pcb, outChild(p)
    PROVE  \/ Same
           \/ \E x \in Pcb : /\ p \in ToSet(Children(x))
                             /\ Becomes(x, RemoveFirst(Children(x), p))
<1>0. PICK x \in Pointer : x = p_prnt[p]
  BY DEF TypeOK
<1>1. CASE x = Zero
  BY <1>0, <1>1, LinksSame DEF outChild
<1>2. CASE x # Zero
  <2>1. x \in Pcb
    BY <1>0, <1>2 DEF outChild, Pointer
  <2>2. p \in ToSet(Children(x))
    BY <1>0, <1>2 DEF outChild
  <2>3. CASE p_child[x] = p
    <3>1. p_child' = [p_child EXCEPT ![x] = p_next_sib[p]] /\ UNCHANGED p_next_sib
      BY <1>0, <1>2, <2>3 DEF outChild
    <3> QED BY <2>1, <2>2, <2>3, <3>1, FirstOut
  <2>4. CASE p_child[x] # p
    <3>1. p_next_sib' = Skipped(x, p) /\ UNCHANGED p_child
      BY <1>0, <1>2, <2>4 DEF outChild
    <3> QED BY <2>1, <2>2, <2>4, <3>1, InnerOut
  <2> QED BY <2>3, <2>4
<1> QED BY <1>1, <1>2

----------------------------------------------------------------------------
(* The invariant.                                                          *)

\* Lists that stay what they are stay apart.
LEMMA SameApart ==
    ASSUME Apart, Same, Used \ {new} \subseteq Used' \ {new'}, Childless'
    PROVE  Apart'
<1>1. \A y \in Pcb : Children(y)' = Children(y)
  BY DEF Same
<1>2. /\ \A y, z \in Pcb : y # z => ToSet(Children(y)) \cap ToSet(Children(z)) = {}
      /\ \A y \in Pcb : ToSet(Children(y)) \subseteq Used \ {new}
  BY DEF Apart
<1>3. \A y, z \in Pcb : y # z => ToSet(Children(y)') \cap ToSet(Children(z)') = {}
  BY <1>1, <1>2
<1>4. \A y \in Pcb : ToSet(Children(y)') \subseteq Used' \ {new'}
  BY <1>1, <1>2
<1> QED BY <1>3, <1>4 DEF Apart

OnNone(D) == \A y \in Pcb : D \cap ToSet(Children(y)) = {}

\* So they do when one loses a pcb, or gets one that was on none.
LEMMA BecomesApart ==
    ASSUME NEW D, Apart, NEW x \in Pcb, NEW q, Becomes(x, q), Childless', OnNone(D),
           Used \ {new} \subseteq Used' \ {new'}, D \subseteq Used' \ {new'},
           ToSet(q) \subseteq ToSet(Children(x)) \cup D
    PROVE  Apart'
<1>1. Children(x)' = q /\ \A y \in Pcb \ {x} : Children(y)' = Children(y)
  BY DEF Becomes
<1>2. /\ \A y, z \in Pcb : y # z => ToSet(Children(y)) \cap ToSet(Children(z)) = {}
      /\ \A y \in Pcb : ToSet(Children(y)) \subseteq Used \ {new}
      /\ \A y \in Pcb : D \cap ToSet(Children(y)) = {}
  BY DEF Apart, OnNone
<1>3. \A y, z \in Pcb : y # z => ToSet(Children(y)') \cap ToSet(Children(z)') = {}
  <2> SUFFICES ASSUME NEW y \in Pcb, NEW z \in Pcb, y # z
               PROVE  ToSet(Children(y)') \cap ToSet(Children(z)') = {}
    OBVIOUS
  <2>0. ToSet(Children(y)) \cap ToSet(Children(z)) = {}
    BY <1>2
  <2>1. CASE y = x
    <3>1. Children(y)' = q /\ Children(z)' = Children(z)
      BY <1>1, <2>1
    <3> QED BY <1>2, <2>0, <2>1, <3>1
  <2>2. CASE z = x
    <3>1. Children(z)' = q /\ Children(y)' = Children(y)
      BY <1>1, <2>2
    <3> QED BY <1>2, <2>0, <2>2, <3>1
  <2>3. CASE y # x /\ z # x
    BY <1>1, <2>0, <2>3
  <2> QED BY <2>1, <2>2, <2>3
<1>4. \A y \in Pcb : ToSet(Children(y)') \subseteq Used' \ {new'}
  <2> SUFFICES ASSUME NEW y \in Pcb PROVE ToSet(Children(y)') \subseteq Used' \ {new'}
    OBVIOUS
  <2>1. CASE y = x
    BY <1>1, <1>2, <2>1
  <2>2. CASE y # x
    BY <1>1, <1>2, <2>2
  <2> QED BY <2>1, <2>2
<1> QED BY <1>3, <1>4 DEF Apart

\* What a step that the prover has typed does to the lists.
LEMMA NextLists ==
    ASSUME IInv, TypeOK', [Next]_vars
    PROVE  \/ Same
           \/ \E x \in Pcb : insertChild(x) /\ Becomes(x, <<new>> \o Children(x))
           \/ \E x \in Pcb : \E p \in ToSet(Children(x)) :
                 Becomes(x, RemoveFirst(Children(x), p))
<1> USE DEF IInv
<1>1. CASE allocPcb
  BY <1>1, AllocSame
<1>2. ASSUME NEW p \in Pcb, freePcb(p) PROVE Same
  BY <1>2, LinksSame DEF freePcb, treeVars
<1>3. CASE noParent
  BY <1>3, LinksSame DEF noParent, treeVars
<1>4. ASSUME NEW x \in Pcb, insertChild(x) PROVE Becomes(x, <<new>> \o Children(x))
  BY <1>4, InsertBecomes
<1>5. ASSUME NEW x \in Pcb, removeChild(x)
      PROVE  \/ Same
             \/ \E p \in ToSet(Children(x)) : Becomes(x, RemoveFirst(Children(x), p))
  BY <1>5, RemoveBecomes
<1>6. ASSUME NEW p \in Pcb, outChild(p)
      PROVE  \/ Same
             \/ \E x \in Pcb : /\ p \in ToSet(Children(x))
                               /\ Becomes(x, RemoveFirst(Children(x), p))
  BY <1>6, OutBecomes
<1>7. CASE UNCHANGED vars
  BY <1>7, LinksSame DEF vars, treeVars
<1> QED BY <1>1, <1>2, <1>3, <1>4, <1>5, <1>6, <1>7 DEF Next

\* The free pcbs and the new one keep clear of children.
LEMMA NextUsed ==
    ASSUME IInv, TypeOK', [Next]_vars
    PROVE  /\ new' # NULL => new' \in Used'
           /\ \/ \E p \in Pcb : freePcb(p)
              \/ Used \ {new} \subseteq Used' \ {new'}
           /\ Childless'
<1> USE DEF IInv, Childless
<1>0. \A y \in Pcb : y \notin Used \/ y = new => p_child[y] \notin Pcb
  BY DEF Apart, Childless
<1>1. CASE allocPcb
  <2> DEFINE p == Head(pcbFree)
  <2>1. /\ p \in Pcb \ Used /\ Used' = Used \cup {p} /\ new' = p /\ new = NULL
    BY <1>1, Allocated DEF allocPcb
  <2>2. \A y \in Pcb : p_child'[y] = p_child[y] \/ (y = p /\ p_child'[y] = NULL)
    BY <1>1 DEF allocPcb, Cleared, TypeOK
  <2> HIDE DEF p
  <2>3. NULL \notin Used /\ NULL \notin Pcb
    BY TreeAssumption DEF Used
  <2>4. Used \ {new} \subseteq Used' \ {new'}
    BY <2>1
  <2>5. \A y \in Pcb : y \notin Used' \/ y = new' => p_child'[y] \notin Pcb
    BY <1>0, <2>1, <2>2, <2>3
  <2> QED BY <2>1, <2>4, <2>5
<1>2. ASSUME NEW p \in Pcb, freePcb(p)
      PROVE  /\ new' # NULL => new' \in Used'
             /\ \A y \in Pcb : y \notin Used' \/ y = new' => p_child'[y] \notin Pcb
  <2>1. Used' = Used \ {p} /\ p # new /\ p_child[p] = NULL /\ UNCHANGED <<p_child, new>>
    BY <1>2, Freed DEF freePcb, treeVars
  <2> QED BY <1>0, <2>1, TreeAssumption
<1>3. CASE noParent
  <2>1. Used' = Used /\ p_child' = p_child /\ new' = NULL
    BY <1>3 DEF noParent, treeVars, Used
  <2>2. NULL \notin Pcb
    BY TreeAssumption
  <2> QED BY <1>0, <1>3, <2>1, <2>2 DEF Used, noParent
<1>4. ASSUME NEW x \in Pcb, insertChild(x)
      PROVE  /\ new' = NULL /\ Used' = Used
             /\ \A y \in Pcb : y \notin Used' => p_child'[y] \notin Pcb
  <2>1. Used' = Used /\ x \in Used /\ new' = NULL /\ p_child' = [p_child EXCEPT ![x] = new]
    BY <1>4 DEF insertChild, Used
  <2>2. \A y \in Pcb \ {x} : p_child'[y] = p_child[y]
    BY <2>1 DEF TypeOK
  <2> QED BY <1>0, <2>1, <2>2
<1>5. ASSUME NEW x \in Pcb, x \in Used, x # new \/ p_child[x] \in Pcb,
             UNCHANGED <<pcbFree, new>>,
             \A y \in Pcb \ {x} : p_child'[y] = p_child[y]
      PROVE  /\ new' # NULL => new' \in Used'
             /\ Used' = Used
             /\ \A y \in Pcb : y \notin Used' \/ y = new' => p_child'[y] \notin Pcb
  <2>1. Used' = Used
    BY <1>5 DEF Used
  <2> QED BY <1>0, <1>5, <2>1
<1>6. ASSUME UNCHANGED <<pcbFree, new, p_child>>
      PROVE  /\ new' # NULL => new' \in Used'
             /\ Used' = Used
             /\ \A y \in Pcb : y \notin Used' \/ y = new' => p_child'[y] \notin Pcb
  <2>1. Used' = Used
    BY <1>6 DEF Used
  <2> QED BY <1>0, <1>6, <2>1
<1>7. ASSUME NEW x \in Pcb, removeChild(x)
      PROVE  /\ new' # NULL => new' \in Used'
             /\ Used' = Used
             /\ \A y \in Pcb : y \notin Used' \/ y = new' => p_child'[y] \notin Pcb
  <2>1. CASE p_child[x] = Zero
    BY <1>6, <1>7, <2>1 DEF removeChild
  <2>2. CASE p_child[x] # Zero
    <3>1. p_child[x] \in Pcb /\ x \in Used /\ UNCHANGED <<pcbFree, new>>
      BY <1>7, <2>2 DEF removeChild, TypeOK, Pointer
    <3>2. \A y \in Pcb \ {x} : p_child'[y] = p_child[y]
      BY <1>7, <2>2 DEF removeChild, TypeOK
    <3> QED BY <1>5, <3>1, <3>2
  <2> QED BY <2>1, <2>2
<1>8. ASSUME NEW p \in Pcb, outChild(p)
      PROVE  /\ new' # NULL => new' \in Used'
             /\ Used' = Used
             /\ \A y \in Pcb : y \notin Used' \/ y = new' => p_child'[y] \notin Pcb
  <2>0. PICK x \in Pointer : x = p_prnt[p]
    BY DEF TypeOK
  <2>1. CASE UNCHANGED p_child
    BY <1>6, <1>8, <2>1 DEF outChild
  <2>2. CASE ~UNCHANGED p_child
    <3>1. /\ x # Zero /\ p_child[x] = p /\ x # NULL
          /\ p_child' = [p_child EXCEPT ![x] = p_next_sib[p]]
          /\ UNCHANGED <<pcbFree, new>>
      BY <1>8, <2>0, <2>2 DEF outChild
    <3>2. x \in Pcb /\ p_child[x] \in Pcb
      BY <3>1 DEF Pointer
    <3>3. x \in Used
      BY <1>0, <3>2
    <3>4. \A y \in Pcb \ {x} : p_child'[y] = p_child[y]
      BY <3>1 DEF TypeOK
    <3> QED BY <1>5, <3>1, <3>2, <3>3, <3>4
  <2> QED BY <2>1, <2>2
<1>9. CASE UNCHANGED vars
  BY <1>6, <1>9 DEF vars, treeVars
<1>10. NULL \notin Pcb /\ NULL \notin Used
  BY TreeAssumption DEF Used
<1>11. ASSUME NEW x \in Pcb, insertChild(x)
       PROVE  /\ new' # NULL => new' \in Used'
              /\ Used \ {new} \subseteq Used' \ {new'}
              /\ \A y \in Pcb : y \notin Used' \/ y = new' => p_child'[y] \notin Pcb
  BY <1>4, <1>10, <1>11
<1>12. ASSUME NEW p \in Pcb, removeChild(p) \/ outChild(p)
       PROVE  Used \ {new} \subseteq Used' \ {new'}
  <2>1. Used' = Used /\ new' = new
    BY <1>12 DEF removeChild, outChild, Used
  <2> QED BY <2>1
<1>13. CASE UNCHANGED vars
  <2>1. Used' = Used /\ new' = new
    BY <1>13 DEF vars, Used
  <2> QED BY <1>9, <1>13, <2>1
<1> HIDE DEF IInv
<1> QED BY <1>1, <1>2, <1>3, <1>7, <1>8, <1>11, <1>12, <1>13 DEF Next

LEMMA InitIInv == Init => IInv
<1> SUFFICES ASSUME Init PROVE IInv
  OBVIOUS
<1>1. TypeOK
  BY InitType
<1>2. /\ new = NULL /\ \A x \in Pcb : p_child[x] = Zero
      /\ \A x \in Pcb : p_child[x] \notin Pcb
  BY TreeAssumption DEF Init
<1>3. ASSUME NEW x \in Pcb PROVE ListOf(x, <<>>) /\ Children(x) = <<>>
  <2>1. ListOf(x, <<>>)
    BY <1>2 DEF ListOf, Chain, IsQueue, IsInjective
  <2> QED BY <1>1, <2>1, WalkNow DEF Walks
<1>4. Chained
  BY <1>3 DEF Chained
<1>5. ToSet(<<>>) = {}
  BY DEF ToSet
<1>6. Apart
  BY <1>2, <1>3, <1>5 DEF Apart, Childless
<1> QED BY <1>1, <1>2, <1>4, <1>6 DEF IInv

LEMMA NextIInv == IInv /\ [Next]_vars => IInv'
<1> SUFFICES ASSUME IInv, [Next]_vars PROVE IInv'
  OBVIOUS
<1>1. TypeOK'
  BY NextType DEF IInv
<1>2. Chained'
  BY <1>1, NextLists DEF Same, Becomes
<1>3. /\ new' # NULL => new' \in Used'
      /\ Childless'
  BY <1>1, NextUsed
<1>4. Apart
  BY DEF IInv
<1>5. ASSUME NEW p \in Pcb, freePcb(p) PROVE Apart'
  <2>1. Same
    BY <1>1, <1>5, LinksSame DEF freePcb, treeVars, IInv
  <2>2. Used' = Used \ {p} /\ new' = new /\ ~IsChild(p)
    BY <1>5, Freed DEF freePcb, IInv
  <2>3. \A y \in Pcb : ToSet(Children(y)) \subseteq Used' \ {new'}
    BY <1>4, <2>2 DEF Apart, IsChild
  <2>4. \A y, z \in Pcb : y # z => ToSet(Children(y)) \cap ToSet(Children(z)) = {}
    BY <1>4 DEF Apart
  <2>5. /\ \A y \in Pcb : ToSet(Children(y)') \subseteq Used' \ {new'}
        /\ \A y, z \in Pcb : y # z => ToSet(Children(y)') \cap ToSet(Children(z)') = {}
    BY <2>1, <2>3, <2>4 DEF Same
  <2> QED BY <1>3, <2>5 DEF Apart
<1>6. ASSUME Used \ {new} \subseteq Used' \ {new'} PROVE Apart'
  <2>1. CASE Same
    BY <1>3, <1>4, <1>6, <2>1, SameApart
  <2>2. ASSUME NEW x \in Pcb, insertChild(x), Becomes(x, <<new>> \o Children(x))
        PROVE  Apart'
    <3>1. new \in Used /\ new \in Pcb /\ new' = NULL /\ Used' = Used /\ new # NULL
      BY <2>2 DEF insertChild, IInv, Used
    <3>2. OnNone({new})
      BY <1>4 DEF Apart, OnNone
    <3>3. ToSet(<<new>> \o Children(x)) \subseteq ToSet(Children(x)) \cup {new}
      <4>1. IsQueue(Children(x), Pcb) /\ new \notin ToSet(Children(x))
        BY <3>2, ChildrenIn DEF IInv, OnNone
      <4> QED BY <3>1, <4>1, QueuePrepend
    <3> QED BY <1>3, <1>4, <1>6, <2>2, <3>1, <3>2, <3>3, BecomesApart
  <2>3. ASSUME NEW x \in Pcb, NEW p \in ToSet(Children(x)),
               Becomes(x, RemoveFirst(Children(x), p))
        PROVE  Apart'
    <3>1. ToSet(RemoveFirst(Children(x), p)) \subseteq ToSet(Children(x)) \cup {}
      BY ChildrenIn, QueueRemove DEF IInv
    <3>2. OnNone({}) /\ {} \subseteq Used' \ {new'}
      BY DEF OnNone
    <3> QED BY <1>3, <1>4, <1>6, <2>3, <3>1, <3>2, BecomesApart
  <2> QED BY <1>1, <2>1, <2>2, <2>3, NextLists
<1>7. Apart'
  BY <1>1, <1>5, <1>6, NextUsed
<1> QED BY <1>1, <1>2, <1>3, <1>7 DEF IInv

\* Whatever the links of a pcb were when it came in, the lists of children are lists,
\* without a pcb in common.
THEOREM Invariance == Spec => []IInv
BY InitIInv, NextIInv, PTL DEF Spec

----------------------------------------------------------------------------
(* One child at a time.                                                    *)

LEMMA OneChanges ==
    ASSUME IInv, [Next]_vars
    PROVE  LET changed == {x \in Pcb : Children(x)' # Children(x)} IN
           /\ Cardinality(changed) <= 1
           /\ \A x \in changed :
                 \/ Children(x)' = <<new>> \o Children(x)
                 \/ \E p \in ToSet(Children(x)) :
                       Children(x)' = RemoveFirst(Children(x), p)
<1> DEFINE changed == {x \in Pcb : Children(x)' # Children(x)}
<1>1. TypeOK'
  BY NextType DEF IInv
<1>2. ASSUME NEW x \in Pcb, NEW q, Becomes(x, q)
      PROVE  Cardinality(changed) <= 1 /\ \A y \in changed : y = x /\ Children(y)' = q
  <2>1. \A y \in changed : y = x /\ Children(y)' = q
    BY <1>2 DEF Becomes
  <2>2. changed \subseteq {x}
    BY <2>1
  <2>3. IsFiniteSet({x}) /\ Cardinality({x}) = 1
    BY FS_Singleton
  <2>4. Cardinality(changed) <= Cardinality({x})
    BY <2>2, <2>3, FS_Subset
  <2> QED BY <2>1, <2>3, <2>4
<1>3. CASE Same
  <2>1. changed = {}
    BY <1>3 DEF Same
  <2>2. Cardinality(changed) = 0
    BY <2>1, FS_EmptySet
  <2> QED BY <2>1, <2>2
<1> HIDE DEF changed
<1>4. ASSUME NEW x \in Pcb, Becomes(x, <<new>> \o Children(x))
      PROVE  /\ Cardinality(changed) <= 1
             /\ \A y \in changed : Children(y)' = <<new>> \o Children(y)
  BY <1>2, <1>4
<1>5. ASSUME NEW x \in Pcb, NEW p \in ToSet(Children(x)),
             Becomes(x, RemoveFirst(Children(x), p))
      PROVE  /\ Cardinality(changed) <= 1
             /\ \A y \in changed : \E c \in ToSet(Children(y)) :
                   Children(y)' = RemoveFirst(Children(y), c)
  BY <1>2, <1>5
<1>6. /\ Cardinality(changed) <= 1
      /\ \A x \in changed :
            \/ Children(x)' = <<new>> \o Children(x)
            \/ \E p \in ToSet(Children(x)) : Children(x)' = RemoveFirst(Children(x), p)
  BY <1>1, <1>3, <1>4, <1>5, NextLists DEF changed
<1> QED BY <1>6 DEF changed

\* insertChild, removeChild and outChild change one list, by the pcb they are about,
\* whatever is left in the links of pcbs that were children before.
THEOREM OneChildMoves == Spec => OneChildAtATime
<1>1. IInv /\ [Next]_vars =>
      [LET changed == {x \in Pcb : Children(x)' # Children(x)} IN
       /\ Cardinality(changed) <= 1
       /\ \A x \in changed :
             \/ Children(x)' = <<new>> \o Children(x)
             \/ \E p \in ToSet(Children(x)) :
                   Children(x)' = RemoveFirst(Children(x), p)]_vars
  BY OneChanges
<1> QED BY <1>1, Invariance, PTL DEF Spec, OneChildAtATime

----------------------------------------------------------------------------
(* The pointer 0.                                                          *)

\* Once one link of a pcb has been cleared all have, and those of the pcbs in use have.
NoZero ==
    /\ \A p \in Used : p_child[p] # Zero
    /\ \A p \in Pcb : p_child[p] # Zero => p_prnt[p] # Zero /\ p_next_sib[p] # Zero
    /\ ~fault

LEMMA NextNoZero ==
    ASSUME ~Drained, IInv, NoZero, [Next]_vars
    PROVE  NoZero'
<1>0. TypeOK /\ Apart /\ Zero # NULL /\ Zero \notin Pcb /\ NULL \notin Pcb
  BY TreeAssumption DEF IInv
<1>1. CASE allocPcb
  <2> DEFINE p == Head(pcbFree)
  <2>1. p \in Pcb /\ Used' = Used \cup {p} /\ p_child \in [Pcb -> Pointer]
    BY <1>0, <1>1, Allocated DEF allocPcb, TypeOK
  <2>2. CASE Len(pcbFree) = 1
    <3>1. p_child[p] # Zero /\ UNCHANGED <<p_child, p_prnt, p_next_sib, fault>>
      BY <1>1, <2>2 DEF allocPcb, Cleared
    <3> HIDE DEF p
    <3> QED BY <2>1, <3>1 DEF NoZero
  <2>3. CASE Len(pcbFree) # 1
    <3>1. /\ p_child' = [p_child EXCEPT ![p] = NULL] /\ p_prnt' = [p_prnt EXCEPT ![p] = NULL]
          /\ p_next_sib' = [p_next_sib EXCEPT ![p] = NULL] /\ UNCHANGED fault
      BY <1>1, <2>3 DEF allocPcb, Cleared
    <3> HIDE DEF p
    <3>2. /\ p_child'[p] # Zero /\ p_prnt'[p] # Zero /\ p_next_sib'[p] # Zero
          /\ \A c \in Pcb \ {p} : /\ p_child'[c] = p_child[c] /\ p_prnt'[c] = p_prnt[c]
                                  /\ p_next_sib'[c] = p_next_sib[c]
      BY <1>0, <2>1, <3>1 DEF TypeOK
    <3>3. Used \subseteq Pcb
      BY DEF Used
    <3> QED BY <2>1, <3>1, <3>2, <3>3 DEF NoZero
  <2> QED BY <2>2, <2>3
<1>2. ASSUME NEW p \in Pcb, freePcb(p) PROVE NoZero'
  <2>1. Used' \subseteq Used /\ UNCHANGED <<p_child, p_prnt, p_next_sib, fault>>
    BY <1>0, <1>2, Freed DEF freePcb, treeVars
  <2> QED BY <2>1 DEF NoZero
<1>3. CASE noParent
  BY <1>3 DEF noParent, treeVars, NoZero, Used
<1>4. ASSUME NEW x \in Pcb, insertChild(x) PROVE NoZero'
  <2>1. /\ x \in Used /\ new \in Used /\ x # new /\ new \in Pcb /\ Used' = Used
        /\ new # Zero /\ x # Zero
    BY <1>0, <1>4 DEF insertChild, Used, IInv
  <2>2. p_child[x] # Zero
    BY <2>1 DEF NoZero
  <2>3. /\ p_child' = [p_child EXCEPT ![x] = new]
        /\ p_next_sib' = [p_next_sib EXCEPT ![new] = p_child[x]]
        /\ p_prnt' = [p_prnt EXCEPT ![new] = x] \/ UNCHANGED p_prnt
        /\ fault' = FALSE
    BY <1>4, <2>2 DEF insertChild, FirstChild
  <2>4. /\ p_child'[x] = new /\ p_next_sib'[new] = p_child[x]
        /\ \A c \in Pcb \ {x} : p_child'[c] = p_child[c]
        /\ \A c \in Pcb \ {new} : p_next_sib'[c] = p_next_sib[c]
        /\ \A c \in Pcb : p_prnt'[c] = p_prnt[c] \/ p_prnt'[c] = x
    BY <1>0, <2>1, <2>3 DEF TypeOK
  <2>5. \A p \in Used' : p_child'[p] # Zero
    BY <2>1, <2>4 DEF NoZero, Used
  <2>6. ASSUME NEW p \in Pcb, p_child'[p] # Zero
        PROVE  p_prnt'[p] # Zero /\ p_next_sib'[p] # Zero
    <3>1. p_child[p] # Zero
      BY <2>1, <2>2, <2>4, <2>6
    <3>2. p_prnt[p] # Zero /\ p_next_sib[p] # Zero
      BY <3>1 DEF NoZero
    <3> QED BY <2>1, <2>2, <2>4, <3>2
  <2> QED BY <2>3, <2>5, <2>6 DEF NoZero
\* A list that loses a child gets a link of it, which is none of 0.
<1>5. ASSUME NEW x \in Pcb, NEW c \in Used, UNCHANGED <<pcbFree, p_prnt, p_next_sib>>,
             x \in Used, p_child' = [p_child EXCEPT ![x] = p_next_sib[c]], fault' = FALSE
      PROVE  NoZero'
  <2>1. Used' = Used /\ c \in Pcb
    BY <1>5 DEF Used
  <2>2. p_next_sib[c] # Zero /\ p_child[x] # Zero
    BY <1>5, <2>1 DEF NoZero
  <2>3. p_child'[x] = p_next_sib[c] /\ \A y \in Pcb \ {x} : p_child'[y] = p_child[y]
    BY <1>0, <1>5 DEF TypeOK
  <2>4. \A y \in Pcb : p_child'[y] # Zero <=> p_child[y] # Zero
    BY <2>2, <2>3
  <2>5. Used \subseteq Pcb
    BY DEF Used
  <2> QED BY <1>5, <2>1, <2>4, <2>5 DEF NoZero
<1>6. ASSUME NEW x \in Pcb, removeChild(x) PROVE NoZero'
  <2>1. x \in Used /\ p_child[x] # Zero /\ p_child[x] \in Pcb
    BY <1>0, <1>6 DEF removeChild, NoZero, TypeOK, Pointer
  <2>2. /\ p_child' = [p_child EXCEPT ![x] = p_next_sib[p_child[x]]]
        /\ UNCHANGED <<pcbFree, p_prnt, p_next_sib>> /\ fault' = FALSE
    BY <1>6, <2>1 DEF removeChild, NoZero
  <2>3. p_child[x] \in Used
    <3>1. ListOf(x, Children(x))
      BY DEF IInv, Chained
    <3>2. p_child[x] \in ToSet(Children(x))
      BY <2>1, <3>1, ChainHead DEF ListOf
    <3> QED BY <1>0, <3>2 DEF Apart
  <2> QED BY <1>5, <2>1, <2>2, <2>3
<1>7. ASSUME NEW p \in Pcb, outChild(p) PROVE NoZero'
  <2>0. PICK x \in Pointer : x = p_prnt[p]
    BY <1>0 DEF TypeOK
  <2>1. p \in Used /\ p_child[p] # Zero /\ x # Zero /\ x \in Pcb /\ fault' = FALSE
    BY <1>7, <2>0 DEF outChild, NoZero, Pointer
  <2>2. p \in ToSet(Children(x)) /\ UNCHANGED <<pcbFree, p_prnt>> /\ Chained /\ TypeOK'
    BY <1>7, <2>0, <2>1, NextType DEF outChild, IInv
  <2>3. CASE p_child[x] = p
    <3>1. p_child' = [p_child EXCEPT ![x] = p_next_sib[p]] /\ UNCHANGED p_next_sib
      BY <1>7, <2>0, <2>1, <2>3 DEF outChild
    <3>2. x \in Used
      BY <1>0, <2>1, <2>3 DEF Apart, Childless
    <3> QED BY <1>5, <2>1, <2>2, <3>1, <3>2
  <2>4. CASE p_child[x] # p
    <3>1. p_next_sib' = Skipped(x, p) /\ UNCHANGED p_child
      BY <1>7, <2>0, <2>1, <2>4 DEF outChild
    <3>2. PICK s \in Pcb : p_next_sib' = [p_next_sib EXCEPT ![s] = p_next_sib[p]]
      BY <1>0, <2>1, <2>2, <2>4, <3>1, InnerOut
    <3>3. p_next_sib[p] # Zero
      BY <2>1 DEF NoZero
    <3>4. \A y \in Pcb : p_next_sib'[y] = p_next_sib[y] \/ p_next_sib'[y] = p_next_sib[p]
      BY <1>0, <3>2 DEF TypeOK
    <3>5. Used' = Used
      BY <2>2 DEF Used
    <3> QED BY <2>1, <2>2, <3>1, <3>3, <3>4, <3>5 DEF NoZero
  <2> QED BY <2>3, <2>4
<1>8. CASE UNCHANGED vars
  BY <1>8 DEF vars, treeVars, NoZero, Used
<1> QED BY <1>1, <1>2, <1>3, <1>4, <1>6, <1>7, <1>8 DEF Next

\* All pcbs are free at first.
LEMMA InitNoZero == Init => NoZero
<1> SUFFICES ASSUME Init PROVE NoZero
  OBVIOUS
<1>1. IsQueue(pcbFree, Pcb) /\ Len(pcbFree) = Cardinality(Pcb)
  <2>1. IsQueue(pcbFree, Pcb)
    BY InitType DEF TypeOK, IsQueue
  <2>2. DOMAIN pcbFree = 1 .. Cardinality(Pcb) /\ DOMAIN pcbFree = 1 .. Len(pcbFree)
    BY <2>1, LenProperties DEF Init, SetToSeqs, IsQueue
  <2>3. Cardinality(Pcb) \in Nat /\ Len(pcbFree) \in Nat
    BY <2>1, FS_CardinalityType, TreeAssumption, QueueLength
  <2> QED BY <2>1, <2>2, <2>3
<1>2. ToSet(pcbFree) = Pcb
  BY <1>1, QueueLength, FS_Subset, TreeAssumption
<1>3. Used = {}
  BY <1>2 DEF Used
<1> QED BY <1>3 DEF Init, NoZero

\* What the invariants say of the ends of lists.
LEMMA NoZeroEnds ==
    ASSUME IInv, NoZero
    PROVE  ListsEnd
<1>1. \A x \in Pcb : ToSet(Children(x)) \subseteq Used /\ ListOf(x, Children(x))
  BY DEF IInv, Apart, Chained
<1>2. ASSUME NEW x \in Pcb, Children(x) # <<>>
      PROVE  p_next_sib[Last(Children(x))] = NULL
  <2> DEFINE q == Children(x)
  <2>1. Chain(p_next_sib, p_child[x], Pcb, q) /\ IsQueue(q, Pcb)
    BY <1>1 DEF ListOf, Chain
  <2>2. /\ q \in Seq(Pcb) /\ Len(q) \in 1 .. Len(q) /\ q # <<>>
        /\ \A i \in 1 .. Len(q) : q[i] \in ToSet(q)
    BY <1>2, <2>1, QueueLength, Elements, EmptySeq DEF IsQueue
  <2>3. Last(q) = q[Len(q)] /\ Last(q) \in Used /\ p_next_sib[Last(q)] \notin Pcb
    BY <1>1, <2>1, <2>2 DEF Last, Chain
  <2>4. p_next_sib[Last(q)] # Zero /\ p_next_sib[Last(q)] \in Pointer
    BY <2>3 DEF NoZero, Used, IInv, TypeOK
  <2> QED BY <2>3, <2>4 DEF Pointer
<1> QED BY <1>1, <1>2 DEF ListsEnd, NoZero

\* If the last pcb is never allocated before it has been used, every list ends in NULL,
\* none has a free pcb in it, and 0 is not used as a pointer, although allocPcb does
\* not clear the links of the last free pcb.
THEOREM ListsEndInNull ==
    ASSUME ~Drained
    PROVE  Spec => []ListsEnd
<1>1. IInv /\ NoZero /\ [Next]_vars => NoZero'
  BY NextNoZero
<1>2. IInv /\ NoZero => ListsEnd
  BY NoZeroEnds
<1> QED BY <1>1, <1>2, InitNoZero, Invariance, PTL DEF Spec

=============================================================================
