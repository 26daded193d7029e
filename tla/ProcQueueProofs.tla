-------------------------- MODULE ProcQueueProofs --------------------------
(***************************************************************************)
(* For any number of pcbs and queues: the rings of src/phase2/pcb.c and    *)
(* src/phase1/pcb.c are first-in first-out queues.                         *)
(*                                                                         *)
(* The two files exchange p_next and p_prev, so everything is stated of    *)
(* the links that lead on from the tail to the head (Ahead) and of those   *)
(* that lead back (Behind).                                                *)
(***************************************************************************)
EXTENDS ProcQueues, QueueLemmas

Ahead == IF phase = 1 THEN p_next ELSE p_prev
Behind == IF phase = 1 THEN p_prev ELSE p_next

----------------------------------------------------------------------------
(* The library as ProcQueue1 and Fifo have it.                             *)

LEMMA SameWalk == \A link, p : Phase1!Phase2!Walk(link, p) = Walk(link, p)
<1>1. Phase1!Phase2!Cardinality(Pcb) = Cardinality(Pcb)
  BY DEF Cardinality, Phase1!Phase2!Cardinality
<1>2. \A S : Phase1!Phase2!Min(S) = Min(S)
  BY DEF Min, Phase1!Phase2!Min
<1> QED BY <1>1, <1>2 DEF Walk, Phase1!Phase2!Walk

LEMMA SameSets ==
    \A q : /\ Phase1!Phase2!ToSet(q) = ToSet(q) /\ Phase1!ToSet(q) = ToSet(q)
           /\ Abstract!ToSet(q) = ToSet(q)
BY DEF ToSet, Phase1!Phase2!ToSet, Phase1!ToSet, Abstract!ToSet

LEMMA SameReverse == \A q : Phase1!Phase2!Reverse(q) = Reverse(q)
BY DEF Reverse, Phase1!Phase2!Reverse

LEMMA SameRemoveFirst == \A q, p : Abstract!RemoveFirst(q, p) = RemoveFirst(q, p)
BY DEF RemoveFirst, Abstract!RemoveFirst, RemoveAt, Abstract!RemoveAt,
   SelectInSeq, Abstract!SelectInSeq, Min, Abstract!Min

----------------------------------------------------------------------------
(* What Walk finds.                                                        *)

\* Round a ring and back to its last element.
LEMMA WalkIs ==
    ASSUME NEW link, NEW q, Cycle(link, Pcb, q)
    PROVE  Walk(link, q[Len(q)]) = q
<1> DEFINE p == q[Len(q)]
           next == [t \in Pcb \cup {NULL} |-> IF t \in Pcb THEN link[t] ELSE NULL]
           at[n \in Nat] == IF n = 0 THEN p ELSE next[at[n - 1]]
           rounds == {n \in 1 .. Cardinality(Pcb) : at[n] = p}
<1>1. \A t \in Pcb : next[t] = link[t]
  OBVIOUS
<1> HIDE DEF next, p
<1>2. \E g : g = [n \in Nat |-> IF n = 0 THEN p ELSE next[g[n - 1]]]
  <2>1. PICK g : Recurs(next, p, g)
    BY Recursion
  <2> QED BY <2>1 DEF Recurs
<1>3. at = [n \in Nat |-> IF n = 0 THEN p ELSE next[at[n - 1]]]
  BY <1>2, Zenon
<1> HIDE DEF at
<1>4. Follows(at, next, p)
  <2>1. ASSUME NEW n \in Nat PROVE at[n + 1] = next[at[n]]
    <3>1. n + 1 \in Nat /\ n + 1 # 0 /\ (n + 1) - 1 = n
      OBVIOUS
    <3> QED BY <1>3, <3>1
  <2> QED BY <1>3, <2>1 DEF Follows
<1>5. Cycle(next, Pcb, q)
  <2>1. \A i \in 1 .. Len(q) : q[i] \in Pcb
    BY CycleIs
  <2>2. Len(q) \in 1 .. Len(q) /\ Len(q) \in Nat
    BY CycleIs
  <2>3. next[q[Len(q)]] = q[1]
    BY <1>1, <2>1, <2>2 DEF Cycle
  <2>4. \A i \in 1 .. Len(q) - 1 : next[q[i]] = q[i + 1]
    BY <1>1, <2>1, <2>2 DEF Cycle
  <2> QED BY <2>3, <2>4 DEF Cycle
<1>6. Circles(at, Pcb, q)
  BY <1>4, <1>5, CycleWalk, QueueAssumption DEF p
<1>7. rounds = Rounds(at, Pcb)
  BY <1>3 DEF Rounds
<1>8. Walk(link, p) = [i \in 1 .. IF rounds = {} THEN 0 ELSE Min(rounds) |-> at[i]]
  BY DEF Walk, at, next
<1> HIDE DEF rounds
<1>9. Walk(link, p) = [i \in 1 .. Len(q) |-> q[i]]
  BY <1>6, <1>7, <1>8 DEF Circles
<1>10. q = [i \in 1 .. Len(q) |-> q[i]]
  BY DEF Cycle, IsQueue
<1> QED BY <1>9, <1>10 DEF p

LEMMA QueueOfIs ==
    \A q \in Queue : QueueOf(q) = IF tp[q] = NULL THEN <<>> ELSE Walk(Ahead, tp[q])
BY SameWalk DEF QueueOf, Contents, Phase1!Contents, Phase1!Phase2!Contents, Ahead

\* The same after a step.
LEMMA QueueOfAfter ==
    \A q \in Queue : QueueOf(q)' = IF tp'[q] = NULL THEN <<>> ELSE Walk(Ahead', tp'[q])
BY SameWalk DEF QueueOf, Contents, Phase1!Contents, Phase1!Phase2!Contents, Ahead

----------------------------------------------------------------------------
(* The inductive invariant.                                                *)

Typed ==
    /\ p_next \in [Pcb -> Pcb \cup {NULL}] /\ p_prev \in [Pcb -> Pcb \cup {NULL}]
    /\ tp \in [Queue -> Pcb \cup {NULL}] /\ ret \in Pcb \cup {NULL}
    /\ phase \in {1, 2}

\* Every queue that is not empty is a ring.
Rings == \A q \in Queue : tp[q] # NULL => Ring(Ahead, Behind, Pcb, tp[q], QueueOf(q))

\* Nobody is in two queues.
Apart == \A q, r \in Queue : q # r => ToSet(QueueOf(q)) \cap ToSet(QueueOf(r)) = {}

IInv == Typed /\ Rings /\ Apart

\* A ring after a step is the contents of its queue.
LEMMA RingAfter ==
    ASSUME NEW q \in Queue, NEW s, tp'[q] \in Pcb, Ring(Ahead', Behind', Pcb, tp'[q], s)
    PROVE  QueueOf(q)' = s /\ Ring(Ahead, Behind, Pcb, tp[q], QueueOf(q))'
<1>1. tp'[q] # NULL
  BY QueueAssumption
<1>2. Walk(Ahead', tp'[q]) = s
  BY WalkIs DEF Ring
<1>3. QueueOf(q)' = s
  BY <1>1, <1>2, QueueOfAfter
<1> QED BY <1>3

LEMMA RingNow ==
    ASSUME IInv, NEW q \in Queue
    PROVE  /\ tp[q] \in Pcb \cup {NULL} /\ (tp[q] \in Pcb <=> tp[q] # NULL)
           /\ tp[q] = NULL => QueueOf(q) = <<>>
           /\ tp[q] # NULL => Ring(Ahead, Behind, Pcb, tp[q], QueueOf(q))
           /\ IsQueue(QueueOf(q), Pcb) /\ ToSet(QueueOf(q)) \subseteq Pcb
           /\ tp[q] = NULL <=> QueueOf(q) = <<>>
<1>1. tp[q] \in Pcb \cup {NULL} /\ (tp[q] \in Pcb <=> tp[q] # NULL)
  BY QueueAssumption DEF IInv, Typed
<1>2. tp[q] = NULL => QueueOf(q) = <<>>
  BY QueueOfIs
<1>3. tp[q] # NULL => Ring(Ahead, Behind, Pcb, tp[q], QueueOf(q))
  BY DEF IInv, Rings
<1>4. tp[q] # NULL => IsQueue(QueueOf(q), Pcb) /\ QueueOf(q) # <<>>
  BY <1>3, RingIs
<1>5. IsQueue(<<>>, Pcb)
  BY DEF IsQueue, IsInjective
<1>6. IsQueue(QueueOf(q), Pcb)
  BY <1>2, <1>4, <1>5
<1>7. ToSet(QueueOf(q)) \subseteq Pcb
  BY <1>6, QueueLength
<1> QED BY <1>1, <1>2, <1>3, <1>4, <1>6, <1>7

----------------------------------------------------------------------------
(* What steps do to the rings.                                             *)

\* The queue q becomes s and the others stay.
Becomes(q, s) == \A r \in Queue : QueueOf(r)' = IF r = q THEN s ELSE QueueOf(r)

\* p comes in at the end of q.
Inserts(q, p) ==
    /\ \A r \in Queue : p \notin ToSet(QueueOf(r))
    /\ IF tp[q] # NULL
       THEN Appends(Ahead, Behind, Ahead', Behind', tp[q], p, Pcb \ {p})
       ELSE /\ Ahead'[p] = p /\ Behind'[p] = p
            /\ Agree(Ahead, Ahead', Pcb \ {p}) /\ Agree(Behind, Behind', Pcb \ {p})
    /\ tp' = [tp EXCEPT ![q] = p]

\* p goes out of q.
Takes(q, p) ==
    /\ p \in ToSet(QueueOf(q))
    /\ Drops(Ahead, Behind, Ahead', Behind', p, Pcb)
    /\ tp' = [tp EXCEPT ![q] = IF p # tp[q] THEN tp[q]
                               ELSE IF Behind[p] = p THEN NULL ELSE Behind[p]]

\* A queue none of whose links change stays.
LEMMA Untouched ==
    ASSUME IInv, NEW r \in Queue, tp'[r] = tp[r],
           Agree(Ahead, Ahead', ToSet(QueueOf(r))), Agree(Behind, Behind', ToSet(QueueOf(r)))
    PROVE  /\ QueueOf(r)' = QueueOf(r)
           /\ tp'[r] # NULL => Ring(Ahead, Behind, Pcb, tp[r], QueueOf(r))'
<1>1. CASE tp[r] = NULL
  BY <1>1, QueueOfIs, QueueOfAfter
<1>2. CASE tp[r] # NULL
  <2>1. Ring(Ahead, Behind, Pcb, tp[r], QueueOf(r)) /\ tp'[r] \in Pcb
    BY <1>2, RingNow
  <2>2. Ring(Ahead', Behind', Pcb, tp[r], QueueOf(r))
    BY <2>1, RingFrame
  <2>3. Ring(Ahead', Behind', Pcb, tp'[r], QueueOf(r))
    BY <2>2
  <2> QED BY <2>1, <2>3, RingAfter
<1> QED BY <1>1, <1>2

\* It is enough to look at the queue that changes.
LEMMA RingsThen ==
    ASSUME IInv, Typed', NEW q \in Queue, NEW s, Becomes(q, s),
           \A r \in Queue : tp'[r] # NULL => Ring(Ahead, Behind, Pcb, tp[r], QueueOf(r))',
           \A r \in Queue : r # q => ToSet(s) \cap ToSet(QueueOf(r)) = {}
    PROVE  IInv'
<1>1. Apart'
  <2> SUFFICES ASSUME NEW r1 \in Queue, NEW r2 \in Queue, r1 # r2
               PROVE  ToSet(QueueOf(r1)') \cap ToSet(QueueOf(r2)') = {}
    BY DEF Apart
  <2>1. ToSet(QueueOf(r1)) \cap ToSet(QueueOf(r2)) = {}
    BY DEF IInv, Apart
  <2> QED BY <2>1 DEF Becomes
<1>2. Rings'
  BY DEF Rings
<1> QED BY <1>1, <1>2 DEF IInv

LEMMA InsertsDoes ==
    ASSUME IInv, Typed', NEW q \in Queue, NEW p \in Pcb, Inserts(q, p)
    PROVE  IInv' /\ Becomes(q, Append(QueueOf(q), p))
<1> DEFINE s == Append(QueueOf(q), p)
<1>1. /\ \A r \in Queue : p \notin ToSet(QueueOf(r))
      /\ tp'[q] = p /\ \A r \in Queue \ {q} : tp'[r] = tp[r]
      /\ p # NULL
  BY QueueAssumption DEF Inserts, IInv, Typed
<1>2. IsQueue(QueueOf(q), Pcb) /\ ToSet(s) = ToSet(QueueOf(q)) \cup {p}
  BY <1>1, RingNow, QueueAppend
<1>3. ASSUME NEW r \in Queue, r # q
      PROVE  ToSet(s) \cap ToSet(QueueOf(r)) = {}
  BY <1>1, <1>2, <1>3 DEF IInv, Apart
<1>4. /\ Ring(Ahead', Behind', Pcb, p, s)
      /\ \A r \in Queue \ {q} : /\ Agree(Ahead, Ahead', ToSet(QueueOf(r)))
                                /\ Agree(Behind, Behind', ToSet(QueueOf(r)))
  <2>1. CASE tp[q] # NULL
    <3>1. Ring(Ahead, Behind, Pcb, tp[q], QueueOf(q)) /\ tp[q] \in ToSet(QueueOf(q))
          /\ Ahead[tp[q]] \in ToSet(QueueOf(q)) /\ ToSet(QueueOf(q)) \subseteq Pcb
      BY <2>1, RingNow, RingIs
    <3>2. Appends(Ahead, Behind, Ahead', Behind', tp[q], p, Pcb \ {p})
      BY <2>1 DEF Inserts
    <3>3. Appends(Ahead, Behind, Ahead', Behind', tp[q], p, ToSet(QueueOf(q)))
      BY <1>1, <3>1, <3>2 DEF Appends
    <3>4. Ring(Ahead', Behind', Pcb, p, s)
      <4> HIDE DEF s
      <4>1. p \notin ToSet(QueueOf(q))
        BY <1>1
      <4> QED BY <3>1, <3>3, <4>1, RingAppend DEF s
    <3>5. ASSUME NEW r \in Queue \ {q}
          PROVE  /\ Agree(Ahead, Ahead', ToSet(QueueOf(r)))
                 /\ Agree(Behind, Behind', ToSet(QueueOf(r)))
      <4>1. /\ ToSet(QueueOf(r)) \cap ToSet(QueueOf(q)) = {} /\ p \notin ToSet(QueueOf(r))
            /\ ToSet(QueueOf(r)) \subseteq Pcb
        BY <1>1, RingNow DEF IInv, Apart
      <4> QED BY <3>1, <3>2, <4>1 DEF Appends, Agree
    <3> QED BY <3>4, <3>5
  <2>2. CASE tp[q] = NULL
    <3>1. s = <<p>>
      <4>1. QueueOf(q) = <<>>
        BY <2>2, RingNow
      <4>2. Append(<<>>, p) = <<p>>
        OBVIOUS
      <4> QED BY <4>1, <4>2
    <3>2. /\ Ahead'[p] = p /\ Behind'[p] = p
          /\ Agree(Ahead, Ahead', Pcb \ {p}) /\ Agree(Behind, Behind', Pcb \ {p})
      BY <2>2 DEF Inserts
    <3>3. Ring(Ahead', Behind', Pcb, p, <<p>>)
      BY <3>2, RingOne
    <3>4. ASSUME NEW r \in Queue \ {q}
          PROVE  /\ Agree(Ahead, Ahead', ToSet(QueueOf(r)))
                 /\ Agree(Behind, Behind', ToSet(QueueOf(r)))
      <4>1. ToSet(QueueOf(r)) \subseteq Pcb /\ p \notin ToSet(QueueOf(r))
        BY <1>1, RingNow
      <4> QED BY <3>2, <4>1 DEF Agree
    <3> QED BY <3>1, <3>3, <3>4
  <2> QED BY <2>1, <2>2
<1> HIDE DEF s
<1>5. QueueOf(q)' = s /\ Ring(Ahead, Behind, Pcb, tp[q], QueueOf(q))'
  BY <1>1, <1>4, RingAfter
<1>6. \A r \in Queue \ {q} :
         /\ QueueOf(r)' = QueueOf(r)
         /\ tp'[r] # NULL => Ring(Ahead, Behind, Pcb, tp[r], QueueOf(r))'
  BY <1>1, <1>4, Untouched
<1>7. Becomes(q, s)
  BY <1>5, <1>6 DEF Becomes
<1>8. \A r \in Queue : tp'[r] # NULL => Ring(Ahead, Behind, Pcb, tp[r], QueueOf(r))'
  <2> TAKE r \in Queue
  <2>1. CASE r = q
    BY <1>5, <2>1
  <2>2. CASE r # q
    BY <1>6, <2>2
  <2> QED BY <2>1, <2>2
<1>9. IInv'
  BY <1>3, <1>7, <1>8, RingsThen
<1> QED BY <1>7, <1>9 DEF s

LEMMA TakesDoes ==
    ASSUME IInv, Typed', NEW q \in Queue, NEW p \in Pcb, Takes(q, p)
    PROVE  IInv' /\ Becomes(q, RemoveFirst(QueueOf(q), p))
<1> DEFINE s == RemoveFirst(QueueOf(q), p)
           t == IF p = tp[q] THEN Behind[p] ELSE tp[q]
<1>1. /\ p \in ToSet(QueueOf(q)) /\ Drops(Ahead, Behind, Ahead', Behind', p, Pcb)
      /\ tp'[q] = IF p # tp[q] THEN tp[q] ELSE IF Behind[p] = p THEN NULL ELSE Behind[p]
      /\ \A r \in Queue \ {q} : tp'[r] = tp[r]
  BY DEF Takes, IInv, Typed
<1>2. /\ IsQueue(QueueOf(q), Pcb) /\ ToSet(s) = ToSet(QueueOf(q)) \ {p}
      /\ ToSet(QueueOf(q)) \subseteq Pcb
  BY RingNow, QueueRemove
<1>3. ASSUME NEW r \in Queue, r # q
      PROVE  ToSet(s) \cap ToSet(QueueOf(r)) = {}
  BY <1>2, <1>3 DEF IInv, Apart
<1>4. tp[q] # NULL /\ Ring(Ahead, Behind, Pcb, tp[q], QueueOf(q))
  <2>1. QueueOf(q) # <<>>
    BY <1>1 DEF ToSet
  <2> QED BY <2>1, RingNow
<1>5. Ahead[p] \in ToSet(QueueOf(q)) /\ Behind[p] \in ToSet(QueueOf(q))
      /\ (Len(QueueOf(q)) = 1 <=> Behind[tp[q]] = tp[q])
      /\ tp[q] \in ToSet(QueueOf(q))
  BY <1>1, <1>4, RingIs
<1>6. ASSUME NEW r \in Queue \ {q}
      PROVE  /\ QueueOf(r)' = QueueOf(r)
             /\ tp'[r] # NULL => Ring(Ahead, Behind, Pcb, tp[r], QueueOf(r))'
  <2>1. ToSet(QueueOf(r)) \cap ToSet(QueueOf(q)) = {} /\ ToSet(QueueOf(r)) \subseteq Pcb
    BY RingNow DEF IInv, Apart
  <2>2. /\ Agree(Ahead, Ahead', ToSet(QueueOf(r)))
        /\ Agree(Behind, Behind', ToSet(QueueOf(r)))
    BY <1>1, <1>5, <2>1 DEF Drops, Agree
  <2> QED BY <1>1, <2>2, Untouched
<1>7. QueueOf(q)' = s /\ (tp'[q] # NULL => Ring(Ahead, Behind, Pcb, tp[q], QueueOf(q))')
  <2>1. CASE Len(QueueOf(q)) = 1
    <3>1. p = tp[q]
      <4>1. Cardinality(ToSet(QueueOf(q))) = 1
        BY <1>2, <2>1, QueueLength
      <4>2. \E x : ToSet(QueueOf(q)) = {x}
        BY <1>2, <4>1, QueueLength, FS_Singleton
      <4> QED BY <1>1, <1>5, <4>2
    <3>2. tp'[q] = NULL
      BY <1>1, <1>5, <2>1, <3>1
    <3>3. ToSet(s) = {}
      <4>1. /\ IsQueue(s, Pcb) /\ Len(s) = 0
        BY <1>1, <1>2, <2>1, QueueRemove
      <4>2. s = <<>>
        BY <4>1, EmptySeq DEF IsQueue
      <4> QED BY <4>2 DEF ToSet
    <3>4. s = <<>>
      <4>1. IsQueue(s, Pcb)
        BY <1>2, QueueRemove
      <4> QED BY <3>3, <4>1, QueueLength
    <3> QED BY <3>2, <3>4, QueueOfAfter
  <2>2. CASE Len(QueueOf(q)) # 1
    <3>1. Drops(Ahead, Behind, Ahead', Behind', p, ToSet(QueueOf(q)))
      BY <1>1, <1>2 DEF Drops
    <3>2. Ring(Ahead', Behind', Pcb, t, s)
      <4> HIDE DEF s
      <4> QED BY <1>1, <1>4, <2>2, <3>1, RingDrop DEF s
    <3>3. tp'[q] = t
      BY <1>1, <1>5, <2>2
    <3>4. t \in Pcb
      BY <1>2, <1>5
    <3> QED BY <3>2, <3>3, <3>4, RingAfter
  <2> QED BY <2>1, <2>2
<1> HIDE DEF s, t
<1>8. Becomes(q, s)
  BY <1>6, <1>7 DEF Becomes
<1>9. \A r \in Queue : tp'[r] # NULL => Ring(Ahead, Behind, Pcb, tp[r], QueueOf(r))'
  <2> TAKE r \in Queue
  <2>1. CASE r = q
    BY <1>7, <2>1
  <2>2. CASE r # q
    BY <1>6, <2>2
  <2> QED BY <2>1, <2>2
<1>10. IInv'
  BY <1>3, <1>8, <1>9, RingsThen
<1> QED BY <1>8, <1>10 DEF s

----------------------------------------------------------------------------
(* Which steps the operations are.                                         *)

\* outProcQ finds what is in the queue.
LEMMA FoundIs ==
    ASSUME IInv, NEW q \in Queue, tp[q] # NULL
    PROVE  ToSet(Walk(Behind, tp[q])) = ToSet(QueueOf(q))
<1>1. Ring(Ahead, Behind, Pcb, tp[q], QueueOf(q))
  BY RingNow
<1>2. PICK r : Cycle(Behind, Pcb, r) /\ r[Len(r)] = tp[q] /\ ToSet(r) = ToSet(QueueOf(q))
  BY <1>1, RingBackTail
<1>3. Walk(Behind, tp[q]) = r
  BY <1>2, WalkIs
<1> QED BY <1>2, <1>3

\* Everybody who is queued, in the words of each file.
LEMMA QueuedIs ==
    ASSUME NEW p
    PROVE  /\ phase = 2 /\ p \notin Queued => \A r \in Queue : p \notin ToSet(QueueOf(r))
           /\ phase = 1 /\ p \notin Phase1!Phase2!Queued =>
                 \A r \in Queue : p \notin ToSet(QueueOf(r))
<1>1. ASSUME phase = 2, p \notin Queued PROVE \A r \in Queue : p \notin ToSet(QueueOf(r))
  BY <1>1 DEF Queued, QueueOf
<1>2. ASSUME phase = 1, p \notin Phase1!Phase2!Queued
      PROVE  \A r \in Queue : p \notin ToSet(QueueOf(r))
  BY <1>2, SameSets DEF Phase1!Phase2!Queued, QueueOf, Phase1!Contents
<1> QED BY <1>1, <1>2

\* The links after an insertion into a queue that is not empty.
LEMMA LinkedIs ==
    ASSUME IInv, NEW q \in Queue, tp[q] # NULL, NEW p \in Pcb,
           \A r \in Queue : p \notin ToSet(QueueOf(r)), UNCHANGED phase,
           Ahead' = [Ahead EXCEPT ![p] = Ahead[tp[q]], ![tp[q]] = p],
           Behind' = [Behind EXCEPT ![p] = tp[q], ![Ahead[tp[q]]] = p]
    PROVE  Appends(Ahead, Behind, Ahead', Behind', tp[q], p, Pcb \ {p})
<1>1. /\ Ahead \in [Pcb -> Pcb \cup {NULL}] /\ Behind \in [Pcb -> Pcb \cup {NULL}]
  BY DEF IInv, Typed, Ahead, Behind
<1>2. /\ tp[q] \in ToSet(QueueOf(q)) /\ Ahead[tp[q]] \in ToSet(QueueOf(q))
      /\ ToSet(QueueOf(q)) \subseteq Pcb
  BY RingNow, RingIs
<1>3. tp[q] \in Pcb /\ Ahead[tp[q]] \in Pcb /\ p # tp[q] /\ p # Ahead[tp[q]]
  BY <1>2
<1> HIDE DEF Ahead, Behind
<1> QED BY <1>1, <1>3 DEF Appends

\* The links after a removal.
LEMMA UnlinkedIs ==
    ASSUME IInv, NEW q \in Queue, NEW p \in ToSet(QueueOf(q)), UNCHANGED phase,
           Ahead' = [Ahead EXCEPT ![Behind[p]] = Ahead[p]],
           Behind' = [Behind EXCEPT ![Ahead[p]] = Behind[p]]
    PROVE  Drops(Ahead, Behind, Ahead', Behind', p, Pcb)
<1>1. /\ Ahead \in [Pcb -> Pcb \cup {NULL}] /\ Behind \in [Pcb -> Pcb \cup {NULL}]
  BY DEF IInv, Typed, Ahead, Behind
<1> HIDE DEF Ahead, Behind
<1> QED BY <1>1 DEF Drops

\* The same when the links of p are cleared.
LEMMA ClearedIs ==
    ASSUME IInv, NEW q \in Queue, NEW p \in ToSet(QueueOf(q)), UNCHANGED phase,
           Ahead' = [Ahead EXCEPT ![Behind[p]] = Ahead[p], ![p] = NULL],
           Behind' = [Behind EXCEPT ![Ahead[p]] = Behind[p], ![p] = NULL]
    PROVE  Drops(Ahead, Behind, Ahead', Behind', p, Pcb)
<1>1. /\ Ahead \in [Pcb -> Pcb \cup {NULL}] /\ Behind \in [Pcb -> Pcb \cup {NULL}]
  BY DEF IInv, Typed, Ahead, Behind
<1> HIDE DEF Ahead, Behind
<1> QED BY <1>1 DEF Drops

----------------------------------------------------------------------------
(* The operations of both files, in the same words.                        *)

Unlinks(p) ==
    /\ Ahead' = [Ahead EXCEPT ![Behind[p]] = Ahead[p]]
    /\ Behind' = [Behind EXCEPT ![Ahead[p]] = Behind[p]]

Stays == Ahead' = Ahead /\ Behind' = Behind /\ tp' = tp

AnInsert(q, p) ==
    /\ \A r \in Queue : p \notin ToSet(QueueOf(r))
    /\ IF tp[q] # NULL
       THEN /\ Ahead' = [Ahead EXCEPT ![p] = Ahead[tp[q]], ![tp[q]] = p]
            /\ Behind' = [Behind EXCEPT ![p] = tp[q], ![Ahead[tp[q]]] = p]
       ELSE Ahead' = [Ahead EXCEPT ![p] = p] /\ Behind' = [Behind EXCEPT ![p] = p]
    /\ tp' = [tp EXCEPT ![q] = p] /\ ret' = ret

AHead(q) == Stays /\ ret' = IF tp[q] = NULL THEN NULL ELSE Ahead[tp[q]]

ARemove(q) ==
    IF tp[q] = NULL THEN ret' = NULL /\ Stays
    ELSE /\ ret' = Ahead[tp[q]]
         /\ IF Ahead[tp[q]] = tp[q]
            THEN tp' = [tp EXCEPT ![q] = NULL] /\ Ahead' = Ahead /\ Behind' = Behind
            ELSE Unlinks(Ahead[tp[q]]) /\ tp' = tp

\* What allocPcb does to a free list of two or more.
AnAlloc(q) ==
    /\ tp[q] # NULL /\ Ahead[tp[q]] # tp[q] /\ ret' = Ahead[tp[q]] /\ tp' = tp
    /\ Ahead' = [Ahead EXCEPT ![Behind[Ahead[tp[q]]]] = Ahead[Ahead[tp[q]]],
                              ![Ahead[tp[q]]] = NULL]
    /\ Behind' = [Behind EXCEPT ![Ahead[Ahead[tp[q]]]] = Behind[Ahead[tp[q]]],
                                ![Ahead[tp[q]]] = NULL]

AnOut(q, p) ==
    IF tp[q] # NULL /\ p \in ToSet(QueueOf(q))
    THEN /\ Unlinks(p) \/ (Ahead' = Ahead /\ Behind' = Behind /\ Ahead[p] = p)
         /\ tp' = [tp EXCEPT ![q] = IF p # tp[q] THEN tp[q]
                                    ELSE IF Behind[p] = p THEN NULL ELSE Behind[p]]
         /\ ret' = IF phase = 1 /\ p = tp[q] /\ Ahead[p] # p THEN NULL ELSE p
    ELSE ret' = NULL /\ Stays

\* src/phase2/pcb.c.
LEMMA WordsOfTwo ==
    ASSUME IInv, phase = 2, UNCHANGED phase, NEW q \in Queue
    PROVE  /\ \A p \in Pcb : insertProcQ(q, p) => AnInsert(q, p)
           /\ headProcQ(q) => AHead(q)
           /\ removeProcQ(q) => ARemove(q)
           /\ \A p \in Pcb : outProcQ(q, p) => AnOut(q, p)
           /\ allocPcb => ARemove(pcbList_h) \/ AnAlloc(pcbList_h)
<1>1. /\ Ahead = p_prev /\ Behind = p_next /\ Ahead' = p_prev' /\ Behind' = p_next'
      /\ tp \in [Queue -> Pcb \cup {NULL}] /\ pcbList_h \in Queue /\ phase # 1
  BY QueueAssumption DEF Ahead, Behind, IInv, Typed
<1>2. ASSUME NEW p \in Pcb, insertProcQ(q, p) PROVE AnInsert(q, p)
  <2>1. \A r \in Queue : p \notin ToSet(QueueOf(r))
    BY <1>2, QueuedIs DEF insertProcQ
  <2> QED BY <1>1, <1>2, <2>1 DEF insertProcQ, Linked, AnInsert
<1>3. ASSUME headProcQ(q) PROVE AHead(q)
  BY <1>1, <1>3 DEF headProcQ, links, AHead, Stays
<1>4. ASSUME NEW r \in Queue, removeProcQ(r) PROVE ARemove(r)
  BY <1>1, <1>4 DEF removeProcQ, links, Unlinked, ARemove, Stays, Unlinks
<1>5. ASSUME NEW p \in Pcb, outProcQ(q, p) PROVE AnOut(q, p)
  <2>1. Finds(q, p) <=> tp[q] # NULL /\ p \in ToSet(QueueOf(q))
    BY <1>1, FoundIs DEF Finds
  <2>2. CASE Finds(q, p)
    <3>1. Unlinked(p) /\ tp' = [tp EXCEPT ![q] = TailWithout(tp[q], p)] /\ ret' = p
      BY <1>1, <1>5, <2>2 DEF outProcQ
    <3> QED BY <1>1, <2>1, <2>2, <3>1 DEF AnOut, TailWithout, Unlinked, Unlinks
  <2>3. CASE ~Finds(q, p)
    BY <1>1, <1>5, <2>1, <2>3 DEF outProcQ, links, AnOut, Stays
  <2> QED BY <2>2, <2>3
<1>6. ASSUME allocPcb PROVE ARemove(pcbList_h) \/ AnAlloc(pcbList_h)
  <2>1. CASE tp[pcbList_h] = NULL \/ p_prev[tp[pcbList_h]] = tp[pcbList_h]
    <3>1. removeProcQ(pcbList_h)
      BY <1>6, <2>1 DEF allocPcb
    <3> QED BY <1>1, <1>4, <3>1
  <2>2. CASE ~(tp[pcbList_h] = NULL \/ p_prev[tp[pcbList_h]] = tp[pcbList_h])
    BY <1>1, <1>6, <2>2 DEF allocPcb, AnAlloc
  <2> QED BY <2>1, <2>2
<1> QED BY <1>2, <1>3, <1>4, <1>5, <1>6

\* src/phase1/pcb.c.
LEMMA WordsOfOne ==
    ASSUME IInv, phase = 1, UNCHANGED phase, NEW q \in Queue
    PROVE  /\ \A p \in Pcb : Phase1!insertProcQ(q, p) => AnInsert(q, p)
           /\ Phase1!headProcQ(q) => AHead(q)
           /\ Phase1!removeProcQ(q) => ARemove(q)
           /\ \A p \in Pcb : Phase1!outProcQ(q, p) => AnOut(q, p)
           /\ Phase1!allocPcb => ARemove(pcbList_h) \/ AnAlloc(pcbList_h)
<1>1. /\ Ahead = p_next /\ Behind = p_prev /\ Ahead' = p_next' /\ Behind' = p_prev'
      /\ tp \in [Queue -> Pcb \cup {NULL}] /\ pcbList_h \in Queue
  BY QueueAssumption DEF Ahead, Behind, IInv, Typed
<1>2. ASSUME NEW p \in Pcb, Phase1!insertProcQ(q, p) PROVE AnInsert(q, p)
  <2>1. \A r \in Queue : p \notin ToSet(QueueOf(r))
    BY <1>2, QueuedIs DEF Phase1!insertProcQ, Phase1!Phase2!insertProcQ
  <2> QED BY <1>1, <1>2, <2>1 DEF Phase1!insertProcQ, Phase1!Phase2!insertProcQ,
      Phase1!Phase2!Linked, AnInsert
<1>3. ASSUME Phase1!headProcQ(q) PROVE AHead(q)
  BY <1>1, <1>3 DEF Phase1!headProcQ, Phase1!Phase2!headProcQ, Phase1!Phase2!links,
     AHead, Stays
<1>4. ASSUME NEW r \in Queue, Phase1!Phase2!removeProcQ(r) PROVE ARemove(r)
  BY <1>1, <1>4 DEF Phase1!Phase2!removeProcQ, Phase1!Phase2!links,
     Phase1!Phase2!Unlinked, ARemove, Stays, Unlinks
<1>5. ASSUME NEW p \in Pcb, Phase1!outProcQ(q, p) PROVE AnOut(q, p)
  <2>1. ASSUME tp[q] # NULL
        PROVE  /\ tp[q] \in ToSet(QueueOf(q)) /\ (Ahead[tp[q]] = tp[q] <=> Behind[tp[q]] = tp[q])
               /\ ToSet(Phase1!Contents(tp[q])) = ToSet(QueueOf(q))
    BY <2>1, RingNow, RingIs DEF QueueOf
  <2>2. CASE tp[q] = NULL /\ ret' = NULL /\ UNCHANGED <<p_next, p_prev, tp>>
    BY <1>1, <2>2 DEF AnOut, Stays
  <2>3. CASE /\ tp[q] = p /\ p_next[p] = p
             /\ tp' = [tp EXCEPT ![q] = NULL] /\ ret' = p /\ UNCHANGED <<p_next, p_prev>>
    BY <1>1, <2>1, <2>3, QueueAssumption DEF AnOut
  <2>4. CASE tp[q] = p /\ p_next[p] # p /\ Phase1!OutTail(q)
    <3>1. tp[q] # NULL
      BY <2>4, QueueAssumption
    <3>2. /\ Phase1!Phase2!Unlinked(p) /\ tp' = [tp EXCEPT ![q] = p_prev[p]]
          /\ ret' = NULL
      BY <1>1, <2>4 DEF Phase1!OutTail
    <3> QED BY <1>1, <2>1, <2>4, <3>1, <3>2 DEF Phase1!Phase2!Unlinked, AnOut, Unlinks
  <2>5. CASE tp[q] # NULL /\ tp[q] # p /\ Phase1!OutInner(q, p)
    <3>1. CASE p \in ToSet(QueueOf(q))
      <4>1. Phase1!Phase2!Unlinked(p) /\ ret' = p /\ tp' = tp
        BY <2>1, <2>5, <3>1, SameSets DEF Phase1!OutInner
      <4>2. tp' = [tp EXCEPT ![q] = tp[q]]
        BY <1>1, <4>1
      <4> QED BY <1>1, <2>5, <3>1, <4>1, <4>2 DEF Phase1!Phase2!Unlinked, AnOut, Unlinks
    <3>2. CASE p \notin ToSet(QueueOf(q))
      <4>1. ret' = NULL /\ UNCHANGED <<p_next, p_prev, tp>>
        BY <2>1, <2>5, <3>2, SameSets DEF Phase1!OutInner
      <4> QED BY <1>1, <3>2, <4>1 DEF AnOut, Stays
    <3> QED BY <3>1, <3>2
  <2> QED BY <1>5, <2>2, <2>3, <2>4, <2>5 DEF Phase1!outProcQ
<1>6. ASSUME Phase1!allocPcb PROVE ARemove(pcbList_h) \/ AnAlloc(pcbList_h)
  <2>1. CASE tp[pcbList_h] = NULL \/ p_next[tp[pcbList_h]] = tp[pcbList_h]
    <3>1. Phase1!Phase2!removeProcQ(pcbList_h)
      BY <1>6, <2>1 DEF Phase1!allocPcb, Phase1!Phase2!allocPcb
    <3> QED BY <1>1, <1>4, <3>1
  <2>2. CASE ~(tp[pcbList_h] = NULL \/ p_next[tp[pcbList_h]] = tp[pcbList_h])
    BY <1>1, <1>6, <2>2 DEF Phase1!allocPcb, Phase1!Phase2!allocPcb, AnAlloc
  <2> QED BY <2>1, <2>2
<1>7. Phase1!removeProcQ(q) => ARemove(q)
  BY <1>4 DEF Phase1!removeProcQ
<1> QED BY <1>2, <1>3, <1>5, <1>6, <1>7

----------------------------------------------------------------------------
(* What the operations do to the queues.                                   *)

LEMMA LinksTyped ==
    ASSUME IInv
    PROVE  /\ Ahead \in [Pcb -> Pcb \cup {NULL}] /\ Behind \in [Pcb -> Pcb \cup {NULL}]
           /\ tp \in [Queue -> Pcb \cup {NULL}] /\ ret \in Pcb \cup {NULL}
BY DEF IInv, Typed, Ahead, Behind

LEMMA TypedAfter ==
    ASSUME IInv, UNCHANGED phase,
           Ahead' \in [Pcb -> Pcb \cup {NULL}], Behind' \in [Pcb -> Pcb \cup {NULL}],
           tp' \in [Queue -> Pcb \cup {NULL}], ret' \in Pcb \cup {NULL}
    PROVE  Typed'
BY DEF IInv, Typed, Ahead, Behind

LEMMA InsertIs ==
    ASSUME IInv, UNCHANGED phase, NEW q \in Queue, NEW p \in Pcb, AnInsert(q, p)
    PROVE  /\ IInv' /\ Becomes(q, Append(QueueOf(q), p))
           /\ \A r \in Queue : p \notin ToSet(QueueOf(r))
<1>0. tp[q] \in Pcb \cup {NULL} /\ \A r \in Queue : p \notin ToSet(QueueOf(r))
  BY LinksTyped DEF AnInsert
<1>1. Inserts(q, p) /\ Ahead' \in [Pcb -> Pcb \cup {NULL}] /\ Behind' \in [Pcb -> Pcb \cup {NULL}]
  <2>1. CASE tp[q] # NULL
    <3>1. /\ Ahead' = [Ahead EXCEPT ![p] = Ahead[tp[q]], ![tp[q]] = p]
          /\ Behind' = [Behind EXCEPT ![p] = tp[q], ![Ahead[tp[q]]] = p]
      BY <2>1 DEF AnInsert
    <3>2. Appends(Ahead, Behind, Ahead', Behind', tp[q], p, Pcb \ {p})
      BY <1>0, <2>1, <3>1, LinkedIs
    <3>3. Ahead' \in [Pcb -> Pcb \cup {NULL}] /\ Behind' \in [Pcb -> Pcb \cup {NULL}]
      BY <1>0, <2>1, <3>1, LinksTyped
    <3> QED BY <1>0, <2>1, <3>2, <3>3 DEF Inserts, AnInsert
  <2>2. CASE tp[q] = NULL
    <3>1. Ahead' = [Ahead EXCEPT ![p] = p] /\ Behind' = [Behind EXCEPT ![p] = p]
      BY <2>2 DEF AnInsert
    <3>2. /\ Ahead'[p] = p /\ Behind'[p] = p
          /\ Agree(Ahead, Ahead', Pcb \ {p}) /\ Agree(Behind, Behind', Pcb \ {p})
          /\ Ahead' \in [Pcb -> Pcb \cup {NULL}] /\ Behind' \in [Pcb -> Pcb \cup {NULL}]
      BY <3>1, LinksTyped DEF Agree
    <3> QED BY <1>0, <2>2, <3>2 DEF Inserts, AnInsert
  <2> QED BY <2>1, <2>2
<1>2. tp' \in [Queue -> Pcb \cup {NULL}] /\ ret' \in Pcb \cup {NULL}
  BY LinksTyped DEF AnInsert
<1>3. Typed'
  BY <1>1, <1>2, TypedAfter
<1> QED BY <1>0, <1>1, <1>3, InsertsDoes

LEMMA StaysIs ==
    ASSUME IInv, UNCHANGED phase, Stays, ret' \in Pcb \cup {NULL}
    PROVE  IInv' /\ \A q \in Queue : QueueOf(q)' = QueueOf(q)
<1>1. Typed'
  BY LinksTyped, TypedAfter DEF Stays
<1>2. ASSUME NEW q \in Queue
      PROVE  /\ QueueOf(q)' = QueueOf(q)
             /\ tp'[q] # NULL => Ring(Ahead, Behind, Pcb, tp[q], QueueOf(q))'
  <2>1. Agree(Ahead, Ahead', ToSet(QueueOf(q))) /\ Agree(Behind, Behind', ToSet(QueueOf(q)))
        /\ tp'[q] = tp[q]
    BY DEF Stays, Agree
  <2> QED BY <2>1, Untouched
<1>3. Rings' /\ Apart'
  BY <1>2 DEF IInv, Rings, Apart
<1> QED BY <1>1, <1>2, <1>3 DEF IInv

\* One element goes, or nothing changes.
LosesOne(q) ==
    \/ \E p \in Pcb : p \in ToSet(QueueOf(q)) /\ Becomes(q, RemoveFirst(QueueOf(q), p))
    \/ \A r \in Queue : QueueOf(r)' = QueueOf(r)

LEMMA TakeIs ==
    ASSUME IInv, UNCHANGED phase, NEW q \in Queue, NEW p \in ToSet(QueueOf(q)),
           Drops(Ahead, Behind, Ahead', Behind', p, Pcb),
           Ahead' \in [Pcb -> Pcb \cup {NULL}], Behind' \in [Pcb -> Pcb \cup {NULL}],
           tp' = [tp EXCEPT ![q] = IF p # tp[q] THEN tp[q]
                                   ELSE IF Behind[p] = p THEN NULL ELSE Behind[p]],
           ret' \in Pcb \cup {NULL}
    PROVE  IInv' /\ LosesOne(q)
<1>1. p \in Pcb
  BY RingNow
<1>2. Takes(q, p)
  BY DEF Takes
<1>3. Typed'
  <2>1. tp' \in [Queue -> Pcb \cup {NULL}]
    BY <1>1, LinksTyped
  <2> QED BY <2>1, TypedAfter
<1> QED BY <1>1, <1>2, <1>3, TakesDoes DEF LosesOne

\* Nothing has to be done to the links of a ring of one.
LEMMA DropsOne ==
    ASSUME IInv, NEW p \in Pcb, Ahead[p] = p, Behind[p] = p, Ahead' = Ahead, Behind' = Behind
    PROVE  Drops(Ahead, Behind, Ahead', Behind', p, Pcb)
BY DEF Drops

LEMMA HeadIs ==
    ASSUME IInv, NEW q \in Queue, tp[q] # NULL
    PROVE  /\ Ahead[tp[q]] \in ToSet(QueueOf(q)) /\ Ahead[tp[q]] \in Pcb
           /\ tp[q] \in ToSet(QueueOf(q)) /\ Ahead[tp[q]] = Head(QueueOf(q))
           /\ Ahead[tp[q]] = tp[q] <=> Behind[tp[q]] = tp[q]
           /\ Ahead[tp[q]] = tp[q] <=> Len(QueueOf(q)) = 1
           /\ \A p \in ToSet(QueueOf(q)) : p \in Pcb /\ (Ahead[p] = p <=> Behind[p] = p)
<1>1. Ring(Ahead, Behind, Pcb, tp[q], QueueOf(q))
  BY RingNow
<1>2. /\ tp[q] \in ToSet(QueueOf(q)) /\ Ahead[tp[q]] = Head(QueueOf(q))
      /\ Len(QueueOf(q)) = 1 <=> Ahead[tp[q]] = tp[q]
      /\ Len(QueueOf(q)) = 1 <=> Behind[tp[q]] = tp[q]
  BY <1>1, RingIs
<1>3. \A p \in ToSet(QueueOf(q)) : /\ p \in Pcb /\ Ahead[p] \in ToSet(QueueOf(q))
                                   /\ Behind[Ahead[p]] = p /\ Ahead[Behind[p]] = p
  BY <1>1, RingIs
<1> QED BY <1>2, <1>3

LEMMA RemoveIs ==
    ASSUME IInv, UNCHANGED phase, NEW q \in Queue, ARemove(q)
    PROVE  IInv' /\ LosesOne(q)
<1>1. CASE tp[q] = NULL
  <2>1. Stays /\ ret' \in Pcb \cup {NULL}
    BY <1>1 DEF ARemove
  <2> QED BY <2>1, StaysIs DEF LosesOne
<1>2. CASE tp[q] # NULL
  <2>1. PICK p \in ToSet(QueueOf(q)) : p = Ahead[tp[q]]
    BY <1>2, HeadIs
  <2>2. p \in Pcb /\ ret' = p
    BY <1>2, <2>1, HeadIs DEF ARemove
  <2>3. CASE p = tp[q]
    <3>1. tp' = [tp EXCEPT ![q] = NULL] /\ Ahead' = Ahead /\ Behind' = Behind
      BY <1>2, <2>1, <2>3 DEF ARemove
    <3>2. Ahead[p] = p /\ Behind[p] = p
      BY <1>2, <2>1, <2>3, HeadIs
    <3>3. Drops(Ahead, Behind, Ahead', Behind', p, Pcb)
      BY <2>2, <3>1, <3>2, DropsOne
    <3> QED BY <2>2, <2>3, <3>1, <3>2, <3>3, LinksTyped, TakeIs
  <2>4. CASE p # tp[q]
    <3>1. Unlinks(p) /\ tp' = tp
      BY <1>2, <2>1, <2>4 DEF ARemove
    <3>2. Drops(Ahead, Behind, Ahead', Behind', p, Pcb)
      BY <3>1, UnlinkedIs DEF Unlinks
    <3>3. tp' = [tp EXCEPT ![q] = tp[q]]
      BY <3>1, LinksTyped
    <3>4. Ahead' \in [Pcb -> Pcb \cup {NULL}] /\ Behind' \in [Pcb -> Pcb \cup {NULL}]
      BY <2>2, <3>1, LinksTyped DEF Unlinks
    <3> QED BY <2>2, <2>4, <3>2, <3>3, <3>4, TakeIs
  <2> QED BY <2>3, <2>4
<1> QED BY <1>1, <1>2

LEMMA AllocIs ==
    ASSUME IInv, UNCHANGED phase, NEW q \in Queue, AnAlloc(q)
    PROVE  IInv' /\ LosesOne(q)
<1>1. PICK p \in ToSet(QueueOf(q)) : p = Ahead[tp[q]]
  BY HeadIs DEF AnAlloc
<1>2. /\ p # tp[q] /\ ret' = p /\ tp' = tp /\ p \in Pcb
      /\ Ahead' = [Ahead EXCEPT ![Behind[p]] = Ahead[p], ![p] = NULL]
      /\ Behind' = [Behind EXCEPT ![Ahead[p]] = Behind[p], ![p] = NULL]
  BY <1>1, HeadIs DEF AnAlloc
<1>3. Drops(Ahead, Behind, Ahead', Behind', p, Pcb)
  BY <1>2, ClearedIs
<1>4. tp' = [tp EXCEPT ![q] = tp[q]]
  BY <1>2, LinksTyped
<1>5. Ahead' \in [Pcb -> Pcb \cup {NULL}] /\ Behind' \in [Pcb -> Pcb \cup {NULL}]
  BY <1>2, LinksTyped
<1> QED BY <1>2, <1>3, <1>4, <1>5, TakeIs

LEMMA OutIs ==
    ASSUME IInv, UNCHANGED phase, NEW q \in Queue, NEW p \in Pcb, AnOut(q, p)
    PROVE  IInv' /\ LosesOne(q)
<1>1. CASE tp[q] # NULL /\ p \in ToSet(QueueOf(q))
  <2>1. /\ Unlinks(p) \/ (Ahead' = Ahead /\ Behind' = Behind /\ Ahead[p] = p)
        /\ tp' = [tp EXCEPT ![q] = IF p # tp[q] THEN tp[q]
                                   ELSE IF Behind[p] = p THEN NULL ELSE Behind[p]]
        /\ ret' \in Pcb \cup {NULL}
    BY <1>1 DEF AnOut
  <2>2. CASE Unlinks(p)
    <3>1. Drops(Ahead, Behind, Ahead', Behind', p, Pcb)
      BY <1>1, <2>2, UnlinkedIs DEF Unlinks
    <3>2. Ahead' \in [Pcb -> Pcb \cup {NULL}] /\ Behind' \in [Pcb -> Pcb \cup {NULL}]
      BY <2>2, LinksTyped DEF Unlinks
    <3> QED BY <1>1, <2>1, <3>1, <3>2, TakeIs
  <2>3. CASE Ahead' = Ahead /\ Behind' = Behind /\ Ahead[p] = p
    <3>1. Drops(Ahead, Behind, Ahead', Behind', p, Pcb)
      BY <1>1, <2>3, DropsOne, HeadIs
    <3> QED BY <1>1, <2>1, <2>3, <3>1, LinksTyped, TakeIs
  <2> QED BY <2>1, <2>2, <2>3
<1>2. CASE ~(tp[q] # NULL /\ p \in ToSet(QueueOf(q)))
  <2>1. Stays /\ ret' \in Pcb \cup {NULL}
    BY <1>2 DEF AnOut
  <2> QED BY <2>1, StaysIs DEF LosesOne
<1> QED BY <1>1, <1>2

\* Whichever file it is of, a step is one of these.
AnOperation(q) ==
    \/ AHead(q) \/ ARemove(q) \/ AnAlloc(q)
    \/ \E p \in Pcb : AnInsert(q, p) \/ AnOut(q, p)

LEMMA NextIs ==
    ASSUME IInv, QueuesNext
    PROVE  UNCHANGED phase /\ \E q \in Queue : AnOperation(q)
<1>1. UNCHANGED phase /\ phase \in {1, 2} /\ pcbList_h \in Queue
  BY QueueAssumption DEF QueuesNext, IInv, Typed
<1>2. CASE phase = 2
  <2>0. Next
    BY <1>2 DEF QueuesNext
  <2>1. CASE allocPcb
    BY <1>1, <1>2, <2>1, WordsOfTwo DEF AnOperation
  <2>2. CASE \E p \in Pcb : freePcb(p)
    BY <1>1, <1>2, <2>2, WordsOfTwo DEF AnOperation, freePcb
  <2>3. CASE \E q \in Queue \ {pcbList_h} : removeProcQ(q) \/ headProcQ(q)
    BY <1>1, <1>2, <2>3, WordsOfTwo DEF AnOperation
  <2>4. CASE \E q \in Queue \ {pcbList_h}, p \in Pcb : insertProcQ(q, p) \/ outProcQ(q, p)
    BY <1>1, <1>2, <2>4, WordsOfTwo DEF AnOperation
  <2> QED BY <1>1, <2>0, <2>1, <2>2, <2>3, <2>4 DEF Next
<1>3. CASE phase = 1
  <2>0. Phase1!Next
    BY <1>3 DEF QueuesNext
  <2>1. CASE Phase1!allocPcb
    BY <1>1, <1>3, <2>1, WordsOfOne DEF AnOperation
  <2>2. CASE \E p \in Pcb : Phase1!freePcb(p)
    BY <1>1, <1>3, <2>2, WordsOfOne DEF AnOperation, Phase1!freePcb
  <2>3. CASE \E q \in Queue \ {pcbList_h} : Phase1!removeProcQ(q) \/ Phase1!headProcQ(q)
    BY <1>1, <1>3, <2>3, WordsOfOne DEF AnOperation
  <2>4. CASE \E q \in Queue \ {pcbList_h}, p \in Pcb :
                Phase1!insertProcQ(q, p) \/ Phase1!outProcQ(q, p)
    BY <1>1, <1>3, <2>4, WordsOfOne DEF AnOperation
  <2> QED BY <1>1, <2>0, <2>1, <2>2, <2>3, <2>4 DEF Phase1!Next
<1> QED BY <1>1, <1>2, <1>3

\* An element that is in no queue comes in at the end of one, or one loses an element.
LEMMA EachStep ==
    ASSUME IInv, [QueuesNext]_<<vars, phase>>
    PROVE  /\ IInv' /\ UNCHANGED phase
           /\ \/ \E q \in Queue, p \in Pcb : /\ \A r \in Queue : p \notin ToSet(QueueOf(r))
                                             /\ Becomes(q, Append(QueueOf(q), p))
              \/ \E q \in Queue : LosesOne(q)
<1>1. CASE QueuesNext
  <2>1. UNCHANGED phase
    BY <1>1, NextIs
  <2>2. PICK q \in Queue : AnOperation(q)
    BY <1>1, NextIs
  <2>3. CASE AHead(q)
    <3>1. Stays /\ ret' \in Pcb \cup {NULL}
      BY <2>3, HeadIs DEF AHead
    <3> QED BY <2>1, <3>1, StaysIs DEF LosesOne
  <2>4. CASE ARemove(q)
    BY <2>1, <2>4, RemoveIs
  <2>5. CASE AnAlloc(q)
    BY <2>1, <2>5, AllocIs
  <2>6. CASE \E p \in Pcb : AnInsert(q, p)
    BY <2>1, <2>6, InsertIs
  <2>7. CASE \E p \in Pcb : AnOut(q, p)
    BY <2>1, <2>7, OutIs
  <2> QED BY <2>2, <2>3, <2>4, <2>5, <2>6, <2>7 DEF AnOperation
<1>2. CASE UNCHANGED <<vars, phase>>
  <2>1. Stays /\ ret' \in Pcb \cup {NULL} /\ UNCHANGED phase
    BY <1>2 DEF vars, Stays, Ahead, Behind, IInv, Typed
  <2>2. PICK q \in Queue : TRUE
    BY QueueAssumption
  <2> QED BY <2>1, <2>2, StaysIs DEF LosesOne
<1> QED BY <1>1, <1>2

----------------------------------------------------------------------------
(* The first state.                                                        *)

\* The place of the element after the one at i, and of the one before it.
LEMMA Wrap ==
    ASSUME NEW n \in Nat, n >= 1, NEW i \in 1 .. n
    PROVE  /\ (i % n) + 1 = IF i = n THEN 1 ELSE i + 1
           /\ ((i + n - 2) % n) + 1 = IF i = 1 THEN n ELSE i - 1
<1>1. ASSUME NEW a \in 0 .. n - 1 PROVE a % n = a /\ (a + n) % n = a
  OBVIOUS
<1>2. CASE i = n
  <2>1. 0 \in 0 .. n - 1 /\ 0 + n = i
    BY <1>2
  <2>2. i % n = 0
    BY <1>1, <2>1
  <2> QED BY <1>1, <1>2, <2>2
<1>3. CASE i # n
  BY <1>1, <1>3
<1> QED BY <1>2, <1>3

\* Where p is in order.
Position(order, p) == CHOOSE i \in 1 .. Len(order) : order[i] = p

\* The links once the pcbs have been inserted in this order.
FirstLinks(order, ahead, behind) ==
    /\ ahead = [p \in Pcb |-> order[(Position(order, p) % Len(order)) + 1]]
    /\ behind = [p \in Pcb |-> order[((Position(order, p) + Len(order) - 2) % Len(order)) + 1]]

LEMMA OrderIs ==
    ASSUME NEW order \in SetToSeqs(Pcb)
    PROVE  /\ IsQueue(order, Pcb) /\ Len(order) \in Nat /\ Len(order) >= 1 /\ order # <<>>
           /\ \A i \in 1 .. Len(order) : order[i] \in Pcb /\ Position(order, order[i]) = i
           /\ \A p \in Pcb : Position(order, p) \in 1 .. Len(order) /\ order[Position(order, p)] = p
           /\ ToSet(order) = Pcb
<1>1. Cardinality(Pcb) \in Nat /\ Cardinality(Pcb) # 0 /\ IsFiniteSet(Pcb)
  BY QueueAssumption, FS_CardinalityType, FS_EmptySet
<1>2. /\ order \in [1 .. Cardinality(Pcb) -> Pcb]
      /\ \A i, j \in 1 .. Cardinality(Pcb) : i # j => order[i] # order[j]
  BY DEF SetToSeqs
<1>3. order \in Seq(Pcb) /\ Len(order) = Cardinality(Pcb) /\ DOMAIN order = 1 .. Len(order)
  BY <1>1, <1>2
<1>4. IsQueue(order, Pcb)
  BY <1>2, <1>3 DEF IsQueue, IsInjective
<1>5. ToSet(order) = Pcb
  <2>1. ToSet(order) \in SUBSET Pcb /\ Cardinality(ToSet(order)) = Cardinality(Pcb)
    BY <1>3, <1>4, QueueLength
  <2> QED BY <1>1, <2>1, FS_Subset
<1>6. \A p \in Pcb : \E i \in 1 .. Len(order) : order[i] = p
  BY <1>3, <1>5, Elements
<1>7. \A p \in Pcb : Position(order, p) \in 1 .. Len(order) /\ order[Position(order, p)] = p
  BY <1>6 DEF Position
<1>8. \A i \in 1 .. Len(order) : order[i] \in Pcb
  BY <1>2, <1>3
<1>9. \A i \in 1 .. Len(order) : Position(order, order[i]) = i
  BY <1>2, <1>3, <1>7, <1>8
<1>10. order # <<>> /\ Len(order) >= 1
  BY <1>1, <1>3, EmptySeq
<1> QED BY <1>1, <1>3, <1>4, <1>5, <1>7, <1>8, <1>9, <1>10

LEMMA FirstRing ==
    ASSUME NEW order \in SetToSeqs(Pcb), NEW ahead, NEW behind, FirstLinks(order, ahead, behind)
    PROVE  /\ Ring(ahead, behind, Pcb, order[Len(order)], order)
           /\ order[Len(order)] \in Pcb
           /\ ahead \in [Pcb -> Pcb] /\ behind \in [Pcb -> Pcb]
<1> DEFINE n == Len(order)
<1>1. /\ IsQueue(order, Pcb) /\ n \in Nat /\ n >= 1 /\ order # <<>>
      /\ \A i \in 1 .. n : order[i] \in Pcb /\ Position(order, order[i]) = i
      /\ \A p \in Pcb : Position(order, p) \in 1 .. n /\ order[Position(order, p)] = p
      /\ ToSet(order) = Pcb
  BY OrderIs
<1>2. /\ ahead = [p \in Pcb |-> order[(Position(order, p) % n) + 1]]
      /\ behind = [p \in Pcb |-> order[((Position(order, p) + n - 2) % n) + 1]]
  BY DEF FirstLinks
<1> HIDE DEF n
<1>3. \A i \in 1 .. n : /\ (i % n) + 1 = IF i = n THEN 1 ELSE i + 1
                        /\ ((i + n - 2) % n) + 1 = IF i = 1 THEN n ELSE i - 1
  BY <1>1, Wrap
<1>4. ASSUME NEW p \in Pcb
      PROVE  LET i == Position(order, p) IN
             /\ ahead[p] = order[IF i = n THEN 1 ELSE i + 1]
             /\ behind[p] = order[IF i = 1 THEN n ELSE i - 1]
  <2>1. Position(order, p) \in 1 .. n
    BY <1>1
  <2>2. /\ ahead[p] = order[(Position(order, p) % n) + 1]
        /\ behind[p] = order[((Position(order, p) + n - 2) % n) + 1]
    BY <1>2
  <2>3. /\ (Position(order, p) % n) + 1
              = IF Position(order, p) = n THEN 1 ELSE Position(order, p) + 1
        /\ ((Position(order, p) + n - 2) % n) + 1
              = IF Position(order, p) = 1 THEN n ELSE Position(order, p) - 1
    BY <1>3, <2>1
  <2> QED BY <2>2, <2>3
<1>5. \A i \in 1 .. n : /\ ahead[order[i]] = order[IF i = n THEN 1 ELSE i + 1]
                        /\ behind[order[i]] = order[IF i = 1 THEN n ELSE i - 1]
  BY <1>1, <1>4
<1>6. \A i \in 1 .. n : /\ (IF i = n THEN 1 ELSE i + 1) \in 1 .. n
                        /\ (IF i = 1 THEN n ELSE i - 1) \in 1 .. n
  BY <1>1
<1>7. ahead \in [Pcb -> Pcb] /\ behind \in [Pcb -> Pcb]
  <2>1. \A p \in Pcb : ahead[p] \in Pcb /\ behind[p] \in Pcb
    BY <1>1, <1>4, <1>6
  <2>2. /\ ahead = [p \in Pcb |-> ahead[p]] /\ behind = [p \in Pcb |-> behind[p]]
    BY <1>2
  <2> QED BY <2>1, <2>2
<1>8. n \in 1 .. n /\ 1 \in 1 .. n
  BY <1>1
<1>9. ahead[order[n]] = order[1]
  BY <1>5, <1>8
<1>10. \A i \in 1 .. n - 1 : ahead[order[i]] = order[i + 1]
  <2> TAKE i \in 1 .. n - 1
  <2>1. i \in 1 .. n /\ i # n
    BY <1>1
  <2> QED BY <1>5, <2>1
<1>11. ASSUME NEW p \in Pcb PROVE behind[ahead[p]] = p
  <2>1. PICK i \in 1 .. n : order[i] = p
    BY <1>1
  <2> DEFINE j == IF i = n THEN 1 ELSE i + 1
  <2>2. ahead[p] = order[j] /\ j \in 1 .. n
    BY <1>5, <1>6, <2>1
  <2>3. (IF j = 1 THEN n ELSE j - 1) = i
    BY <1>1
  <2> HIDE DEF j
  <2>4. behind[order[j]] = order[IF j = 1 THEN n ELSE j - 1]
    BY <1>5, <2>2
  <2> QED BY <2>1, <2>2, <2>3, <2>4
<1>12. Cycle(ahead, Pcb, order)
  BY <1>1, <1>9, <1>10 DEF Cycle, n
<1> QED BY <1>1, <1>7, <1>8, <1>11, <1>12 DEF Ring, n

\* In the words of each file.
LEMMA FirstWords ==
    ASSUME QueuesInit
    PROVE  /\ phase \in {1, 2} /\ ret = NULL
           /\ \E order \in SetToSeqs(Pcb) :
                 /\ FirstLinks(order, Ahead, Behind)
                 /\ tp = [q \in Queue |-> IF q = pcbList_h THEN order[Len(order)] ELSE NULL]
<1>1. CASE phase = 2
  <2>1. Init /\ Ahead = p_prev /\ Behind = p_next
    BY <1>1 DEF QueuesInit, Ahead, Behind
  <2>2. ret = NULL
    BY <2>1 DEF Init
  <2>3. PICK order \in SetToSeqs(Pcb) :
           LET last == Len(order)
               position(p) == CHOOSE i \in 1 .. last : order[i] = p
           IN /\ p_prev = [p \in Pcb |-> order[(position(p) % last) + 1]]
              /\ p_next = [p \in Pcb |-> order[((position(p) + last - 2) % last) + 1]]
              /\ tp = [q \in Queue |-> IF q = pcbList_h THEN order[last] ELSE NULL]
    BY <2>1 DEF Init
  <2>4. FirstLinks(order, p_prev, p_next)
    BY <2>3 DEF FirstLinks, Position
  <2> QED BY <1>1, <2>1, <2>2, <2>3, <2>4
<1>2. CASE phase = 1
  <2>1. Phase1!Phase2!Init /\ Ahead = p_next /\ Behind = p_prev
    BY <1>2 DEF QueuesInit, Phase1!Init, Ahead, Behind
  <2>2. Phase1!Phase2!SetToSeqs(Pcb) = SetToSeqs(Pcb)
    BY DEF SetToSeqs, Phase1!Phase2!SetToSeqs, Cardinality, Phase1!Phase2!Cardinality
  <2>3. ret = NULL
    BY <2>1 DEF Phase1!Phase2!Init
  <2>4. PICK order \in Phase1!Phase2!SetToSeqs(Pcb) :
           LET last == Len(order)
               position(p) == CHOOSE i \in 1 .. last : order[i] = p
           IN /\ p_next = [p \in Pcb |-> order[(position(p) % last) + 1]]
              /\ p_prev = [p \in Pcb |-> order[((position(p) + last - 2) % last) + 1]]
              /\ tp = [q \in Queue |-> IF q = pcbList_h THEN order[last] ELSE NULL]
    BY <2>1 DEF Phase1!Phase2!Init
  <2>5. FirstLinks(order, p_next, p_prev) /\ order \in SetToSeqs(Pcb)
    BY <2>2, <2>4 DEF FirstLinks, Position
  <2> QED BY <1>2, <2>1, <2>3, <2>4, <2>5
<1> QED BY <1>1, <1>2 DEF QueuesInit

\* All are on the free list and the other queues are empty.
LEMMA InitIInv == QueuesInit => IInv
<1> SUFFICES ASSUME QueuesInit PROVE IInv
  OBVIOUS
<1>1. phase \in {1, 2} /\ ret = NULL
  BY FirstWords
<1>2. PICK order \in SetToSeqs(Pcb) :
         /\ FirstLinks(order, Ahead, Behind)
         /\ tp = [q \in Queue |-> IF q = pcbList_h THEN order[Len(order)] ELSE NULL]
  BY FirstWords
<1>3. /\ Ring(Ahead, Behind, Pcb, order[Len(order)], order) /\ order[Len(order)] \in Pcb
      /\ Ahead \in [Pcb -> Pcb] /\ Behind \in [Pcb -> Pcb]
  BY <1>2, FirstRing
<1>4. Typed
  BY <1>1, <1>2, <1>3 DEF Typed, Ahead, Behind
<1>5. ASSUME NEW q \in Queue
      PROVE  /\ tp[q] # NULL <=> q = pcbList_h
             /\ QueueOf(q) = IF q = pcbList_h THEN order ELSE <<>>
             /\ q = pcbList_h => tp[q] = order[Len(order)]
  <2>1. tp[q] = IF q = pcbList_h THEN order[Len(order)] ELSE NULL
    BY <1>2
  <2>2. Walk(Ahead, order[Len(order)]) = order
    BY <1>3, WalkIs DEF Ring
  <2> QED BY <1>3, <2>1, <2>2, QueueOfIs, QueueAssumption
<1>6. Rings
  BY <1>3, <1>5 DEF Rings
<1>7. Apart
  <2>1. ToSet(<<>>) = {}
    BY DEF ToSet
  <2> QED BY <1>5, <2>1 DEF Apart
<1> QED BY <1>4, <1>6, <1>7 DEF IInv

----------------------------------------------------------------------------
(* The theorems.                                                           *)

\* The invariant of phase 1 and of phases 2 and 3 alike.
THEOREM Invariance == QueuesSpec => []IInv
<1>1. IInv /\ [QueuesNext]_<<vars, phase>> => IInv'
  BY EachStep
<1> QED BY InitIInv, <1>1, PTL DEF QueuesSpec

\* Every link points to a pcb or is NULL, and those of a tail are never NULL
\* (src/phase2/pcb.c and src/phase1/pcb.c: none of the operations follows NULL).
THEOREM TypeCorrect == QueuesSpec => []TypeOK
<1>1. IInv => TypeOK
  <2> SUFFICES ASSUME IInv PROVE TypeOK
    OBVIOUS
  <2>1. ASSUME NEW q \in Queue, tp[q] # NULL
        PROVE  p_prev[tp[q]] # NULL /\ p_next[tp[q]] # NULL
    <3>1. Ahead[tp[q]] \in Pcb /\ Behind[tp[q]] \in Pcb
      BY <2>1, RingNow, RingIs
    <3>2. Ahead[tp[q]] # NULL /\ Behind[tp[q]] # NULL
      BY <3>1, QueueAssumption
    <3> QED BY <3>2 DEF Ahead, Behind
  <2> QED BY <2>1 DEF TypeOK, IInv, Typed
<1> QED BY <1>1, Invariance, PTL

\* The way back round a ring from its head, whichever the pcb.c.
LEMMA BackIs ==
    ASSUME IInv, NEW q \in Queue, tp[q] # NULL
    PROVE  QueueOf(q) # <<>> /\ Walk(Behind, Ahead[tp[q]]) = Reverse(QueueOf(q))
<1>1. Ring(Ahead, Behind, Pcb, tp[q], QueueOf(q))
  BY RingNow
<1>2. /\ Cycle(Behind, Pcb, Reverse(QueueOf(q)))
      /\ Reverse(QueueOf(q))[Len(Reverse(QueueOf(q)))] = Ahead[tp[q]]
  BY <1>1, RingBack
<1>3. Walk(Behind, Ahead[tp[q]]) = Reverse(QueueOf(q))
  BY <1>2, WalkIs
<1> QED BY <1>1, <1>3, RingIs

\* p_next and p_prev agree all the way round every queue, whatever the links of a pcb
\* were before insertProcQ and however outProcQ took another out, and no two queues
\* share a pcb (src/phase1/pcb.c and src/phase2/pcb.c).
THEOREM RingsStayIntact == QueuesSpec => []RingsIntact
<1>1. IInv => RingsIntact
  <2> SUFFICES ASSUME IInv PROVE RingsIntact
    OBVIOUS
  <2>1. \A q \in Queue : tp[q] # NULL =>
           QueueOf(q) # <<>> /\ Walk(Behind, Ahead[tp[q]]) = Reverse(QueueOf(q))
    BY BackIs
  <2>2. \A q, r \in Queue : ToSet(QueueOf(q)) \cap ToSet(QueueOf(r)) # {} => q = r
    BY DEF IInv, Apart
  <2>3. CASE phase = 2
    <3>1. /\ Ahead = p_prev /\ Behind = p_next
          /\ \A q \in Queue : QueueOf(q) = Contents(tp[q])
      BY <2>3 DEF Ahead, Behind, QueueOf
    <3> QED BY <2>1, <2>2, <2>3, <3>1 DEF RingsIntact, RingsAgree
  <2>4. CASE phase = 1
    <3>1. /\ Ahead = p_next /\ Behind = p_prev
          /\ \A q \in Queue : QueueOf(q) = Phase1!Phase2!Contents(tp[q])
      BY <2>4 DEF Ahead, Behind, QueueOf, Phase1!Contents
    <3>2. Phase1!Phase2!RingsAgree
      BY <2>1, <2>2, <3>1, SameWalk, SameSets, SameReverse DEF Phase1!Phase2!RingsAgree
    <3> QED BY <2>4, <3>2 DEF RingsIntact
  <2> QED BY <2>3, <2>4 DEF IInv, Typed
<1> QED BY <1>1, Invariance, PTL

\* removeProcQ and headProcQ return the head or NULL, outProcQ NULL of a pcb that is not
\* in this queue, and in phases 2 and 3 the pcb it took out of any other
\* (src/phase2/pcb.c:80, 104, 127 and src/phase1/pcb.c).
THEOREM ReturnsHold == QueuesSpec => Returns
<1> DEFINE H(q) == IF QueueOf(q) = <<>> THEN NULL ELSE Head(QueueOf(q))
           Here(q, p) == p \in ToSet(QueueOf(q))
<1> DEFINE Right ==
        /\ \A q \in Queue :
              IF phase = 1 THEN Phase1!removeProcQ(q) \/ Phase1!headProcQ(q) => ret' = H(q)
                           ELSE removeProcQ(q) \/ headProcQ(q) => ret' = H(q)
        /\ \A q \in Queue, p \in Pcb :
              IF phase = 1 THEN Phase1!outProcQ(q, p) /\ ~Here(q, p) => ret' = NULL
                           ELSE outProcQ(q, p) => ret' = IF Here(q, p) THEN p ELSE NULL
<1>1. ASSUME IInv, [QueuesNext]_<<vars, phase>> PROVE Right \/ UNCHANGED <<vars, phase>>
  <2>0. UNCHANGED phase /\ phase \in {1, 2}
    BY <1>1, EachStep DEF IInv, Typed
  <2>1. ASSUME NEW q \in Queue, ARemove(q) \/ AHead(q) PROVE ret' = H(q)
    <3>1. CASE tp[q] = NULL
      BY <1>1, <2>1, <3>1, RingNow DEF ARemove, AHead
    <3>2. CASE tp[q] # NULL
      <4>1. ret' = Ahead[tp[q]] /\ QueueOf(q) # <<>>
        BY <1>1, <2>1, <3>2, RingNow DEF ARemove, AHead
      <4>2. Ahead[tp[q]] = Head(QueueOf(q))
        BY <1>1, <3>2, HeadIs
      <4> QED BY <4>1, <4>2
    <3> QED BY <3>1, <3>2
  <2>2. ASSUME NEW q \in Queue, NEW p \in Pcb, AnOut(q, p)
        PROVE  /\ ~Here(q, p) => ret' = NULL
               /\ Here(q, p) /\ phase = 2 => ret' = p
    <3>1. CASE ~Here(q, p)
      BY <2>2, <3>1 DEF AnOut
    <3>2. CASE Here(q, p)
      <4>1. tp[q] # NULL
        <5>1. ToSet(<<>>) = {}
          BY DEF ToSet
        <5> QED BY <1>1, <3>2, <5>1, RingNow
      <4> QED BY <2>2, <3>2, <4>1 DEF AnOut
    <3> QED BY <3>1, <3>2
  <2>3. CASE phase = 1
    <3>1. ASSUME NEW q \in Queue, Phase1!removeProcQ(q) \/ Phase1!headProcQ(q)
          PROVE  ret' = H(q)
      BY <1>1, <2>0, <2>1, <2>3, <3>1, WordsOfOne
    <3>2. ASSUME NEW q \in Queue, NEW p \in Pcb, Phase1!outProcQ(q, p)
          PROVE  ~Here(q, p) => ret' = NULL
      BY <1>1, <2>0, <2>2, <2>3, <3>2, WordsOfOne
    <3> QED BY <2>3, <3>1, <3>2
  <2>4. CASE phase = 2
    <3>1. ASSUME NEW q \in Queue, removeProcQ(q) \/ headProcQ(q)
          PROVE  ret' = H(q)
      BY <1>1, <2>0, <2>1, <2>4, <3>1, WordsOfTwo
    <3>2. ASSUME NEW q \in Queue, NEW p \in Pcb, outProcQ(q, p)
          PROVE  ret' = IF Here(q, p) THEN p ELSE NULL
      BY <1>1, <2>0, <2>2, <2>4, <3>2, WordsOfTwo
    <3> QED BY <2>4, <3>1, <3>2
  <2> QED BY <2>0, <2>3, <2>4
<1>2. IInv /\ [QueuesNext]_<<vars, phase>> => [Right]_<<vars, phase>>
  BY <1>1
<1> QED BY <1>2, Invariance, PTL DEF QueuesSpec, Returns, HeadOf

\* The rings of either pcb.c are first-in first-out queues: the initial states map to
\* initial states of Fifo, and every step to a step of it or to none.
THEOREM Refinement == QueuesSpec => ImplementsFifo
<1> DEFINE abs == [q \in Queue |-> QueueOf(q)]
<1>1. QueuesInit => Abstract!FInit
  <2> SUFFICES ASSUME QueuesInit PROVE Abstract!FInit
    OBVIOUS
  <2>1. IInv
    BY InitIInv
  <2>2. /\ DOMAIN abs = Queue /\ \A q \in Queue : abs[q] = QueueOf(q)
    OBVIOUS
  <2>3. \A q \in Queue : IsInjective(QueueOf(q)) /\ ToSet(QueueOf(q)) \subseteq Pcb
    BY <2>1, RingNow DEF IsQueue
  <2>4. \A q, r \in Queue : q # r => ToSet(QueueOf(q)) \cap ToSet(QueueOf(r)) = {}
    BY <2>1 DEF IInv, Apart
  <2>5. \A q : Abstract!IsInjective(q) <=> IsInjective(q)
    BY DEF IsInjective, Abstract!IsInjective
  <2> HIDE DEF abs
  <2>6. /\ \A q \in Queue : Abstract!IsInjective(abs[q]) /\ Abstract!ToSet(abs[q]) \subseteq Pcb
        /\ \A q, r \in Queue : q # r => Abstract!ToSet(abs[q]) \cap Abstract!ToSet(abs[r]) = {}
    BY <2>2, <2>3, <2>4, <2>5, SameSets
  <2> QED BY <2>2, <2>6 DEF Abstract!FInit, Abstract!Disjoint, abs
<1>2. IInv /\ [QueuesNext]_<<vars, phase>> => [Abstract!FNext]_abs
  <2> SUFFICES ASSUME IInv, [QueuesNext]_<<vars, phase>> PROVE [Abstract!FNext]_abs
    OBVIOUS
  <2>0. /\ abs = [q \in Queue |-> QueueOf(q)]
        /\ abs' = [q \in Queue |-> QueueOf(q)']
    OBVIOUS
  <2>1. ASSUME NEW q \in Queue, NEW s, Becomes(q, s)
        PROVE  abs' = [abs EXCEPT ![q] = s]
    BY <2>0, <2>1 DEF Becomes
  <2>2. CASE \E q \in Queue, p \in Pcb : /\ \A r \in Queue : p \notin ToSet(QueueOf(r))
                                         /\ Becomes(q, Append(QueueOf(q), p))
    <3>1. PICK q \in Queue, p \in Pcb : /\ \A r \in Queue : p \notin ToSet(QueueOf(r))
                                        /\ Becomes(q, Append(QueueOf(q), p))
      BY <2>2
    <3>2. p \notin Abstract!Queued
      BY <3>1, SameSets DEF Abstract!Queued
    <3>3. abs' = [abs EXCEPT ![q] = Append(abs[q], p)]
      BY <2>0, <2>1, <3>1
    <3>4. Abstract!Insert(q, p)
      BY <3>2, <3>3 DEF Abstract!Insert
    <3> QED BY <3>4 DEF Abstract!FNext
  <2>3. CASE \E q \in Queue, p \in Pcb :
                p \in ToSet(QueueOf(q)) /\ Becomes(q, RemoveFirst(QueueOf(q), p))
    <3>1. PICK q \in Queue, p \in Pcb :
             p \in ToSet(QueueOf(q)) /\ Becomes(q, RemoveFirst(QueueOf(q), p))
      BY <2>3
    <3>2. p \in ToSet(abs[q]) /\ abs' = [abs EXCEPT ![q] = RemoveFirst(abs[q], p)]
      BY <2>0, <2>1, <3>1
    <3>3. Abstract!Out(q, p)
      BY <3>2, SameRemoveFirst, SameSets DEF Abstract!Out
    <3> QED BY <3>3 DEF Abstract!FNext
  <2>4. CASE \A q \in Queue : QueueOf(q)' = QueueOf(q)
    BY <2>0, <2>4
  <2> QED BY <2>2, <2>3, <2>4, EachStep DEF LosesOne
<1> QED BY <1>1, <1>2, Invariance, PTL DEF QueuesSpec, ImplementsFifo, Abstract!FSpec

=============================================================================
