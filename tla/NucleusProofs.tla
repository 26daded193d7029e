--------------------------- MODULE NucleusProofs ---------------------------
(***************************************************************************)
(* For any number of pcbs and semaphores: the nucleus keeps its types, its *)
(* queues apart, and its counters equal to what they count; whoever is     *)
(* queued can be resumed where it stopped, no list of children has a free  *)
(* pcb in it, no wakeup is lost, and the queues are served in turn.        *)
(*                                                                         *)
(* The invariant of the first part is inductive without a word on the      *)
(* process tree: nothing that terminateProcess counts depends on where in  *)
(* the tree it is, only on the queue in which it finds the pcb of the call *)
(* in progress.                                                            *)
(***************************************************************************)
EXTENDS Nucleus, QueueLemmas

BlockedIn(w) == {p \in Pcb : w[p] # NULL}
SoftIn(w)    == {p \in Pcb : w[p] \in Device \cup {Clock}}
Used(q)      == {a \in SemAdd : q[a] # <<>>}

\* The queues q, the number f of free descriptors and the p_semAdd fields w agree.
Consistent(q, f, w) ==
    /\ q \in [SemAdd -> Seq(Pcb)]
    /\ w \in [Pcb -> SemAdd \cup {NULL}]
    /\ \A a \in SemAdd : IsInjective(q[a]) /\ ToSet(q[a]) = {p \in Pcb : w[p] = a}
    /\ f = Cardinality(Pcb) - Cardinality(Used(q))

\* The ready queue rq, the running process, the blocked and the free pcbs are apart.
Apart(rq, cur, w, free) ==
    /\ IsInjective(rq)
    /\ ToSet(rq) \cap (BlockedIn(w) \cup ({cur} \ {NULL}) \cup free) = {}
    /\ BlockedIn(w) \cap (({cur} \ {NULL}) \cup free) = {}
    /\ cur \notin free

\* What the processor does tells what else is the case.
Mode ==
    /\ cpu = "run" => currentProc \in Pcb /\ dying = <<>>
    /\ cpu \in {"wait", "halt", "panic"} =>
           currentProc = NULL /\ readyQ = <<>> /\ dying = <<>>
    /\ cpu = "halt" => processCount = 0
    /\ cpu = "wait" => processCount # 0 /\ softBlockCount > 0
    /\ cpu = "panic" => processCount # 0 /\ ~(softBlockCount > 0)
    /\ InKernel => /\ currentProc \in Pcb
                   /\ dying # <<>>
                   /\ dying[Len(dying)] = currentProc
    /\ cpu = "dispose" => Head(dying) \notin Ready /\ p_semAdd[Head(dying)] = NULL

\* SemaphoreAccounting, one semaphore at a time.
Balanced(sem, q) ==
    \A a \in SemAdd :
        /\ a \in Sema4 => Len(q[a]) = IF sem[a] < 0 THEN -sem[a] ELSE 0
        /\ a \in Device /\ q[a] # <<>> => sem[a] <= -Len(q[a])
        /\ a = Clock => sem[a] <= -Len(q[a])

IInv ==
    /\ TypeOK
    /\ Consistent(asl, semdFree, p_semAdd)
    /\ Apart(readyQ, currentProc, p_semAdd, pcbFree)
    /\ ProcessAccounting
    /\ softBlockCount = Cardinality(SoftIn(p_semAdd))
    /\ Balanced(semaphore, asl)
    /\ Mode

----------------------------------------------------------------------------
(* Counting.                                                               *)

\* Sets of pcbs are finite, and their sizes are what they seem.
LEMMA PcbSubset ==
    ASSUME NEW L, L \subseteq Pcb
    PROVE  /\ IsFiniteSet(L) /\ Cardinality(L) \in Nat
           /\ Cardinality(L) <= Cardinality(Pcb) /\ Cardinality(Pcb) \in Nat
           /\ Cardinality(L) = 0 <=> L = {}
           /\ \A p \in Pcb \ L : Cardinality(L \cup {p}) = Cardinality(L) + 1
           /\ \A p \in L : Cardinality(L \ {p}) = Cardinality(L) - 1
           /\ L # Pcb => Cardinality(L) < Cardinality(Pcb)
<1>1. IsFiniteSet(Pcb) /\ Cardinality(Pcb) \in Nat
  BY PcbAssumption, FS_CardinalityType
<1>2. /\ IsFiniteSet(L) /\ Cardinality(L) \in Nat /\ Cardinality(L) <= Cardinality(Pcb)
      /\ Cardinality(L) = Cardinality(Pcb) => L = Pcb
  BY <1>1, FS_Subset, FS_CardinalityType
<1>3. Cardinality(L) = 0 <=> L = {}
  BY <1>2, FS_EmptySet
<1>4. \A p \in Pcb \ L : Cardinality(L \cup {p}) = Cardinality(L) + 1
  BY <1>2, FS_AddElement
<1>5. \A p \in L : Cardinality(L \ {p}) = Cardinality(L) - 1
  BY <1>2, FS_RemoveElement
<1> QED BY <1>1, <1>2, <1>3, <1>4, <1>5

\* Every descriptor in use has a first waiter of its own, so a pcb that is not
\* blocked leaves a descriptor free.
LEMMA Descriptors ==
    ASSUME NEW q, NEW f, NEW w, Consistent(q, f, w)
    PROVE  /\ IsFiniteSet(Used(q)) /\ Cardinality(Used(q)) \in Nat
           /\ f \in Nat
           /\ \A p \in Pcb : w[p] = NULL => f > 0
<1> DEFINE h == [a \in Used(q) |-> Head(q[a])]
<1>1. ASSUME NEW a \in Used(q)
      PROVE  h[a] \in Pcb /\ w[h[a]] = a
  <2>1. a \in SemAdd /\ q[a] # <<>> /\ IsQueue(q[a], Pcb)
    BY <1>1 DEF Used, Consistent, IsQueue
  <2>2. Head(q[a]) \in ToSet(q[a]) /\ Head(q[a]) \in Pcb
    BY <2>1, QueueTail
  <2> QED BY <2>1, <2>2 DEF Consistent
<1>2. \A a \in Used(q) : h[a] \in BlockedIn(w)
  BY <1>1, SemAddAssumption DEF BlockedIn, Used
<1>3. h \in Injection(Used(q), BlockedIn(w))
  BY <1>1, <1>2 DEF Injection, IsInjective
<1>4. BlockedIn(w) \subseteq Pcb
  BY DEF BlockedIn
<1>5. /\ IsFiniteSet(Used(q)) /\ Cardinality(Used(q)) \in Nat
      /\ Cardinality(Used(q)) <= Cardinality(BlockedIn(w))
  BY <1>3, <1>4, PcbSubset, FS_Injection, FS_CardinalityType DEF ExistsInjection
<1>6. f \in Nat
  BY <1>4, <1>5, PcbSubset DEF Consistent
<1>7. ASSUME NEW p \in Pcb, w[p] = NULL
      PROVE  f > 0
  <2>1. BlockedIn(w) # Pcb
    BY <1>7 DEF BlockedIn
  <2> QED BY <1>4, <1>5, <2>1, PcbSubset DEF Consistent
<1> QED BY <1>5, <1>6, <1>7

----------------------------------------------------------------------------
(* One queue changes.                                                      *)

\* g is f but for its value v at x.
Differs(g, f, x, v) ==
    /\ g = [y \in DOMAIN f |-> g[y]]
    /\ x \in DOMAIN f => g[x] = v
    /\ \A y \in DOMAIN f : y # x => g[y] = f[y]

\* A function changed at one place.
LEMMA Differing ==
    ASSUME NEW S, NEW T, NEW f \in [S -> T], NEW x, NEW v
    PROVE  Differs([f EXCEPT ![x] = v], f, x, v)
BY DEF Differs

\* What consistency says of one queue of the ASL.
LEMMA QueueOf ==
    ASSUME NEW q, NEW f, NEW w, Consistent(q, f, w), NEW a \in SemAdd
    PROVE  /\ IsQueue(q[a], Pcb)
           /\ ToSet(q[a]) \subseteq BlockedIn(w)
           /\ q[a] = <<>> <=> ToSet(q[a]) = {}
           /\ Len(q[a]) = Cardinality(ToSet(q[a]))
           /\ Len(q[a]) \in Nat
           /\ \A p \in Pcb : p \in ToSet(q[a]) <=> w[p] = a
<1>1. IsQueue(q[a], Pcb) /\ ToSet(q[a]) = {p \in Pcb : w[p] = a}
  BY DEF Consistent, IsQueue
<1>2. a # NULL
  BY SemAddAssumption
<1> QED BY <1>1, <1>2, QueueLength DEF BlockedIn

\* insertBlocked of a pcb that is not blocked.
LEMMA QueueGrows ==
    ASSUME NEW q, NEW f, NEW w, Consistent(q, f, w), NEW a \in SemAdd, NEW p \in Pcb,
           w[p] = NULL,
           NEW q1, Differs(q1, q, a, Append(q[a], p)),
           NEW w1, Differs(w1, w, p, a)
    PROVE  /\ Consistent(q1, IF q[a] = <<>> THEN f - 1 ELSE f, w1)
           /\ BlockedIn(w1) = BlockedIn(w) \cup {p}
           /\ SoftIn(w1) = IF IsSoft(a) THEN SoftIn(w) \cup {p} ELSE SoftIn(w)
           /\ Len(q1[a]) = Len(q[a]) + 1
<1> DEFINE r == Append(q[a], p)
           f1 == IF q[a] = <<>> THEN f - 1 ELSE f
<1>1. /\ IsQueue(q[a], Pcb) /\ p \notin ToSet(q[a]) /\ a # NULL
      /\ \A x \in Pcb : x \in ToSet(q[a]) <=> w[x] = a
      /\ ToSet(q[a]) \subseteq Pcb
  BY QueueOf, SemAddAssumption DEF BlockedIn
<1>2. /\ IsQueue(r, Pcb) /\ ToSet(r) = ToSet(q[a]) \cup {p}
      /\ Len(r) = Len(q[a]) + 1 /\ r # <<>>
  BY <1>1, QueueAppend
<1> HIDE DEF r
<1>3. /\ q1 \in [SemAdd -> Seq(Pcb)] /\ w1 \in [Pcb -> SemAdd \cup {NULL}]
      /\ q1[a] = r /\ \A b \in SemAdd \ {a} : q1[b] = q[b]
      /\ w1[p] = a /\ \A x \in Pcb \ {p} : w1[x] = w[x]
  BY <1>2 DEF Consistent, IsQueue, Differs, r
<1>4. \A b \in SemAdd : IsInjective(q1[b]) /\ ToSet(q1[b]) = {x \in Pcb : w1[x] = b}
  <2>1. \A b \in SemAdd \ {a} : {x \in Pcb : w1[x] = b} = {x \in Pcb : w[x] = b}
    BY <1>3, SemAddAssumption
  <2>2. ToSet(r) = {x \in Pcb : w1[x] = a}
    BY <1>1, <1>2, <1>3
  <2> QED BY <1>2, <1>3, <2>1, <2>2 DEF Consistent, IsQueue
<1>5. f1 = Cardinality(Pcb) - Cardinality(Used(q1))
  <2>1. Used(q1) = Used(q) \cup {a}
    BY <1>2, <1>3 DEF Used
  <2>2. a \in Used(q) <=> q[a] # <<>>
    BY DEF Used
  <2>3. Cardinality(Used(q1)) = IF q[a] = <<>> THEN Cardinality(Used(q)) + 1
                                               ELSE Cardinality(Used(q))
    BY <2>1, <2>2, Descriptors, FS_AddElement
  <2> QED BY <2>3, Descriptors, PcbSubset DEF Consistent
<1>6. Consistent(q1, f1, w1)
  BY <1>3, <1>4, <1>5 DEF Consistent
<1>7. BlockedIn(w1) = BlockedIn(w) \cup {p}
  BY <1>1, <1>3 DEF BlockedIn
<1>8. SoftIn(w1) = IF IsSoft(a) THEN SoftIn(w) \cup {p} ELSE SoftIn(w)
  <2>1. NULL \notin Device \cup {Clock}
    BY SemAddAssumption DEF SemAdd
  <2> QED BY <1>3, <2>1 DEF SoftIn, IsSoft
<1> QED BY <1>2, <1>3, <1>6, <1>7, <1>8

\* removeBlocked and outBlocked: p leaves the queue of a, of which r is left.
LEMMA QueueShrinks ==
    ASSUME NEW q, NEW f, NEW w, Consistent(q, f, w), NEW a \in SemAdd,
           NEW p \in ToSet(q[a]), NEW r, IsQueue(r, Pcb), ToSet(r) = ToSet(q[a]) \ {p},
           NEW q1, Differs(q1, q, a, r),
           NEW w1, Differs(w1, w, p, NULL)
    PROVE  /\ p \in Pcb /\ w[p] = a
           /\ Consistent(q1, IF r = <<>> THEN f + 1 ELSE f, w1)
           /\ BlockedIn(w1) = BlockedIn(w) \ {p}
           /\ SoftIn(w1) = IF IsSoft(a) THEN SoftIn(w) \ {p} ELSE SoftIn(w)
<1> DEFINE f1 == IF r = <<>> THEN f + 1 ELSE f
<1>1. /\ IsQueue(q[a], Pcb) /\ a # NULL /\ q[a] # <<>>
      /\ \A x \in Pcb : x \in ToSet(q[a]) <=> w[x] = a
      /\ p \in Pcb /\ w[p] = a
  BY QueueOf, SemAddAssumption DEF BlockedIn
<1>2. /\ q1 \in [SemAdd -> Seq(Pcb)] /\ w1 \in [Pcb -> SemAdd \cup {NULL}]
      /\ q1[a] = r /\ \A b \in SemAdd \ {a} : q1[b] = q[b]
      /\ w1[p] = NULL /\ \A x \in Pcb \ {p} : w1[x] = w[x]
  <2>1. q \in [SemAdd -> Seq(Pcb)] /\ w \in [Pcb -> SemAdd \cup {NULL}] /\ r \in Seq(Pcb)
    BY DEF Consistent, IsQueue
  <2>2. q1 \in [SemAdd -> Seq(Pcb)] /\ q1[a] = r /\ \A b \in SemAdd \ {a} : q1[b] = q[b]
    <3>1. DOMAIN q = SemAdd
      BY <2>1
    <3>2. /\ q1 = [b \in SemAdd |-> q1[b]] /\ q1[a] = r
          /\ \A b \in SemAdd : b # a => q1[b] = q[b]
      BY <3>1 DEF Differs
    <3>3. \A b \in SemAdd : q1[b] \in Seq(Pcb)
      BY <2>1, <3>2
    <3> QED BY <3>2, <3>3
  <2>3. /\ w1 \in [Pcb -> SemAdd \cup {NULL}] /\ w1[p] = NULL
        /\ \A x \in Pcb \ {p} : w1[x] = w[x]
    <3>1. DOMAIN w = Pcb
      BY <2>1
    <3>2. /\ w1 = [x \in Pcb |-> w1[x]] /\ w1[p] = NULL
          /\ \A x \in Pcb : x # p => w1[x] = w[x]
      BY <1>1, <3>1 DEF Differs
    <3>3. \A x \in Pcb : w1[x] \in SemAdd \cup {NULL}
      BY <2>1, <3>2
    <3> QED BY <3>2, <3>3
  <2> QED BY <2>2, <2>3
<1>3. \A b \in SemAdd : IsInjective(q1[b]) /\ ToSet(q1[b]) = {x \in Pcb : w1[x] = b}
  <2>1. \A b \in SemAdd \ {a} : {x \in Pcb : w1[x] = b} = {x \in Pcb : w[x] = b}
    BY <1>1, <1>2, SemAddAssumption
  <2>2. IsInjective(r) /\ ToSet(r) = {x \in Pcb : w1[x] = a}
    <3>1. ToSet(r) \subseteq Pcb
      BY QueueLength
    <3>2. \A x \in Pcb : x \in ToSet(r) <=> w1[x] = a
      BY <1>1, <1>2
    <3> QED BY <3>1, <3>2 DEF IsQueue
  <2>3. \A b \in SemAdd \ {a} : IsInjective(q[b]) /\ ToSet(q[b]) = {x \in Pcb : w[x] = b}
    BY DEF Consistent
  <2>4. \A b \in SemAdd \ {a} : IsInjective(q1[b]) /\ ToSet(q1[b]) = {x \in Pcb : w1[x] = b}
    BY <1>2, <2>1, <2>3
  <2> QED BY <1>2, <2>2, <2>4
<1>4. f1 = Cardinality(Pcb) - Cardinality(Used(q1))
  <2>1. Used(q1) = IF r = <<>> THEN Used(q) \ {a} ELSE Used(q)
    BY <1>1, <1>2 DEF Used
  <2>2. a \in Used(q)
    BY <1>1 DEF Used
  <2>3. Cardinality(Used(q1)) = IF r = <<>> THEN Cardinality(Used(q)) - 1
                                            ELSE Cardinality(Used(q))
    BY <2>1, <2>2, Descriptors, FS_RemoveElement
  <2>4. f = Cardinality(Pcb) - Cardinality(Used(q))
    BY DEF Consistent
  <2>5. Cardinality(Used(q)) \in Nat /\ Cardinality(Pcb) \in Nat
    BY Descriptors, PcbSubset
  <2> QED BY <2>3, <2>4, <2>5
<1>5. Consistent(q1, f1, w1)
  BY <1>2, <1>3, <1>4 DEF Consistent
<1>6. BlockedIn(w1) = BlockedIn(w) \ {p}
  BY <1>1, <1>2 DEF BlockedIn
<1>7. SoftIn(w1) = IF IsSoft(a) THEN SoftIn(w) \ {p} ELSE SoftIn(w)
  <2>1. NULL \notin Device \cup {Clock}
    BY SemAddAssumption DEF SemAdd
  <2> QED BY <1>1, <1>2, <2>1 DEF SoftIn, IsSoft
<1> QED BY <1>1, <1>5, <1>6, <1>7

\* itInterrupt: everybody leaves the queue of a.
LEMMA QueueEmpties ==
    ASSUME NEW q, NEW f, NEW w, Consistent(q, f, w), NEW a \in SemAdd,
           NEW q1, Differs(q1, q, a, <<>>),
           NEW w1, w1 = [x \in Pcb |-> IF Contains(q[a], x) THEN NULL ELSE w[x]]
    PROVE  /\ Consistent(q1, IF q[a] = <<>> THEN f ELSE f + 1, w1)
           /\ BlockedIn(w1) = BlockedIn(w) \ ToSet(q[a])
           /\ SoftIn(w1) = SoftIn(w) \ ToSet(q[a])
<1> DEFINE f1 == IF q[a] = <<>> THEN f ELSE f + 1
<1>1. /\ IsQueue(q[a], Pcb) /\ a # NULL
      /\ \A x \in Pcb : x \in ToSet(q[a]) <=> w[x] = a
      /\ ToSet(q[a]) \subseteq Pcb
      /\ q[a] = <<>> <=> ToSet(q[a]) = {}
      /\ w \in [Pcb -> SemAdd \cup {NULL}]
  <2>1. IsQueue(q[a], Pcb) /\ \A x \in Pcb : x \in ToSet(q[a]) <=> w[x] = a
    BY QueueOf
  <2>2. ToSet(q[a]) \subseteq Pcb /\ (q[a] = <<>> <=> ToSet(q[a]) = {})
    BY <2>1, QueueLength
  <2> QED BY <2>1, <2>2, SemAddAssumption DEF Consistent
<1>2. \A x : Contains(q[a], x) <=> x \in ToSet(q[a])
  BY <1>1, QueueRemove
<1>3. /\ q1 \in [SemAdd -> Seq(Pcb)] /\ w1 \in [Pcb -> SemAdd \cup {NULL}]
      /\ q1[a] = <<>> /\ \A b \in SemAdd \ {a} : q1[b] = q[b]
      /\ \A x \in Pcb : w1[x] = IF x \in ToSet(q[a]) THEN NULL ELSE w[x]
  <2>1. q \in [SemAdd -> Seq(Pcb)] /\ DOMAIN q = SemAdd /\ <<>> \in Seq(Pcb)
    BY EmptySeq DEF Consistent
  <2>2. /\ q1 = [b \in SemAdd |-> q1[b]] /\ q1[a] = <<>>
        /\ \A b \in SemAdd : b # a => q1[b] = q[b]
    BY <2>1 DEF Differs
  <2>3. \A b \in SemAdd : q1[b] \in Seq(Pcb)
    BY <2>1, <2>2
  <2>4. \A x \in Pcb : w1[x] = IF x \in ToSet(q[a]) THEN NULL ELSE w[x]
    BY <1>2
  <2>5. w1 \in [Pcb -> SemAdd \cup {NULL}]
    BY <1>1
  <2> QED BY <2>2, <2>3, <2>4, <2>5
<1>5. \A b \in SemAdd : IsInjective(q1[b]) /\ ToSet(q1[b]) = {x \in Pcb : w1[x] = b}
  <2>1. \A b \in SemAdd \ {a} : {x \in Pcb : w1[x] = b} = {x \in Pcb : w[x] = b}
    BY <1>1, <1>3, SemAddAssumption
  <2>2. IsQueue(<<>>, Pcb)
    BY EmptySeq DEF IsQueue, IsInjective
  <2>3. ToSet(<<>>) = {x \in Pcb : w1[x] = a}
    BY <1>1, <1>3, <2>2, QueueLength
  <2> QED BY <1>3, <2>1, <2>2, <2>3 DEF Consistent, IsQueue
<1>6. f1 = Cardinality(Pcb) - Cardinality(Used(q1))
  <2>1. Used(q1) = Used(q) \ {a}
    BY <1>3 DEF Used
  <2>2. a \in Used(q) <=> q[a] # <<>>
    BY DEF Used
  <2>3. Cardinality(Used(q1)) = IF q[a] = <<>> THEN Cardinality(Used(q))
                                               ELSE Cardinality(Used(q)) - 1
    BY <2>1, <2>2, Descriptors, FS_RemoveElement
  <2> QED BY <2>3, Descriptors, PcbSubset DEF Consistent
<1>7. Consistent(q1, f1, w1)
  BY <1>3, <1>5, <1>6 DEF Consistent
<1>8. BlockedIn(w1) = BlockedIn(w) \ ToSet(q[a])
  BY <1>1, <1>3 DEF BlockedIn
<1>9. SoftIn(w1) = SoftIn(w) \ ToSet(q[a])
  <2>1. NULL \notin Device \cup {Clock}
    BY SemAddAssumption DEF SemAdd
  <2> QED BY <1>1, <1>3, <2>1 DEF SoftIn
<1> QED BY <1>7, <1>8, <1>9

----------------------------------------------------------------------------
(* The scheduler, and the steps that several handlers share.               *)

\* The scheduler takes over the ready queue rq when there is no current process,
\* or there is one but somebody is ready.
LEMMA Schedules ==
    ASSUME NEW rq, IsQueue(rq, Pcb), NEW cur, rq = <<>> => cur = NULL,
           NEW ps \in [Pcb -> StateOf], Scheduler(rq, cur, ps)
    PROVE  /\ IsQueue(readyQ', Pcb)
           /\ currentProc' \in Pcb \cup {NULL}
           /\ p_s' \in [Pcb -> StateOf]
           /\ cpu' \in {"run", "wait", "halt", "panic"}
           /\ ToSet(readyQ') \cup ({currentProc'} \ {NULL}) = ToSet(rq)
           /\ ToSet(readyQ') \cap ({currentProc'} \ {NULL}) = {}
           /\ cpu' = "run" => currentProc' \in Pcb
           /\ cpu' # "run" => currentProc' = NULL /\ readyQ' = <<>>
           /\ cpu' = "halt" => processCount' = 0
           /\ cpu' = "wait" => processCount' # 0 /\ softBlockCount' > 0
           /\ cpu' = "panic" => processCount' # 0 /\ ~(softBlockCount' > 0)
<1>1. CASE rq # <<>>
  <2>1. /\ readyQ' = Tail(rq) /\ currentProc' = Head(rq) /\ cpu' = "run"
        /\ p_s' = Load(ps, Head(rq))
    BY <1>1 DEF Scheduler, Dispatch
  <2>2. /\ Head(rq) \in Pcb /\ Head(rq) \in ToSet(rq) /\ IsQueue(Tail(rq), Pcb)
        /\ ToSet(Tail(rq)) = ToSet(rq) \ {Head(rq)}
    BY <1>1, QueueTail
  <2>3. p_s' \in [Pcb -> StateOf]
    BY <2>1 DEF Load, StateOf
  <2> QED BY <2>1, <2>2, <2>3, PcbAssumption
<1>2. CASE rq = <<>>
  <2>1. readyQ' = <<>> /\ currentProc' = NULL /\ p_s' = ps /\ cpu' = Idle
    BY <1>2 DEF Scheduler
  <2>2. IsQueue(<<>>, Pcb) /\ ToSet(<<>>) = {}
    BY <1>2, QueueLength
  <2> QED BY <1>2, <2>1, <2>2 DEF Idle
<1> QED BY <1>1, <1>2

\* A state in which the processor runs a process.
LEMMA RunningFacts ==
    ASSUME IInv, currentProc # NULL
    PROVE  /\ currentProc \in Pcb
           /\ p_semAdd[currentProc] = NULL
           /\ currentProc \notin ToSet(readyQ)
           /\ currentProc \notin pcbFree
           /\ semdFree > 0
           /\ StateCopy \in [Pcb -> StateOf]
<1>1. currentProc \in Pcb
  BY DEF IInv, TypeOK
<1>2. /\ p_semAdd[currentProc] = NULL /\ currentProc \notin ToSet(readyQ)
      /\ currentProc \notin pcbFree
  BY <1>1 DEF IInv, Apart, BlockedIn
<1>3. semdFree > 0
  BY <1>1, <1>2, Descriptors DEF IInv
<1>4. StateCopy \in [Pcb -> StateOf]
  BY DEF IInv, TypeOK, StateCopy, StateOf
<1> QED BY <1>1, <1>2, <1>3, <1>4

\* What IInv says of the three places of a process, as sets.
LEMMA Places ==
    ASSUME IInv
    PROVE  /\ IsQueue(readyQ, Pcb) /\ ToSet(readyQ) \subseteq Pcb
           /\ BlockedIn(p_semAdd) \subseteq Pcb /\ SoftIn(p_semAdd) \subseteq BlockedIn(p_semAdd)
           /\ Live = ToSet(readyQ) \cup BlockedIn(p_semAdd) \cup ({currentProc} \ {NULL})
           /\ Live \subseteq Pcb
<1>1. IsQueue(readyQ, Pcb) /\ ToSet(readyQ) \subseteq Pcb
  BY QueueLength DEF IInv, TypeOK, Apart, IsQueue
<1>2. BlockedIn(p_semAdd) \subseteq Pcb /\ SoftIn(p_semAdd) \subseteq BlockedIn(p_semAdd)
  BY SemAddAssumption DEF BlockedIn, SoftIn, SemAdd
<1>3. Live = ToSet(readyQ) \cup BlockedIn(p_semAdd) \cup ({currentProc} \ {NULL})
  BY DEF Live, Ready, Blocked, Running, BlockedIn
<1>4. currentProc \in Pcb \cup {NULL}
  BY DEF IInv, TypeOK
<1> QED BY <1>1, <1>2, <1>3, <1>4

\* What the handlers leave of the semaphores.
SemsOK ==
    /\ semaphore \in [SemAdd -> Int]
    /\ Consistent(asl, semdFree, p_semAdd)
    /\ Balanced(semaphore, asl)
    /\ softBlockCount = Cardinality(SoftIn(p_semAdd))

\* The types of what the handlers leave of the semaphores.
LEMMA SemTypes ==
    ASSUME SemsOK'
    PROVE  /\ asl' \in [SemAdd -> Seq(Pcb)] /\ p_semAdd' \in [Pcb -> SemAdd \cup {NULL}]
           /\ semdFree' \in Nat /\ softBlockCount' \in Nat
<1>1. Consistent(asl', semdFree', p_semAdd') /\ softBlockCount' = Cardinality(SoftIn(p_semAdd'))
  BY DEF SemsOK
<1>2. SoftIn(p_semAdd') \subseteq Pcb
  BY DEF SoftIn
<1>3. softBlockCount' \in Nat
  BY <1>1, <1>2, PcbSubset
<1>4. semdFree' \in Nat
  BY <1>1, Descriptors
<1> QED BY <1>1, <1>3, <1>4 DEF Consistent

\* A handler that ends in the scheduler, with the ready queue rq.
LEMMA EndsInScheduler ==
    ASSUME IInv, SemsOK', NEW rq, IsQueue(rq, Pcb), NEW cur, rq = <<>> => cur = NULL,
           NEW ps \in [Pcb -> StateOf], Scheduler(rq, cur, ps), dying' = <<>>,
           UNCHANGED <<pcbFree, p_child, p_supportStruct>>,
           ToSet(rq) \cap (BlockedIn(p_semAdd') \cup pcbFree) = {},
           BlockedIn(p_semAdd') \cap pcbFree = {},
           processCount' = Cardinality(ToSet(rq) \cup BlockedIn(p_semAdd'))
    PROVE  IInv'
<1>1. /\ IsQueue(readyQ', Pcb)
      /\ currentProc' \in Pcb \cup {NULL}
      /\ p_s' \in [Pcb -> StateOf]
      /\ cpu' \in {"run", "wait", "halt", "panic"}
      /\ ToSet(readyQ') \cup ({currentProc'} \ {NULL}) = ToSet(rq)
      /\ ToSet(readyQ') \cap ({currentProc'} \ {NULL}) = {}
      /\ cpu' = "run" => currentProc' \in Pcb
      /\ cpu' # "run" => currentProc' = NULL /\ readyQ' = <<>>
      /\ cpu' = "halt" => processCount' = 0
      /\ cpu' = "wait" => processCount' # 0 /\ softBlockCount' > 0
      /\ cpu' = "panic" => processCount' # 0 /\ ~(softBlockCount' > 0)
  BY Schedules
<1>2. /\ Live' = ToSet(rq) \cup BlockedIn(p_semAdd')
      /\ Live' \subseteq Pcb
  <2>1. Live' = ToSet(readyQ') \cup BlockedIn(p_semAdd') \cup ({currentProc'} \ {NULL})
    BY DEF Live, Ready, Blocked, Running, BlockedIn
  <2>2. ToSet(rq) \subseteq Pcb
    BY QueueLength
  <2> QED BY <1>1, <2>1, <2>2 DEF BlockedIn
<1>3. ProcessAccounting' /\ processCount' \in Nat
  BY <1>2, PcbSubset DEF ProcessAccounting
<1>4. TypeOK'
  <2>1. /\ readyQ' \in Seq(Pcb) /\ cpu' \in CpuState /\ dying' \in Seq(Pcb)
        /\ semaphore' \in [SemAdd -> Int]
    BY <1>1, EmptySeq DEF IsQueue, CpuState, SemsOK
  <2>2. /\ pcbFree' \subseteq Pcb /\ p_child' \in [Pcb -> Seq(Pcb)]
        /\ p_supportStruct' \in [Pcb -> Support \cup {NULL}]
    BY DEF IInv, TypeOK
  <2> QED BY <1>1, <1>3, <2>1, <2>2, SemTypes DEF TypeOK
<1>5. Apart(readyQ', currentProc', p_semAdd', pcbFree')
  <2>1. NULL \notin pcbFree /\ pcbFree' = pcbFree
    BY PcbAssumption DEF IInv, TypeOK
  <2> QED BY <1>1, <2>1 DEF Apart, IsQueue
<1>6. Mode'
  BY <1>1 DEF Mode, InKernel
<1> QED BY <1>3, <1>4, <1>5, <1>6 DEF IInv, SemsOK

\* A handler that ends in going on with the current process.
LEMMA EndsInReturn ==
    ASSUME IInv, SemsOK', currentProc # NULL, cpu = "run",
           UNCHANGED <<currentProc, cpu, dying>>,
           pcbFree' \subseteq Pcb, p_child' \in [Pcb -> Seq(Pcb)],
           p_supportStruct' \in [Pcb -> Support \cup {NULL}], p_s' \in [Pcb -> StateOf],
           IsQueue(readyQ', Pcb),
           Apart(readyQ', currentProc, p_semAdd', pcbFree'),
           processCount' = Cardinality(ToSet(readyQ') \cup BlockedIn(p_semAdd') \cup {currentProc})
    PROVE  IInv'
<1>1. currentProc \in Pcb /\ dying = <<>>
  BY DEF IInv, Mode
<1>2. /\ Live' = ToSet(readyQ') \cup BlockedIn(p_semAdd') \cup {currentProc}
      /\ Live' \subseteq Pcb
  <2>1. Live' = ToSet(readyQ') \cup BlockedIn(p_semAdd') \cup ({currentProc'} \ {NULL})
    BY DEF Live, Ready, Blocked, Running, BlockedIn
  <2>2. ToSet(readyQ') \subseteq Pcb
    BY QueueLength
  <2> QED BY <1>1, <2>1, <2>2 DEF BlockedIn
<1>3. ProcessAccounting' /\ processCount' \in Nat
  BY <1>2, PcbSubset DEF ProcessAccounting
<1>4. TypeOK'
  <2>1. /\ readyQ' \in Seq(Pcb) /\ cpu' \in CpuState /\ dying' \in Seq(Pcb)
        /\ semaphore' \in [SemAdd -> Int] /\ currentProc' \in Pcb \cup {NULL}
    BY <1>1 DEF IsQueue, SemsOK, IInv, TypeOK
  <2> QED BY <1>3, <2>1, SemTypes DEF TypeOK
<1>5. Mode'
  BY <1>1 DEF Mode, InKernel
<1> QED BY <1>3, <1>4, <1>5 DEF IInv, SemsOK

----------------------------------------------------------------------------
(* Blocking and waking.                                                    *)

\* SYS3, SYS5 and SYS7 when they block: the current process joins the queue of a.
LEMMA Blocks ==
    ASSUME IInv, cpu = "run", NEW a \in SemAdd,
           semaphore' = [semaphore EXCEPT ![a] = @ - 1], semaphore[a] - 1 < 0,
           softBlockCount' = IF IsSoft(a) THEN softBlockCount + 1 ELSE softBlockCount,
           InsertBlocked(a, currentProc), Scheduler(readyQ, NULL, StateCopy),
           UNCHANGED <<procVars, dying>>
    PROVE  IInv'
<1> DEFINE c == currentProc
<1>1. /\ c \in Pcb /\ p_semAdd[c] = NULL /\ c \notin ToSet(readyQ) /\ c \notin pcbFree
      /\ semdFree > 0 /\ StateCopy \in [Pcb -> StateOf] /\ c # NULL
      /\ dying = <<>>
  <2>1. c \in Pcb /\ c # NULL /\ dying = <<>>
    BY PcbAssumption DEF IInv, Mode
  <2> QED BY <2>1, RunningFacts
<1>2. /\ asl' = [asl EXCEPT ![a] = Append(@, c)]
      /\ semdFree' = IF asl[a] = <<>> THEN semdFree - 1 ELSE semdFree
      /\ p_semAdd' = [p_semAdd EXCEPT ![c] = a]
  BY <1>1, Descriptors DEF InsertBlocked, IInv
<1>3. /\ Consistent(asl, semdFree, p_semAdd)
      /\ Differs(asl', asl, a, Append(asl[a], c)) /\ Differs(p_semAdd', p_semAdd, c, a)
  BY <1>2, Differing DEF IInv, TypeOK
<1>4. /\ Consistent(asl', semdFree', p_semAdd')
      /\ BlockedIn(p_semAdd') = BlockedIn(p_semAdd) \cup {c}
      /\ SoftIn(p_semAdd') = IF IsSoft(a) THEN SoftIn(p_semAdd) \cup {c} ELSE SoftIn(p_semAdd)
      /\ Len(asl'[a]) = Len(asl[a]) + 1
  <2>1. c \in Pcb /\ p_semAdd[c] = NULL
    BY <1>1
  <2>2. /\ Consistent(asl', IF asl[a] = <<>> THEN semdFree - 1 ELSE semdFree, p_semAdd')
        /\ BlockedIn(p_semAdd') = BlockedIn(p_semAdd) \cup {c}
        /\ SoftIn(p_semAdd') = IF IsSoft(a) THEN SoftIn(p_semAdd) \cup {c} ELSE SoftIn(p_semAdd)
        /\ Len(asl'[a]) = Len(asl[a]) + 1
    BY <1>3, <2>1, QueueGrows
  <2> QED BY <1>2, <2>2
<1>5. /\ IsQueue(readyQ, Pcb) /\ ToSet(readyQ) \subseteq Pcb
      /\ BlockedIn(p_semAdd) \subseteq Pcb /\ SoftIn(p_semAdd) \subseteq BlockedIn(p_semAdd)
      /\ Live = ToSet(readyQ) \cup BlockedIn(p_semAdd) \cup ({c} \ {NULL})
      /\ Live \subseteq Pcb
  BY Places
<1>6. softBlockCount' = Cardinality(SoftIn(p_semAdd'))
  <2>1. c \in Pcb \ SoftIn(p_semAdd) /\ SoftIn(p_semAdd) \subseteq Pcb
    BY <1>1, <1>5 DEF BlockedIn
  <2>2. softBlockCount = Cardinality(SoftIn(p_semAdd))
    BY DEF IInv
  <2> QED BY <1>4, <2>1, <2>2, PcbSubset
<1>7. Balanced(semaphore', asl') /\ semaphore' \in [SemAdd -> Int]
  <2>1. Balanced(semaphore, asl) /\ semaphore \in [SemAdd -> Int]
    BY DEF IInv, TypeOK
  <2>2. Len(asl[a]) \in Nat /\ asl[a] = <<>> => Len(asl[a]) = 0
    BY <1>3, QueueOf
  <2>3. /\ semaphore'[a] = semaphore[a] - 1 /\ Len(asl'[a]) = Len(asl[a]) + 1
        /\ \A b \in SemAdd \ {a} : semaphore'[b] = semaphore[b] /\ asl'[b] = asl[b]
    BY <1>2, <1>4, <2>1 DEF IInv, TypeOK
  <2>4. semaphore[a] \in Int /\ semaphore[a] <= 0
    BY <2>1
  <2>5. Balanced(semaphore', asl')
    BY <2>1, <2>2, <2>3, <2>4 DEF Balanced
  <2> QED BY <2>1, <2>5
<1>8. SemsOK'
  BY <1>4, <1>6, <1>7 DEF SemsOK
<1>9. /\ ToSet(readyQ) \cap (BlockedIn(p_semAdd') \cup pcbFree) = {}
      /\ BlockedIn(p_semAdd') \cap pcbFree = {}
  BY <1>1, <1>4 DEF IInv, Apart
<1>10. processCount' = Cardinality(ToSet(readyQ) \cup BlockedIn(p_semAdd'))
  <2>1. Live = ToSet(readyQ) \cup BlockedIn(p_semAdd')
    BY <1>1, <1>4, <1>5
  <2> QED BY <2>1 DEF IInv, ProcessAccounting, procVars
<1>11. dying' = <<>> /\ UNCHANGED <<pcbFree, p_child, p_supportStruct>>
  BY <1>1 DEF procVars
<1> QED BY <1>1, <1>5, <1>8, <1>9, <1>10, <1>11, EndsInScheduler

\* What SYS4 and the device interrupts leave: the first waiter of a, if any, is
\* ready, and nobody is anywhere else than before.
LEMMA VEffect ==
    ASSUME IInv, NEW a \in Sema4 \cup Device, V(a),
           softBlockCount' = IF Signals(a) /\ IsSoft(a) THEN softBlockCount - 1
                                                        ELSE softBlockCount
    PROVE  /\ SemsOK'
           /\ IsQueue(ReadyAfterV(a), Pcb)
           /\ ToSet(ReadyAfterV(a)) \cup BlockedIn(p_semAdd') =
                  ToSet(readyQ) \cup BlockedIn(p_semAdd)
           /\ ToSet(ReadyAfterV(a)) \cap BlockedIn(p_semAdd') = {}
<1> DEFINE rq == ReadyAfterV(a)
<1>1. /\ a \in SemAdd /\ a # Clock
      /\ semaphore' = [semaphore EXCEPT ![a] = @ + 1]
      /\ semaphore \in [SemAdd -> Int] /\ semaphore' \in [SemAdd -> Int]
      /\ semaphore'[a] = semaphore[a] + 1 /\ semaphore[a] \in Int
      /\ \A b \in SemAdd \ {a} : semaphore'[b] = semaphore[b]
  BY SemAddAssumption DEF V, SemAdd, IInv, TypeOK
<1>2. /\ Consistent(asl, semdFree, p_semAdd) /\ Balanced(semaphore, asl)
      /\ softBlockCount = Cardinality(SoftIn(p_semAdd))
      /\ Apart(readyQ, currentProc, p_semAdd, pcbFree)
  BY DEF IInv
<1>3. /\ IsQueue(readyQ, Pcb) /\ ToSet(readyQ) \subseteq Pcb
      /\ BlockedIn(p_semAdd) \subseteq Pcb /\ SoftIn(p_semAdd) \subseteq BlockedIn(p_semAdd)
      /\ SoftIn(p_semAdd) \subseteq Pcb
  BY Places
<1>4. /\ IsQueue(asl[a], Pcb) /\ ToSet(asl[a]) \subseteq BlockedIn(p_semAdd)
      /\ Len(asl[a]) \in Nat /\ asl[a] = <<>> <=> Len(asl[a]) = 0
  <2>1. IsQueue(asl[a], Pcb) /\ ToSet(asl[a]) \subseteq BlockedIn(p_semAdd)
    BY <1>1, <1>2, QueueOf
  <2> QED BY <2>1, QueueLength, EmptySeq DEF IsQueue
<1>5. asl[a] # <<>> => semaphore[a] + 1 <= 0
  <2>1. a \in Sema4 => Len(asl[a]) = IF semaphore[a] < 0 THEN -semaphore[a] ELSE 0
    BY <1>1, <1>2 DEF Balanced
  <2>2. a \in Device /\ asl[a] # <<>> => semaphore[a] <= -Len(asl[a])
    BY <1>1, <1>2 DEF Balanced
  <2> QED BY <1>1, <1>4, <2>1, <2>2
<1>6. CASE ~Signals(a)
  <2>1. asl[a] = <<>> /\ UNCHANGED <<asl, semdFree, p_semAdd, softBlockCount>> /\ rq = readyQ
    BY <1>5, <1>6 DEF Signals, V, ReadyAfterV
  <2>2. Balanced(semaphore', asl')
    <3>1. a \in Sema4 => Len(asl[a]) = IF semaphore[a] < 0 THEN -semaphore[a] ELSE 0
      BY <1>1, <1>2 DEF Balanced
    <3>2. a \in Sema4 => Len(asl[a]) = IF semaphore[a] + 1 < 0 THEN -(semaphore[a] + 1) ELSE 0
      BY <1>1, <1>4, <2>1, <3>1
    <3> QED BY <1>1, <1>2, <2>1, <3>2 DEF Balanced
  <2>3. SemsOK'
    BY <1>1, <1>2, <2>1, <2>2 DEF SemsOK
  <2> QED BY <1>2, <1>3, <2>1, <2>3 DEF Apart
<1>7. CASE Signals(a)
  <2> DEFINE h == Head(asl[a])
             r == Tail(asl[a])
  <2>1. /\ asl[a] # <<>> /\ asl' = [asl EXCEPT ![a] = r]
        /\ semdFree' = IF r = <<>> THEN semdFree + 1 ELSE semdFree
        /\ p_semAdd' = [p_semAdd EXCEPT ![h] = NULL]
        /\ rq = Append(readyQ, h)
    BY <1>7 DEF Signals, V, RemoveBlocked, Dequeue, ReadyAfterV
  <2>2. /\ h \in ToSet(asl[a]) /\ h \in Pcb /\ IsQueue(r, Pcb)
        /\ ToSet(r) = ToSet(asl[a]) \ {h} /\ Len(r) = Len(asl[a]) - 1
    BY <1>4, <2>1, QueueTail
  <2>3. Differs(asl', asl, a, r) /\ Differs(p_semAdd', p_semAdd, h, NULL)
    BY <2>1, Differing DEF IInv, TypeOK
  <2> HIDE DEF h, r
  <2>4. /\ Consistent(asl', IF r = <<>> THEN semdFree + 1 ELSE semdFree, p_semAdd')
        /\ BlockedIn(p_semAdd') = BlockedIn(p_semAdd) \ {h}
        /\ SoftIn(p_semAdd') = IF IsSoft(a) THEN SoftIn(p_semAdd) \ {h} ELSE SoftIn(p_semAdd)
        /\ p_semAdd[h] = a
    BY <1>1, <1>2, <2>2, <2>3, QueueShrinks
  <2>5. softBlockCount' = Cardinality(SoftIn(p_semAdd'))
    <3>1. IsSoft(a) => h \in SoftIn(p_semAdd)
      BY <2>2, <2>4 DEF SoftIn, IsSoft
    <3> QED BY <1>2, <1>3, <1>7, <2>4, <3>1, PcbSubset
  <2>6. Balanced(semaphore', asl')
    <3>1. /\ asl'[a] = r /\ Len(r) = Len(asl[a]) - 1
          /\ \A b \in SemAdd \ {a} : asl'[b] = asl[b]
      BY <1>1, <2>1, <2>2 DEF IInv, TypeOK
    <3>2. a \in Sema4 => Len(r) = IF semaphore[a] + 1 < 0 THEN -(semaphore[a] + 1) ELSE 0
      <4>1. a \in Sema4 => Len(asl[a]) = IF semaphore[a] < 0 THEN -semaphore[a] ELSE 0
        BY <1>1, <1>2 DEF Balanced
      <4> QED BY <1>1, <1>4, <1>5, <2>1, <2>2, <4>1
    <3>3. a \in Device => semaphore[a] + 1 <= -Len(r)
      <4>1. a \in Device => semaphore[a] <= -Len(asl[a])
        BY <1>1, <1>2, <2>1 DEF Balanced
      <4> QED BY <1>1, <1>4, <2>2, <4>1
    <3> QED BY <1>1, <1>2, <3>1, <3>2, <3>3 DEF Balanced
  <2>7. SemsOK'
    BY <1>1, <2>1, <2>4, <2>5, <2>6 DEF SemsOK
  <2>8. IsQueue(rq, Pcb) /\ ToSet(rq) = ToSet(readyQ) \cup {h}
    <3>1. h \notin ToSet(readyQ)
      BY <1>2, <1>4, <2>2 DEF Apart
    <3> QED BY <1>3, <2>1, <2>2, <3>1, QueueAppend
  <2> QED BY <1>2, <1>4, <2>2, <2>4, <2>7, <2>8 DEF Apart
<1> QED BY <1>6, <1>7

\* A V whose handler goes on with the current process.
LEMMA VReturns ==
    ASSUME IInv, cpu = "run", NEW a \in Sema4 \cup Device, V(a),
           softBlockCount' = IF Signals(a) /\ IsSoft(a) THEN softBlockCount - 1
                                                        ELSE softBlockCount,
           readyQ' = ReadyAfterV(a), Resume(StateCopy), UNCHANGED <<procVars, dying>>
    PROVE  IInv'
<1>1. /\ SemsOK' /\ IsQueue(readyQ', Pcb)
      /\ ToSet(readyQ') \cup BlockedIn(p_semAdd') = ToSet(readyQ) \cup BlockedIn(p_semAdd)
      /\ ToSet(readyQ') \cap BlockedIn(p_semAdd') = {}
  BY VEffect
<1>2. currentProc \in Pcb /\ currentProc # NULL
  BY PcbAssumption DEF IInv, Mode
<1>3. p_s' \in [Pcb -> StateOf] /\ UNCHANGED <<currentProc, cpu>>
  BY <1>2, RunningFacts DEF Resume, Load, StateOf
<1>4. Apart(readyQ', currentProc, p_semAdd', pcbFree')
  <2>1. Apart(readyQ, currentProc, p_semAdd, pcbFree) /\ pcbFree' = pcbFree
    BY DEF IInv, procVars
  <2> QED BY <1>1, <2>1 DEF Apart, IsQueue
<1>5. processCount' = Cardinality(ToSet(readyQ') \cup BlockedIn(p_semAdd') \cup {currentProc})
  <2>1. Live = ToSet(readyQ') \cup BlockedIn(p_semAdd') \cup {currentProc}
    BY <1>1, <1>2, Places
  <2> QED BY <2>1 DEF IInv, ProcessAccounting, procVars
<1>6. /\ pcbFree' \subseteq Pcb /\ p_child' \in [Pcb -> Seq(Pcb)]
      /\ p_supportStruct' \in [Pcb -> Support \cup {NULL}] /\ dying' = dying
  BY DEF IInv, TypeOK, procVars
<1> QED BY <1>1, <1>2, <1>3, <1>4, <1>5, <1>6, EndsInReturn

\* Nothing but what p_s holds changes.
LEMMA StateChanges ==
    ASSUME IInv, UNCHANGED <<procVars, semVars, readyQ, currentProc, dying, cpu>>,
           p_s' \in [Pcb -> StateOf]
    PROVE  IInv'
BY DEF IInv, TypeOK, Consistent, Used, Apart, BlockedIn, SoftIn, ProcessAccounting, Live,
       Ready, Blocked, Running, Balanced, Mode, InKernel, procVars, semVars

\* A P that does not block.
LEMMA Decrements ==
    ASSUME IInv, NEW a \in SemAdd, semaphore' = [semaphore EXCEPT ![a] = @ - 1],
           ~(semaphore'[a] < 0),
           UNCHANGED <<procVars, asl, semdFree, p_semAdd, softBlockCount, readyQ,
                       currentProc, dying, cpu>>,
           p_s' \in [Pcb -> StateOf]
    PROVE  IInv'
<1>1. /\ semaphore \in [SemAdd -> Int] /\ semaphore' \in [SemAdd -> Int]
      /\ semaphore'[a] = semaphore[a] - 1
      /\ \A b \in SemAdd \ {a} : semaphore'[b] = semaphore[b]
  BY DEF IInv, TypeOK
<1>2. Balanced(semaphore', asl')
  <2>1. Consistent(asl, semdFree, p_semAdd) /\ Balanced(semaphore, asl)
    BY DEF IInv
  <2>2. Len(asl[a]) \in Nat /\ IsQueue(asl[a], Pcb)
    BY <2>1, QueueOf
  <2>3. asl[a] # <<>> => Len(asl[a]) > 0
    BY <2>2, EmptySeq DEF IsQueue
  <2>4. a \in Sema4 => Len(asl[a]) = IF semaphore[a] - 1 < 0 THEN -(semaphore[a] - 1) ELSE 0
    BY <1>1, <2>1, <2>2 DEF Balanced
  <2>5. a \in Device => asl[a] = <<>>
    BY <1>1, <2>1, <2>2, <2>3 DEF Balanced
  <2>6. a # Clock
    BY <1>1, <2>1, <2>2 DEF Balanced
  <2> QED BY <1>1, <2>1, <2>4, <2>5, <2>6 DEF Balanced
<1> QED
  BY <1>1, <1>2 DEF IInv, TypeOK, Consistent, Used, Apart, BlockedIn, SoftIn,
     ProcessAccounting, Live, Ready, Blocked, Running, Mode, InKernel, procVars

----------------------------------------------------------------------------
(* The actions, one by one.                                                *)

\* Handlers run when a process does.
LEMMA Current ==
    ASSUME IInv, cpu = "run"
    PROVE  /\ currentProc \in Pcb /\ currentProc # NULL /\ dying = <<>>
           /\ StateCopy \in [Pcb -> StateOf]
           /\ \A ps \in [Pcb -> StateOf], p \in Pcb : Load(ps, p) \in [Pcb -> StateOf]
<1>1. currentProc \in Pcb /\ currentProc # NULL /\ dying = <<>>
  BY PcbAssumption DEF IInv, Mode
<1>2. \A ps \in [Pcb -> StateOf], p \in Pcb : Load(ps, p) \in [Pcb -> StateOf]
  BY DEF Load, StateOf
<1> QED BY <1>1, <1>2, RunningFacts

\* SYS3.
LEMMA PasserenStep ==
    ASSUME IInv, NEW s \in Sema4, Passeren(s)
    PROVE  IInv'
<1>1. s \in SemAdd /\ ~IsSoft(s)
  BY SemAddAssumption DEF SemAdd, IsSoft
<1>2. semaphore'[s] = semaphore[s] - 1
  BY <1>1 DEF Passeren, IInv, TypeOK
<1>3. CASE semaphore'[s] < 0
  BY <1>1, <1>2, <1>3, Blocks DEF Passeren
<1>4. CASE ~(semaphore'[s] < 0)
  <2>1. p_s' \in [Pcb -> StateOf]
    BY <1>4, Current DEF Passeren, Resume
  <2> QED BY <1>1, <1>4, <2>1, Decrements DEF Passeren, Resume
<1> QED BY <1>3, <1>4

\* SYS4.
LEMMA VerhogenStep ==
    ASSUME IInv, NEW s \in Sema4, Verhogen(s)
    PROVE  IInv'
<1>1. ~IsSoft(s)
  BY SemAddAssumption DEF IsSoft
<1> QED BY <1>1, VReturns DEF Verhogen

\* SYS5.
LEMMA WaitForDeviceStep ==
    ASSUME IInv, NEW d \in Device, WaitForDevice(d)
    PROVE  IInv'
<1>1. d \in SemAdd /\ IsSoft(d)
  BY DEF SemAdd, IsSoft
<1>2. semaphore'[d] = semaphore[d] - 1
  BY <1>1 DEF WaitForDevice, IInv, TypeOK
<1>3. CASE semaphore'[d] < 0
  BY <1>1, <1>2, <1>3, Blocks DEF WaitForDevice
<1>4. CASE ~(semaphore'[d] < 0)
  <2>0. p_s \in [Pcb -> StateOf]
    BY DEF IInv, TypeOK
  <2>1. p_s' \in [Pcb -> StateOf]
    BY <1>4, <2>0, Current DEF WaitForDevice, Resume
  <2> QED BY <1>1, <1>4, <2>1, Decrements DEF WaitForDevice, Resume
<1> QED BY <1>3, <1>4

\* SYS6 and SYS8.
LEMMA GetInfoStep ==
    ASSUME IInv, GetInfo
    PROVE  IInv'
<1>1. p_s' \in [Pcb -> StateOf]
  BY Current DEF GetInfo, Resume
<1> QED BY <1>1, StateChanges DEF GetInfo, Resume

\* The pseudo-clock never rises above 0, so that SYS7 always blocks.
LEMMA WaitForClockStep ==
    ASSUME IInv, WaitForClock
    PROVE  IInv'
<1>1. Clock \in SemAdd /\ IsSoft(Clock)
  BY DEF SemAdd, IsSoft
<1>2. semaphore'[Clock] = semaphore[Clock] - 1 /\ semaphore[Clock] \in Int
  BY <1>1 DEF WaitForClock, IInv, TypeOK
<1>3. semaphore[Clock] <= -Len(asl[Clock]) /\ Len(asl[Clock]) \in Nat
  BY <1>1, QueueOf DEF IInv, Balanced
<1>4. semaphore'[Clock] < 0
  BY <1>2, <1>3
<1> QED BY <1>1, <1>2, <1>4, Blocks DEF WaitForClock

\* SYS1: the new pcb leaves the free list for the ready queue.
LEMMA CreateProcessStep ==
    ASSUME IInv, NEW sup \in Support \cup {NULL}, CreateProcess(sup)
    PROVE  IInv'
<1>1. CASE pcbFree = {}
  <2>1. /\ UNCHANGED <<procVars, semVars, readyQ, currentProc, dying, cpu>>
        /\ p_s' = Load(StateCopy, currentProc) /\ cpu = "run"
    BY <1>1 DEF CreateProcess, Resume
  <2>2. p_s' \in [Pcb -> StateOf]
    BY <2>1, Current
  <2> QED BY <2>1, <2>2, StateChanges
<1>2. CASE pcbFree # {}
  <2>1. PICK p \in pcbFree :
              /\ cpu = "run"
              /\ pcbFree' = pcbFree \ {p}
              /\ processCount' = processCount + 1
              /\ p_supportStruct' = [p_supportStruct EXCEPT ![p] = sup]
              /\ p_semAdd' = [p_semAdd EXCEPT ![p] = NULL]
              /\ p_child' = NewChildren(p)
              /\ readyQ' = Append(readyQ, p)
              /\ p_s' = Load([StateCopy EXCEPT ![p] = "saved"], currentProc)
              /\ UNCHANGED <<semaphore, asl, semdFree, softBlockCount, dying,
                             currentProc, cpu>>
    BY <1>2 DEF CreateProcess, Resume
  <2>2. /\ Apart(readyQ, currentProc, p_semAdd, pcbFree) /\ pcbFree \subseteq Pcb
        /\ p_semAdd \in [Pcb -> SemAdd \cup {NULL}] /\ p_child \in [Pcb -> Seq(Pcb)]
        /\ p_supportStruct \in [Pcb -> Support \cup {NULL}]
        /\ processCount = Cardinality(Live)
    BY DEF IInv, TypeOK, ProcessAccounting
  <2>3. /\ currentProc \in Pcb /\ currentProc # NULL /\ StateCopy \in [Pcb -> StateOf]
        /\ currentProc \notin pcbFree /\ p \in Pcb
    BY <2>1, <2>2, Current, RunningFacts
  <2>4. /\ IsQueue(readyQ, Pcb) /\ ToSet(readyQ) \subseteq Pcb
        /\ BlockedIn(p_semAdd) \subseteq Pcb
        /\ Live = ToSet(readyQ) \cup BlockedIn(p_semAdd) \cup {currentProc}
        /\ Live \subseteq Pcb
    BY <2>3, Places
  <2>5. p \notin ToSet(readyQ) /\ p \notin BlockedIn(p_semAdd) /\ p \notin Live
    BY <2>2, <2>3, <2>4 DEF Apart
  <2>6. p_semAdd' = p_semAdd
    BY <2>1, <2>2, <2>3, <2>5 DEF BlockedIn
  <2>7. SemsOK'
    BY <2>1, <2>6 DEF SemsOK, IInv, TypeOK, Consistent, Used, SoftIn, Balanced
  <2>8. IsQueue(readyQ', Pcb) /\ ToSet(readyQ') = ToSet(readyQ) \cup {p}
    BY <2>1, <2>3, <2>4, <2>5, QueueAppend
  <2>9. Apart(readyQ', currentProc, p_semAdd', pcbFree')
    <3>1. pcbFree' = pcbFree \ {p} /\ Apart(readyQ, currentProc, p_semAdd, pcbFree)
      BY <2>1, <2>2
    <3>2. p \in pcbFree /\ p # currentProc
      BY <2>3
    <3>3. currentProc \notin pcbFree'
      BY <3>1, <3>2 DEF Apart
    <3>4. BlockedIn(p_semAdd') \cap (({currentProc} \ {NULL}) \cup pcbFree') = {}
      BY <2>6, <3>1, <3>2 DEF Apart
    <3>5. ToSet(readyQ') \cap (BlockedIn(p_semAdd') \cup ({currentProc} \ {NULL}) \cup pcbFree') = {}
      BY <2>5, <2>6, <2>8, <3>1, <3>2 DEF Apart
    <3> QED BY <2>8, <3>3, <3>4, <3>5 DEF Apart, IsQueue
  <2>10. processCount' = Cardinality(ToSet(readyQ') \cup BlockedIn(p_semAdd') \cup {currentProc})
    <3>1. ToSet(readyQ') \cup BlockedIn(p_semAdd') \cup {currentProc} = Live \cup {p}
      BY <2>4, <2>6, <2>8
    <3>2. Cardinality(Live \cup {p}) = Cardinality(Live) + 1
      BY <2>3, <2>4, <2>5, PcbSubset
    <3> QED BY <2>1, <2>2, <3>1, <3>2
  <2>11. p_s' \in [Pcb -> StateOf]
    <3>1. [StateCopy EXCEPT ![p] = "saved"] \in [Pcb -> StateOf]
      BY <2>3 DEF StateOf
    <3> QED BY <2>1, <3>1, Current
  <2>12. p_child' \in [Pcb -> Seq(Pcb)]
    <3>1. <<p>> \o p_child[currentProc] \in Seq(Pcb) /\ <<>> \in Seq(Pcb)
      BY <2>2, <2>3
    <3>2. (IF pcbFree = {p} THEN p_child[p] ELSE <<>>) \in Seq(Pcb)
      BY <2>2, <2>3, <3>1
    <3> QED BY <2>1, <2>2, <2>3, <3>1, <3>2 DEF NewChildren
  <2>13. p_supportStruct' \in [Pcb -> Support \cup {NULL}] /\ pcbFree' \subseteq Pcb
    BY <2>1, <2>2
  <2> QED
    BY <2>1, <2>3, <2>7, <2>8, <2>9, <2>10, <2>11, <2>12, <2>13, EndsInReturn
<1> QED BY <1>1, <1>2

\* SYS2, and a process that dies of an exception: the recursion begins.
LEMMA TerminateStep ==
    ASSUME IInv, cpu = "run", Terminate
    PROVE  IInv'
<1>1. currentProc \in Pcb /\ dying' = <<currentProc>> /\ cpu' = "terminate"
  BY Current DEF Terminate
<1>2. /\ dying' \in Seq(Pcb) /\ dying' # <<>> /\ dying'[Len(dying')] = currentProc
  BY <1>1
<1>3. TypeOK'
  BY <1>1, <1>2 DEF IInv, TypeOK, Terminate, procVars, semVars, CpuState
<1>4. Mode'
  BY <1>1, <1>2 DEF Mode, InKernel, Terminate
<1> QED
  BY <1>3, <1>4 DEF IInv, Terminate, Consistent, Used, Apart, BlockedIn, SoftIn,
     ProcessAccounting, Live, Ready, Blocked, Running, Balanced, procVars, semVars

----------------------------------------------------------------------------
(* terminateProcess.                                                       *)

\* Where the call in progress is, and that its caller is still there.
LEMMA DyingFacts ==
    ASSUME IInv, InKernel
    PROVE  /\ dying \in Seq(Pcb) /\ dying # <<>> /\ Head(dying) \in Pcb
           /\ dying[Len(dying)] = currentProc /\ currentProc \in Pcb /\ currentProc # NULL
           /\ cpu \in {"terminate", "dispose"}
<1>1. dying \in Seq(Pcb) /\ dying # <<>> /\ dying[Len(dying)] = currentProc
  BY DEF IInv, TypeOK, Mode
<1>2. currentProc \in Pcb /\ currentProc # NULL
  BY PcbAssumption DEF IInv, Mode
<1>3. Head(dying) \in Pcb
  BY <1>1
<1> QED BY <1>1, <1>2, <1>3 DEF InKernel

\* The recursion goes one call deeper.
LEMMA TerminateChildStep ==
    ASSUME IInv, TerminateChild
    PROVE  IInv'
<1> DEFINE p == Head(dying)
<1>1. /\ cpu = "terminate" /\ p_child[p] # <<>>
      /\ dying' = <<Head(p_child[p])>> \o dying
      /\ p_child' = [p_child EXCEPT ![p] = OtherChildren(p)]
      /\ UNCHANGED <<pcbFree, p_supportStruct, processCount, semVars, readyQ,
                     currentProc, p_s, cpu>>
  BY DEF TerminateChild
<1>2. dying \in Seq(Pcb) /\ dying # <<>> /\ p \in Pcb /\ dying[Len(dying)] = currentProc
  BY <1>1, DyingFacts DEF InKernel
<1> HIDE DEF p
<1>3. p_child \in [Pcb -> Seq(Pcb)] /\ p_child[p] \in Seq(Pcb)
  BY <1>2 DEF IInv, TypeOK
<1>4. Head(p_child[p]) \in Pcb /\ Tail(p_child[p]) \in Seq(Pcb)
  BY <1>1, <1>3
<1>5. p_child' \in [Pcb -> Seq(Pcb)]
  BY <1>1, <1>3, <1>4 DEF OtherChildren
<1>6. /\ dying' \in Seq(Pcb) /\ dying' # <<>> /\ Len(dying') = Len(dying) + 1
      /\ Len(dying) \in Nat \ {0} /\ \A i \in 1 .. Len(dying) : dying'[i + 1] = dying[i]
  BY <1>1, <1>2, <1>4
<1>7. dying'[Len(dying')] = currentProc
  BY <1>2, <1>6
<1>8. TypeOK'
  BY <1>1, <1>5, <1>6 DEF IInv, TypeOK, semVars
<1>9. Mode'
  BY <1>1, <1>6, <1>7 DEF IInv, Mode, InKernel
<1> QED
  BY <1>1, <1>8, <1>9 DEF IInv, Consistent, Used, Apart, BlockedIn, SoftIn,
     ProcessAccounting, Live, Ready, Blocked, Running, Balanced, semVars

\* A call for a descendant returns; its caller is next on the stack.
LEMMA DisposeChildStep ==
    ASSUME IInv, DisposeChild
    PROVE  IInv'
<1> DEFINE p == Head(dying)
<1>1. /\ cpu = "dispose" /\ p # currentProc
      /\ pcbFree' = pcbFree \cup {p} /\ dying' = Tail(dying) /\ cpu' = "terminate"
      /\ UNCHANGED <<p_child, p_supportStruct, processCount, semVars, readyQ,
                     currentProc, p_s>>
  BY DEF DisposeChild
<1>2. dying \in Seq(Pcb) /\ dying # <<>> /\ p \in Pcb /\ dying[Len(dying)] = currentProc
  BY <1>1, DyingFacts DEF InKernel
<1>3. Len(dying) \in Nat /\ Len(dying) > 1
  <2>1. Len(dying) \in Nat /\ Len(dying) > 0 /\ p = dying[1]
    BY <1>2
  <2> QED BY <1>1, <1>2, <2>1
<1>4. /\ dying' \in Seq(Pcb) /\ dying' # <<>> /\ Len(dying') = Len(dying) - 1
      /\ dying'[Len(dying) - 1] = dying[Len(dying)]
  BY <1>1, <1>2, <1>3
<1>5. p \notin Ready /\ p_semAdd[p] = NULL /\ currentProc \in Pcb
  BY <1>1 DEF IInv, Mode, InKernel
<1> HIDE DEF p
<1>6. TypeOK'
  BY <1>1, <1>2, <1>4 DEF IInv, TypeOK, semVars, CpuState
<1>7. Mode'
  BY <1>1, <1>2, <1>4, <1>5 DEF Mode, InKernel
<1>8. Apart(readyQ', currentProc', p_semAdd', pcbFree')
  <2>1. UNCHANGED <<readyQ, currentProc, p_semAdd>> /\ p \notin BlockedIn(p_semAdd)
    BY <1>1, <1>5 DEF semVars, BlockedIn
  <2>2. Apart(readyQ, currentProc, p_semAdd, pcbFree) /\ p \notin ToSet(readyQ)
    BY <1>5 DEF IInv, Ready
  <2> QED BY <1>1, <2>1, <2>2 DEF Apart
<1> QED
  BY <1>1, <1>6, <1>7, <1>8 DEF IInv, Consistent, Used, BlockedIn, SoftIn,
     ProcessAccounting, Live, Ready, Blocked, Running, Balanced, semVars

\* The pcb of the call in progress has been taken out of its queue.
LEMMA EndsInDispose ==
    ASSUME IInv, SemsOK', cpu = "terminate", cpu' = "dispose",
           UNCHANGED <<pcbFree, p_child, p_supportStruct, currentProc, p_s, dying>>,
           IsQueue(readyQ', Pcb),
           Apart(readyQ', currentProc, p_semAdd', pcbFree),
           Head(dying) \notin ToSet(readyQ'), p_semAdd'[Head(dying)] = NULL,
           processCount' = Cardinality(ToSet(readyQ') \cup BlockedIn(p_semAdd') \cup {currentProc})
    PROVE  IInv'
<1>1. /\ dying \in Seq(Pcb) /\ dying # <<>>
      /\ dying[Len(dying)] = currentProc /\ currentProc \in Pcb /\ currentProc # NULL
  BY DyingFacts DEF InKernel
<1>2. /\ Live' = ToSet(readyQ') \cup BlockedIn(p_semAdd') \cup {currentProc}
      /\ Live' \subseteq Pcb
  <2>1. Live' = ToSet(readyQ') \cup BlockedIn(p_semAdd') \cup ({currentProc'} \ {NULL})
    BY DEF Live, Ready, Blocked, Running, BlockedIn
  <2>2. ToSet(readyQ') \subseteq Pcb
    BY QueueLength
  <2> QED BY <1>1, <2>1, <2>2 DEF BlockedIn
<1>3. ProcessAccounting' /\ processCount' \in Nat
  BY <1>2, PcbSubset DEF ProcessAccounting
<1>4. TypeOK'
  <2>1. /\ readyQ' \in Seq(Pcb) /\ cpu' \in CpuState /\ dying' \in Seq(Pcb)
        /\ semaphore' \in [SemAdd -> Int] /\ currentProc' \in Pcb \cup {NULL}
    BY <1>1 DEF IsQueue, SemsOK, CpuState
  <2>2. /\ pcbFree' \subseteq Pcb /\ p_child' \in [Pcb -> Seq(Pcb)]
        /\ p_supportStruct' \in [Pcb -> Support \cup {NULL}] /\ p_s' \in [Pcb -> StateOf]
    BY DEF IInv, TypeOK
  <2> QED BY <1>3, <2>1, <2>2, SemTypes DEF TypeOK
<1>5. Mode'
  BY <1>1 DEF Mode, InKernel, Ready
<1> QED BY <1>3, <1>4, <1>5 DEF IInv, SemsOK

\* A blocked process dies: it leaves its queue and the counter it was in.
LEMMA UnlinkBlockedStep ==
    ASSUME IInv, UnlinkBlocked
    PROVE  IInv'
<1> DEFINE p == Head(dying)
           a == p_semAdd[p]
           r == RemoveFirst(asl[a], p)
<1>1. /\ cpu = "terminate" /\ a # NULL /\ cpu' = "dispose"
      /\ IF IsSoft(a)
         THEN softBlockCount' = softBlockCount - 1 /\ UNCHANGED semaphore
         ELSE semaphore' = Incremented(a) /\ UNCHANGED softBlockCount
      /\ asl' = [asl EXCEPT ![a] = r]
      /\ semdFree' = IF r = <<>> THEN semdFree + 1 ELSE semdFree
      /\ p_semAdd' = [p_semAdd EXCEPT ![p] = NULL]
      /\ processCount' = processCount - 1
      /\ UNCHANGED <<pcbFree, p_child, p_supportStruct, readyQ, currentProc, p_s, dying>>
  BY DEF UnlinkBlocked, OutBlocked, Dequeue
<1>2. /\ dying \in Seq(Pcb) /\ dying # <<>> /\ p \in Pcb
      /\ currentProc \in Pcb /\ currentProc # NULL
  BY <1>1, DyingFacts DEF InKernel
<1>3. /\ Consistent(asl, semdFree, p_semAdd) /\ Balanced(semaphore, asl)
      /\ softBlockCount = Cardinality(SoftIn(p_semAdd))
      /\ Apart(readyQ, currentProc, p_semAdd, pcbFree)
      /\ semaphore \in [SemAdd -> Int] /\ processCount = Cardinality(Live)
      /\ p_semAdd \in [Pcb -> SemAdd \cup {NULL}] /\ asl \in [SemAdd -> Seq(Pcb)]
  BY DEF IInv, TypeOK, ProcessAccounting
<1>4. /\ IsQueue(readyQ, Pcb) /\ ToSet(readyQ) \subseteq Pcb
      /\ BlockedIn(p_semAdd) \subseteq Pcb /\ SoftIn(p_semAdd) \subseteq Pcb
      /\ Live = ToSet(readyQ) \cup BlockedIn(p_semAdd) \cup {currentProc}
      /\ Live \subseteq Pcb
  BY <1>2, Places
<1> HIDE DEF p, a
<1>5. a \in SemAdd /\ p_semAdd[p] = a
  BY <1>1, <1>2, <1>3 DEF a
<1>6. IsQueue(asl[a], Pcb) /\ p \in ToSet(asl[a]) /\ Len(asl[a]) \in Nat
  BY <1>2, <1>3, <1>5, QueueOf
<1>7. IsQueue(r, Pcb) /\ ToSet(r) = ToSet(asl[a]) \ {p} /\ Len(r) = Len(asl[a]) - 1
  BY <1>6, QueueRemove
<1>8. Differs(asl', asl, a, r) /\ Differs(p_semAdd', p_semAdd, p, NULL)
  BY <1>1, <1>3, Differing
<1> HIDE DEF r
<1>9. /\ Consistent(asl', IF r = <<>> THEN semdFree + 1 ELSE semdFree, p_semAdd')
      /\ BlockedIn(p_semAdd') = BlockedIn(p_semAdd) \ {p}
      /\ SoftIn(p_semAdd') = IF IsSoft(a) THEN SoftIn(p_semAdd) \ {p} ELSE SoftIn(p_semAdd)
  <2>1. Consistent(asl, semdFree, p_semAdd) /\ a \in SemAdd /\ p \in ToSet(asl[a])
    BY <1>3, <1>5, <1>6
  <2>2. IsQueue(r, Pcb) /\ ToSet(r) = ToSet(asl[a]) \ {p}
    BY <1>7
  <2> QED BY <1>8, <2>1, <2>2, QueueShrinks
<1>10. softBlockCount' = Cardinality(SoftIn(p_semAdd'))
  <2>1. IsSoft(a) => p \in SoftIn(p_semAdd)
    BY <1>2, <1>5 DEF SoftIn, IsSoft
  <2>2. /\ softBlockCount = Cardinality(SoftIn(p_semAdd))
        /\ softBlockCount' = IF IsSoft(a) THEN softBlockCount - 1 ELSE softBlockCount
    BY <1>1, <1>3
  <2>3. IsSoft(a) =>
           Cardinality(SoftIn(p_semAdd) \ {p}) = Cardinality(SoftIn(p_semAdd)) - 1
    BY <1>4, <2>1, PcbSubset
  <2> QED BY <1>9, <2>2, <2>3
<1>11. Balanced(semaphore', asl') /\ semaphore' \in [SemAdd -> Int]
  <2>1. asl'[a] = r /\ \A b \in SemAdd \ {a} : asl'[b] = asl[b]
    BY <1>1, <1>3, <1>5
  <2>2. CASE IsSoft(a)
    <3>1. semaphore' = semaphore /\ a \notin Sema4
      BY <1>1, <2>2, SemAddAssumption DEF IsSoft
    <3>2. asl[a] # <<>> /\ semaphore[a] \in Int
      BY <1>3, <1>5, <1>6, QueueLength
    <3>3. semaphore[a] <= -Len(asl[a])
      BY <1>3, <1>5, <2>2, <3>2 DEF Balanced, IsSoft
    <3>4. semaphore[a] <= -Len(r)
      BY <1>6, <1>7, <3>2, <3>3
    <3> QED BY <1>3, <2>1, <3>1, <3>4 DEF Balanced
  <2>3. CASE ~IsSoft(a)
    <3>1. a \in Sema4 /\ a \notin Device /\ a # Clock
      BY <1>5, <2>3 DEF IsSoft, SemAdd
    <3>2. /\ semaphore' \in [SemAdd -> Int] /\ semaphore'[a] = semaphore[a] + 1
          /\ semaphore[a] \in Int
          /\ \A b \in SemAdd \ {a} : semaphore'[b] = semaphore[b]
      BY <1>1, <1>3, <1>5, <2>3 DEF Incremented
    <3>3. Len(asl[a]) = IF semaphore[a] < 0 THEN -semaphore[a] ELSE 0
      BY <1>3, <1>5, <3>1 DEF Balanced
    <3>4. Len(asl[a]) > 0
      BY <1>6, QueueLength, EmptySeq DEF IsQueue
    <3>5. Len(r) = IF semaphore'[a] < 0 THEN -semaphore'[a] ELSE 0
      BY <1>7, <3>2, <3>3, <3>4
    <3> QED BY <1>3, <2>1, <3>1, <3>2, <3>5 DEF Balanced
  <2> QED BY <2>2, <2>3
<1>12. SemsOK'
  BY <1>1, <1>9, <1>10, <1>11 DEF SemsOK
<1>13. Apart(readyQ', currentProc, p_semAdd', pcbFree)
  BY <1>1, <1>3, <1>9 DEF Apart
<1>14. /\ p \in BlockedIn(p_semAdd) /\ p \notin ToSet(readyQ) /\ p # currentProc
       /\ p_semAdd'[p] = NULL
  <2>1. p \in BlockedIn(p_semAdd)
    BY <1>1, <1>2, <1>5 DEF BlockedIn
  <2>2. p_semAdd'[p] = NULL
    BY <1>1, <1>2, <1>3
  <2> QED BY <1>2, <1>3, <2>1, <2>2 DEF Apart
<1>15. processCount' = Cardinality(ToSet(readyQ') \cup BlockedIn(p_semAdd') \cup {currentProc})
  <2>1. ToSet(readyQ') \cup BlockedIn(p_semAdd') \cup {currentProc} = Live \ {p} /\ p \in Live
    BY <1>1, <1>4, <1>9, <1>14
  <2>2. Cardinality(Live \ {p}) = Cardinality(Live) - 1
    BY <1>4, <2>1, PcbSubset
  <2> QED BY <1>1, <1>3, <2>1, <2>2
<1>16. IsQueue(readyQ', Pcb) /\ p \notin ToSet(readyQ')
  BY <1>1, <1>4, <1>14
<1> QED
  BY <1>1, <1>12, <1>13, <1>14, <1>15, <1>16, EndsInDispose DEF p

\* A ready process dies; a pcb that is in no queue is not counted.
LEMMA UnlinkReadyStep ==
    ASSUME IInv, UnlinkReady
    PROVE  IInv'
<1> DEFINE p == Head(dying)
<1>1. /\ cpu = "terminate" /\ p_semAdd[p] = NULL /\ cpu' = "dispose"
      /\ readyQ' = RemoveFirst(readyQ, p) /\ processCount' = CountWithout(p)
      /\ UNCHANGED <<pcbFree, p_child, p_supportStruct, semVars, currentProc, p_s, dying>>
  BY DEF UnlinkReady
<1>2. p \in Pcb /\ currentProc \in Pcb /\ currentProc # NULL
  BY <1>1, DyingFacts DEF InKernel
<1>3. /\ IsQueue(readyQ, Pcb)
      /\ Live = ToSet(readyQ) \cup BlockedIn(p_semAdd) \cup {currentProc}
      /\ Live \subseteq Pcb
  BY <1>2, Places
<1>4. /\ Apart(readyQ, currentProc, p_semAdd, pcbFree)
      /\ processCount = Cardinality(Live)
  BY DEF IInv, ProcessAccounting
<1> HIDE DEF p
<1>5. /\ IsQueue(readyQ', Pcb) /\ ToSet(readyQ') = ToSet(readyQ) \ {p}
      /\ processCount' = IF p \in ToSet(readyQ) THEN processCount - 1 ELSE processCount
  BY <1>1, <1>3, QueueRemove DEF CountWithout
<1>6. SemsOK' /\ p_semAdd' = p_semAdd
  BY <1>1 DEF IInv, TypeOK, semVars, SemsOK, Consistent, Used, SoftIn, Balanced
<1>7. Apart(readyQ', currentProc, p_semAdd', pcbFree)
  BY <1>4, <1>5, <1>6 DEF Apart, IsQueue
<1>8. processCount' = Cardinality(ToSet(readyQ') \cup BlockedIn(p_semAdd') \cup {currentProc})
  <2>1. CASE p \in ToSet(readyQ)
    <3>1. p \notin BlockedIn(p_semAdd) /\ p # currentProc
      BY <1>2, <1>4, <2>1 DEF Apart
    <3>2. p \in Live /\ ToSet(readyQ') \cup BlockedIn(p_semAdd') \cup {currentProc} = Live \ {p}
      BY <1>3, <1>5, <1>6, <2>1, <3>1
    <3>3. Cardinality(Live \ {p}) = Cardinality(Live) - 1
      BY <1>3, <3>2, PcbSubset
    <3> QED BY <1>4, <1>5, <2>1, <3>2, <3>3
  <2>2. CASE p \notin ToSet(readyQ)
    <3>1. ToSet(readyQ') \cup BlockedIn(p_semAdd') \cup {currentProc} = Live
      BY <1>3, <1>5, <1>6, <2>2
    <3> QED BY <1>4, <1>5, <2>2, <3>1
  <2> QED BY <2>1, <2>2
<1>9. p \notin ToSet(readyQ') /\ p_semAdd'[p] = NULL
  BY <1>1, <1>5, <1>6
<1> QED
  BY <1>1, <1>5, <1>6, <1>7, <1>8, <1>9, EndsInDispose DEF p

\* The process that called SYS2 is gone, and the scheduler takes over.
LEMMA DisposeCurrentStep ==
    ASSUME IInv, DisposeCurrent
    PROVE  IInv'
<1>1. /\ cpu = "dispose" /\ Head(dying) = currentProc
      /\ processCount' = processCount - 1 /\ dying' = <<>>
      /\ UNCHANGED <<pcbFree, p_child, p_supportStruct, semVars>>
      /\ Scheduler(readyQ, NULL, p_s)
  BY DEF DisposeCurrent
<1>2. currentProc \in Pcb /\ currentProc # NULL
  BY <1>1, DyingFacts DEF InKernel
<1>3. /\ IsQueue(readyQ, Pcb)
      /\ Live = ToSet(readyQ) \cup BlockedIn(p_semAdd) \cup {currentProc}
      /\ Live \subseteq Pcb
  BY <1>2, Places
<1>4. /\ Apart(readyQ, currentProc, p_semAdd, pcbFree)
      /\ processCount = Cardinality(Live) /\ p_s \in [Pcb -> StateOf]
  BY DEF IInv, TypeOK, ProcessAccounting
<1>5. SemsOK' /\ p_semAdd' = p_semAdd
  BY <1>1 DEF IInv, TypeOK, semVars, SemsOK, Consistent, Used, SoftIn, Balanced
<1>6. processCount' = Cardinality(ToSet(readyQ) \cup BlockedIn(p_semAdd'))
  <2>1. ToSet(readyQ) \cup BlockedIn(p_semAdd') = Live \ {currentProc} /\ currentProc \in Live
    BY <1>2, <1>3, <1>4, <1>5 DEF Apart
  <2>2. Cardinality(Live \ {currentProc}) = Cardinality(Live) - 1
    BY <1>3, <2>1, PcbSubset
  <2> QED BY <1>1, <1>4, <2>1, <2>2
<1>7. /\ ToSet(readyQ) \cap (BlockedIn(p_semAdd') \cup pcbFree) = {}
      /\ BlockedIn(p_semAdd') \cap pcbFree = {}
  BY <1>4, <1>5 DEF Apart
<1> QED BY <1>1, <1>3, <1>4, <1>5, <1>6, <1>7, EndsInScheduler

----------------------------------------------------------------------------
(* The interrupts.                                                         *)

\* An interrupt finds the processor running a process or waiting for one.
LEMMA InterruptFacts ==
    ASSUME IInv, Interruptible
    PROVE  /\ dying = <<>>
           /\ currentProc # NULL => cpu = "run"
           /\ p_s \in [Pcb -> StateOf]
           /\ processCount = Cardinality(Live)
           /\ Apart(readyQ, currentProc, p_semAdd, pcbFree)
BY PcbAssumption DEF IInv, TypeOK, Mode, Interruptible, ProcessAccounting

\* A device interrupts, whether a process runs or not.
LEMMA DeviceInterruptStep ==
    ASSUME IInv, NEW d \in Device, DeviceInterrupt(d)
    PROVE  IInv'
<1>1. /\ Interruptible /\ V(d) /\ UNCHANGED <<procVars, dying>>
      /\ softBlockCount' = IF Signals(d) /\ IsSoft(d) THEN softBlockCount - 1
                                                     ELSE softBlockCount
  BY DEF DeviceInterrupt, SoftBlockAfterV, IsSoft
<1>2. /\ dying = <<>> /\ processCount = Cardinality(Live) /\ p_s \in [Pcb -> StateOf]
      /\ Apart(readyQ, currentProc, p_semAdd, pcbFree)
      /\ currentProc # NULL => cpu = "run"
  BY <1>1, InterruptFacts
<1>3. CASE currentProc # NULL
  <2>1. readyQ' = ReadyAfterV(d) /\ Resume(StateCopy)
    BY <1>3 DEF DeviceInterrupt
  <2> QED BY <1>1, <1>2, <1>3, <2>1, VReturns
<1>4. CASE currentProc = NULL
  <2> DEFINE rq == ReadyAfterV(d)
  <2>1. Scheduler(rq, NULL, p_s)
    BY <1>4 DEF DeviceInterrupt
  <2>2. /\ SemsOK' /\ IsQueue(rq, Pcb)
        /\ ToSet(rq) \cup BlockedIn(p_semAdd') = ToSet(readyQ) \cup BlockedIn(p_semAdd)
        /\ ToSet(rq) \cap BlockedIn(p_semAdd') = {}
    BY <1>1, VEffect
  <2> HIDE DEF rq
  <2>3. Live = ToSet(rq) \cup BlockedIn(p_semAdd')
    BY <1>4, <2>2, Places
  <2>4. /\ ToSet(rq) \cap (BlockedIn(p_semAdd') \cup pcbFree) = {}
        /\ BlockedIn(p_semAdd') \cap pcbFree = {}
    BY <1>2, <2>2 DEF Apart
  <2>5. /\ processCount' = Cardinality(ToSet(rq) \cup BlockedIn(p_semAdd'))
        /\ dying' = <<>> /\ UNCHANGED <<pcbFree, p_child, p_supportStruct>>
    BY <1>1, <1>2, <2>3 DEF procVars
  <2> QED BY <1>2, <2>1, <2>2, <2>4, <2>5, EndsInScheduler
<1> QED BY <1>3, <1>4

\* The current process goes to the end of a ready queue of others.
LEMMA Preempts ==
    ASSUME IInv, currentProc # NULL, NEW rq, IsQueue(rq, Pcb), currentProc \notin ToSet(rq)
    PROVE  /\ IsQueue(Preempted(rq), Pcb)
           /\ ToSet(Preempted(rq)) = ToSet(rq) \cup {currentProc}
           /\ Preempted(rq) # <<>>
BY RunningFacts, QueueAppend DEF Preempted

\* The time slice is over.
LEMMA PltInterruptStep ==
    ASSUME IInv, PltInterrupt
    PROVE  IInv'
<1>1. Interruptible /\ UNCHANGED <<procVars, semVars, dying>>
  BY DEF PltInterrupt
<1>2. /\ dying = <<>> /\ processCount = Cardinality(Live) /\ p_s \in [Pcb -> StateOf]
      /\ Apart(readyQ, currentProc, p_semAdd, pcbFree)
  BY <1>1, InterruptFacts
<1>3. SemsOK' /\ p_semAdd' = p_semAdd
  BY <1>1 DEF IInv, TypeOK, semVars, SemsOK, Consistent, Used, SoftIn, Balanced
<1>4. /\ IsQueue(readyQ, Pcb)
      /\ Live = ToSet(readyQ) \cup BlockedIn(p_semAdd) \cup ({currentProc} \ {NULL})
  BY Places
<1>5. dying' = <<>> /\ UNCHANGED <<pcbFree, p_child, p_supportStruct, processCount>>
  BY <1>1, <1>2 DEF procVars
<1>6. CASE currentProc = NULL
  <2>1. Scheduler(readyQ, NULL, p_s)
    BY <1>6 DEF PltInterrupt
  <2>2. processCount' = Cardinality(ToSet(readyQ) \cup BlockedIn(p_semAdd'))
    <3>1. Live = ToSet(readyQ) \cup BlockedIn(p_semAdd')
      BY <1>3, <1>4, <1>6
    <3> QED BY <1>2, <1>5, <3>1
  <2>3. /\ ToSet(readyQ) \cap (BlockedIn(p_semAdd') \cup pcbFree) = {}
        /\ BlockedIn(p_semAdd') \cap pcbFree = {}
    BY <1>2, <1>3 DEF Apart
  <2> QED BY <1>2, <1>3, <1>4, <1>5, <2>1, <2>2, <2>3, EndsInScheduler
<1>7. CASE currentProc # NULL
  <2> DEFINE rq == Preempted(readyQ)
  <2>1. Scheduler(rq, NULL, StateCopy)
    BY <1>7 DEF PltInterrupt
  <2>2. /\ currentProc \notin ToSet(readyQ) /\ currentProc \notin pcbFree
        /\ StateCopy \in [Pcb -> StateOf]
    BY <1>7, RunningFacts
  <2>3. IsQueue(rq, Pcb) /\ ToSet(rq) = ToSet(readyQ) \cup {currentProc} /\ rq # <<>>
    BY <1>4, <1>7, <2>2, Preempts
  <2> HIDE DEF rq
  <2>4. processCount' = Cardinality(ToSet(rq) \cup BlockedIn(p_semAdd'))
    <3>1. Live = ToSet(rq) \cup BlockedIn(p_semAdd')
      BY <1>3, <1>4, <1>7, <2>3
    <3> QED BY <1>2, <1>5, <3>1
  <2>5. /\ ToSet(rq) \cap (BlockedIn(p_semAdd') \cup pcbFree) = {}
        /\ BlockedIn(p_semAdd') \cap pcbFree = {}
    BY <1>2, <1>3, <1>7, <2>2, <2>3 DEF Apart
  <2> QED BY <1>3, <1>5, <2>1, <2>2, <2>3, <2>4, <2>5, EndsInScheduler
<1> QED BY <1>6, <1>7

\* The interval timer releases everybody who waits for the clock.
LEMMA ItInterruptStep ==
    ASSUME IInv, ItInterrupt
    PROVE  IInv'
<1> DEFINE waiters == asl[Clock]
           released == readyQ \o waiters
<1>1. Interruptible /\ UNCHANGED <<procVars, dying>> /\ ReleaseClock
      /\ semaphore' = [semaphore EXCEPT ![Clock] = 0]
  BY DEF ItInterrupt
<1>2. /\ dying = <<>> /\ processCount = Cardinality(Live) /\ p_s \in [Pcb -> StateOf]
      /\ Apart(readyQ, currentProc, p_semAdd, pcbFree)
  BY <1>1, InterruptFacts
<1>3. /\ Consistent(asl, semdFree, p_semAdd) /\ Balanced(semaphore, asl)
      /\ softBlockCount = Cardinality(SoftIn(p_semAdd))
      /\ semaphore \in [SemAdd -> Int] /\ asl \in [SemAdd -> Seq(Pcb)]
      /\ Clock \in SemAdd
  BY DEF IInv, TypeOK, SemAdd
<1>4. /\ IsQueue(waiters, Pcb) /\ ToSet(waiters) \subseteq BlockedIn(p_semAdd)
      /\ Len(waiters) = Cardinality(ToSet(waiters))
      /\ waiters = <<>> <=> ToSet(waiters) = {}
      /\ \A p \in Pcb : p \in ToSet(waiters) <=> p_semAdd[p] = Clock
  <2>1. Consistent(asl, semdFree, p_semAdd) /\ Clock \in SemAdd
    BY <1>3
  <2> QED BY <2>1, QueueOf
<1>5. /\ IsQueue(readyQ, Pcb)
      /\ BlockedIn(p_semAdd) \subseteq Pcb /\ SoftIn(p_semAdd) \subseteq Pcb
      /\ Live = ToSet(readyQ) \cup BlockedIn(p_semAdd) \cup ({currentProc} \ {NULL})
  BY Places
<1>6. /\ asl' = [asl EXCEPT ![Clock] = <<>>]
      /\ semdFree' = IF waiters = <<>> THEN semdFree ELSE semdFree + 1
      /\ p_semAdd' = [p \in Pcb |-> IF Contains(waiters, p) THEN NULL ELSE p_semAdd[p]]
      /\ softBlockCount' = softBlockCount - Len(waiters)
  <2>1. CASE waiters = <<>>
    <3>1. asl' = asl /\ semdFree' = semdFree
      BY <1>1, <2>1 DEF ReleaseClock
    <3>2. asl = [asl EXCEPT ![Clock] = <<>>]
      BY <1>3, <2>1
    <3> QED BY <1>1, <2>1, <3>1, <3>2 DEF ReleaseClock
  <2>2. CASE waiters # <<>>
    BY <1>1, <2>2 DEF ReleaseClock, Dequeue
  <2> QED BY <2>1, <2>2
<1>7. Differs(asl', asl, Clock, <<>>)
  BY <1>3, <1>6, Differing
<1>8. /\ Consistent(asl', semdFree', p_semAdd')
      /\ BlockedIn(p_semAdd') = BlockedIn(p_semAdd) \ ToSet(waiters)
      /\ SoftIn(p_semAdd') = SoftIn(p_semAdd) \ ToSet(waiters)
  <2>1. /\ Consistent(asl', IF waiters = <<>> THEN semdFree ELSE semdFree + 1, p_semAdd')
        /\ BlockedIn(p_semAdd') = BlockedIn(p_semAdd) \ ToSet(waiters)
        /\ SoftIn(p_semAdd') = SoftIn(p_semAdd) \ ToSet(waiters)
    <3>1. Consistent(asl, semdFree, p_semAdd) /\ Clock \in SemAdd
      BY <1>3
    <3>2. p_semAdd' = [p \in Pcb |-> IF Contains(waiters, p) THEN NULL ELSE p_semAdd[p]]
      BY <1>6
    <3> QED BY <1>7, <3>1, <3>2, QueueEmpties
  <2> QED BY <1>6, <2>1
<1>9. softBlockCount' = Cardinality(SoftIn(p_semAdd'))
  <2>1. ToSet(waiters) \subseteq SoftIn(p_semAdd)
    BY <1>4, <1>5 DEF SoftIn
  <2>2. IsFiniteSet(SoftIn(p_semAdd)) /\ IsFiniteSet(ToSet(waiters))
    BY <1>5, <2>1, PcbSubset
  <2>3. SoftIn(p_semAdd) \cap ToSet(waiters) = ToSet(waiters)
    BY <2>1
  <2>4. Cardinality(SoftIn(p_semAdd) \ ToSet(waiters)) =
            Cardinality(SoftIn(p_semAdd)) - Cardinality(ToSet(waiters))
    BY <2>2, <2>3, FS_Difference
  <2> QED BY <1>3, <1>4, <1>6, <1>8, <2>4
<1>10. Balanced(semaphore', asl') /\ semaphore' \in [SemAdd -> Int]
  <2>1. /\ asl'[Clock] = <<>> /\ \A a \in SemAdd \ {Clock} : asl'[a] = asl[a]
        /\ semaphore'[Clock] = 0 /\ \A a \in SemAdd \ {Clock} : semaphore'[a] = semaphore[a]
        /\ semaphore' \in [SemAdd -> Int]
    BY <1>1, <1>3, <1>6
  <2>2. 0 <= -Len(<<>>) /\ Clock \notin Sema4 /\ Clock \notin Device
    BY SemAddAssumption
  <2> QED BY <1>3, <2>1, <2>2 DEF Balanced
<1>11. SemsOK'
  BY <1>8, <1>9, <1>10 DEF SemsOK
<1>12. /\ IsQueue(released, Pcb) /\ ToSet(released) = ToSet(readyQ) \cup ToSet(waiters)
  <2>1. ToSet(readyQ) \cap ToSet(waiters) = {}
    BY <1>2, <1>4 DEF Apart
  <2>2. IsQueue(readyQ, Pcb) /\ IsQueue(waiters, Pcb)
    BY <1>4, <1>5
  <2> HIDE DEF waiters
  <2> QED BY <2>1, <2>2, QueueConcat DEF released
<1>13. /\ currentProc = NULL => Scheduler(released, NULL, p_s)
       /\ currentProc # NULL => Scheduler(Preempted(released), currentProc, StateCopy)
  BY DEF ItInterrupt
<1>14. /\ dying' = <<>> /\ UNCHANGED <<pcbFree, p_child, p_supportStruct, processCount>>
       /\ BlockedIn(p_semAdd') \cap pcbFree = {}
       /\ ToSet(released) \cap (BlockedIn(p_semAdd') \cup pcbFree) = {}
       /\ currentProc # NULL => currentProc \notin ToSet(released)
  <2>1. dying' = <<>> /\ UNCHANGED <<pcbFree, p_child, p_supportStruct, processCount>>
    BY <1>1, <1>2 DEF procVars
  <2> QED BY <1>2, <1>4, <1>8, <1>12, <2>1 DEF Apart
<1> HIDE DEF released
<1>15. CASE currentProc = NULL
  <2>1. processCount' = Cardinality(ToSet(released) \cup BlockedIn(p_semAdd'))
    <3>1. Live = ToSet(released) \cup BlockedIn(p_semAdd')
      BY <1>4, <1>5, <1>8, <1>12, <1>15
    <3> QED BY <1>2, <1>14, <3>1
  <2> QED BY <1>2, <1>11, <1>12, <1>13, <1>14, <1>15, <2>1, EndsInScheduler
<1>16. CASE currentProc # NULL
  <2> DEFINE rq == Preempted(released)
  <2>1. IsQueue(rq, Pcb) /\ ToSet(rq) = ToSet(released) \cup {currentProc} /\ rq # <<>>
    BY <1>12, <1>14, <1>16, Preempts
  <2>2. /\ currentProc \notin BlockedIn(p_semAdd) /\ currentProc \notin pcbFree
        /\ StateCopy \in [Pcb -> StateOf]
    BY <1>2, <1>16, RunningFacts DEF Apart
  <2>3. Scheduler(rq, currentProc, StateCopy)
    BY <1>13, <1>16
  <2> HIDE DEF rq
  <2>4. processCount' = Cardinality(ToSet(rq) \cup BlockedIn(p_semAdd'))
    <3>1. Live = ToSet(rq) \cup BlockedIn(p_semAdd')
      BY <1>4, <1>5, <1>8, <1>12, <1>16, <2>1
    <3> QED BY <1>2, <1>14, <3>1
  <2>5. ToSet(rq) \cap (BlockedIn(p_semAdd') \cup pcbFree) = {}
    BY <1>8, <1>14, <2>1, <2>2
  <2> QED BY <1>11, <1>14, <2>1, <2>2, <2>3, <2>4, <2>5, EndsInScheduler
<1> QED BY <1>15, <1>16

----------------------------------------------------------------------------
(* The invariant.                                                          *)

\* The state in which main hands over satisfies the invariant.
LEMMA InitIInv == Init => IInv
<1> SUFFICES ASSUME NEW root \in Pcb,
                    /\ pcbFree = Pcb \ {root} /\ readyQ = <<>> /\ currentProc = root
                    /\ processCount = 1 /\ softBlockCount = 0
                    /\ semaphore = [a \in SemAdd |-> 0]
                    /\ asl = [a \in SemAdd |-> <<>>]
                    /\ semdFree = Cardinality(Pcb)
                    /\ p_semAdd = [p \in Pcb |-> NULL]
                    /\ p_child = [p \in Pcb |-> <<>>]
                    /\ p_supportStruct = [p \in Pcb |-> NULL]
                    /\ p_s = [p \in Pcb |-> IF p = root THEN "loaded" ELSE "old"]
                    /\ dying = <<>> /\ cpu = "run"
             PROVE  IInv
  BY DEF Init
<1>1. /\ IsQueue(<<>>, Pcb) /\ ToSet(<<>>) = {} /\ <<>> \in Seq(Pcb) /\ Len(<<>>) = 0
      /\ IsInjective(<<>>)
  <2>1. IsQueue(<<>>, Pcb)
    BY EmptySeq DEF IsQueue, IsInjective
  <2> QED BY <2>1, QueueLength, EmptySeq DEF IsQueue
<1>2. root # NULL /\ NULL \notin SemAdd /\ Cardinality(Pcb) \in Nat
  BY PcbAssumption, SemAddAssumption, FS_CardinalityType
<1>3. BlockedIn(p_semAdd) = {} /\ SoftIn(p_semAdd) = {} /\ Used(asl) = {}
  BY <1>2 DEF BlockedIn, SoftIn, Used, SemAdd
<1>4. Cardinality({}) = 0 /\ Cardinality({root}) = 1
  BY FS_EmptySet, FS_Singleton
<1>5. TypeOK
  BY <1>1, <1>2 DEF TypeOK, CpuState, StateOf
<1>6. Consistent(asl, semdFree, p_semAdd)
  <2>1. \A a \in SemAdd : {p \in Pcb : p_semAdd[p] = a} = {}
    BY <1>2
  <2>2. semdFree = Cardinality(Pcb) - Cardinality(Used(asl))
    <3>1. Cardinality(Used(asl)) = 0
      BY <1>3, <1>4
    <3>2. semdFree = Cardinality(Pcb)
      OBVIOUS
    <3> QED BY <1>2, <3>1, <3>2
  <2> QED BY <1>1, <1>5, <2>1, <2>2 DEF Consistent, TypeOK
<1>7. Apart(readyQ, currentProc, p_semAdd, pcbFree)
  BY <1>1, <1>3 DEF Apart
<1>8. ProcessAccounting
  <2>1. Live = {root}
    BY <1>1, <1>2, <1>3 DEF Live, Ready, Blocked, BlockedIn, Running
  <2> QED BY <1>4, <2>1 DEF ProcessAccounting
<1>9. Balanced(semaphore, asl)
  BY <1>1 DEF Balanced
<1>10. Mode
  BY DEF Mode, InKernel
<1> QED BY <1>3, <1>4, <1>5, <1>6, <1>7, <1>8, <1>9, <1>10 DEF IInv

\* Every step preserves the invariant.
LEMMA NextIInv == IInv /\ [Next]_vars => IInv'
<1> SUFFICES ASSUME IInv, [Next]_vars PROVE IInv'
  OBVIOUS
<1>1. CASE UNCHANGED vars
  <2>1. p_s' \in [Pcb -> StateOf]
    BY <1>1 DEF vars, IInv, TypeOK
  <2> QED BY <1>1, <2>1, StateChanges DEF vars
<1>2. ASSUME NEW sup \in Support \cup {NULL}, CreateProcess(sup) PROVE IInv'
  BY <1>2, CreateProcessStep
<1>3. CASE TerminateProcess \/ PassUpOrDie
  BY <1>3, TerminateStep DEF TerminateProcess, PassUpOrDie
<1>4. ASSUME NEW s \in Sema4, Passeren(s) \/ Verhogen(s) PROVE IInv'
  BY <1>4, PasserenStep, VerhogenStep
<1>5. ASSUME NEW d \in Device, WaitForDevice(d) \/ DeviceInterrupt(d) PROVE IInv'
  BY <1>5, WaitForDeviceStep, DeviceInterruptStep
<1>6. CASE GetInfo \/ WaitForClock
  BY <1>6, GetInfoStep, WaitForClockStep
<1>7. CASE Terminating
  BY <1>7, TerminateChildStep, UnlinkBlockedStep, UnlinkReadyStep, DisposeChildStep,
     DisposeCurrentStep DEF Terminating
<1>8. CASE PltInterrupt \/ ItInterrupt
  BY <1>8, PltInterruptStep, ItInterruptStep
<1>9. CASE Stopped
  BY <1>1, <1>9 DEF Stopped
<1> QED BY <1>1, <1>2, <1>3, <1>4, <1>5, <1>6, <1>7, <1>8, <1>9 DEF Next

\* At every step of every handler, and of the recursion of terminateProcess, the
\* queues of exceptions.c, interrupts.c and scheduler.c are consistent with each
\* other, with the p_semAdd fields, with the counters and with the mode.
THEOREM Invariance == Spec => []IInv
BY InitIInv, NextIInv, PTL DEF Spec

----------------------------------------------------------------------------
(* What it implies.                                                        *)

\* The variables keep their types: counters never go below zero, queues hold pcbs.
THEOREM TypeCorrect == Spec => []TypeOK
<1>1. IInv => TypeOK
  BY DEF IInv
<1> QED BY <1>1, Invariance, PTL

\* processCount is the number of live processes, in the middle of a kill too.
THEOREM ProcessesCounted == Spec => []ProcessAccounting
<1>1. IInv => ProcessAccounting
  BY DEF IInv
<1> QED BY <1>1, Invariance, PTL

\* softBlockCount is the number of processes an interrupt will wake.
THEOREM SoftBlockedCounted == Spec => []SoftBlockAccounting
<1>1. IInv => SoftBlockAccounting
  BY DEF IInv, SoftBlockAccounting, SoftIn
<1> QED BY <1>1, Invariance, PTL

\* The value of a semaphore says how many wait for it, or bounds it.
THEOREM SemaphoresBalanced == Spec => []SemaphoreAccounting
<1>1. IInv => SemaphoreAccounting
  BY DEF IInv, Balanced, SemaphoreAccounting, SemAdd
<1> QED BY <1>1, Invariance, PTL

\* The invariant keeps the queues apart.
LEMMA KeptApart ==
    ASSUME IInv
    PROVE  OneQueueEach
<1>1. Apart(readyQ, currentProc, p_semAdd, pcbFree) /\ Consistent(asl, semdFree, p_semAdd)
  BY DEF IInv
<1> QED BY <1>1 DEF Apart, Consistent, OneQueueEach, Ready, Blocked, BlockedIn, Running

\* No pcb is ever in two queues, twice in one, or free while it is in use.
THEOREM QueuesApart == Spec => []OneQueueEach
BY KeptApart, Invariance, PTL

\* The invariant leaves a descriptor to whoever may block.
LEMMA DescriptorLeft ==
    ASSUME IInv
    PROVE  DescriptorsSuffice
<1>1. semdFree = Cardinality(Pcb) - Cardinality({a \in SemAdd : asl[a] # <<>>})
  BY DEF IInv, Consistent, Used
<1> QED BY <1>1, RunningFacts DEF DescriptorsSuffice

\* insertBlocked never fails, as every descriptor in use has a waiter of its own.
THEOREM InsertBlockedSucceeds == Spec => []DescriptorsSuffice
BY DescriptorLeft, Invariance, PTL

\* The invariant makes HALT, PANIC and WAIT right.
LEMMA StuckOnly ==
    ASSUME IInv
    PROVE  StopsOnlyWhenStuck
<1>1. /\ processCount = Cardinality(Live) /\ softBlockCount = Cardinality(SoftIn(p_semAdd))
      /\ p_semAdd \in [Pcb -> SemAdd \cup {NULL}]
  BY DEF IInv, TypeOK, ProcessAccounting
<1>2. /\ Live = ToSet(readyQ) \cup BlockedIn(p_semAdd) \cup ({currentProc} \ {NULL})
      /\ Live \subseteq Pcb /\ SoftIn(p_semAdd) \subseteq Pcb
      /\ SoftIn(p_semAdd) \subseteq BlockedIn(p_semAdd)
  BY Places
<1>3. /\ processCount = 0 <=> Live = {}
      /\ softBlockCount > 0 <=> SoftIn(p_semAdd) # {}
  <2>1. Cardinality(Live) = 0 <=> Live = {}
    BY <1>2, PcbSubset
  <2>2. /\ Cardinality(SoftIn(p_semAdd)) \in Nat
        /\ Cardinality(SoftIn(p_semAdd)) = 0 <=> SoftIn(p_semAdd) = {}
    BY <1>2, PcbSubset
  <2> QED BY <1>1, <2>1, <2>2
<1>4. NULL \notin Sema4 /\ Sema4 \cap (Device \cup {Clock}) = {}
  BY SemAddAssumption DEF SemAdd
<1>5. CASE cpu = "halt"
  BY <1>3, <1>5 DEF IInv, Mode, StopsOnlyWhenStuck
<1>6. CASE cpu = "panic"
  <2>1. currentProc = NULL /\ readyQ = <<>> /\ Live # {} /\ SoftIn(p_semAdd) = {}
    BY <1>3, <1>6 DEF IInv, Mode
  <2>2. ToSet(readyQ) = {}
    BY <2>1, Places, QueueLength
  <2>3. Live = BlockedIn(p_semAdd)
    BY <1>2, <2>1, <2>2
  <2>4. BlockedIn(p_semAdd) = {p \in Pcb : p_semAdd[p] \in Sema4}
    BY <1>1, <1>4, <2>1 DEF BlockedIn, SoftIn, SemAdd
  <2> QED BY <1>6, <2>1, <2>3, <2>4 DEF StopsOnlyWhenStuck
<1>7. CASE cpu = "wait"
  <2>1. currentProc = NULL /\ readyQ = <<>> /\ SoftIn(p_semAdd) # {}
    BY <1>3, <1>7 DEF IInv, Mode
  <2>2. PICK p \in SoftIn(p_semAdd) : TRUE
    BY <2>1
  <2>3. p \in Live /\ p_semAdd[p] \notin Sema4
    BY <1>2, <1>4, <2>2 DEF SoftIn
  <2> QED BY <1>7, <2>1, <2>3 DEF StopsOnlyWhenStuck
<1> QED BY <1>5, <1>6, <1>7 DEF StopsOnlyWhenStuck

\* HALT, PANIC and WAIT are each taken in the only case they are right in.
THEOREM StopsRightly == Spec => []StopsOnlyWhenStuck
BY StuckOnly, Invariance, PTL

----------------------------------------------------------------------------
(* Elements of sequences, with or without repetitions.                     *)

LEMMA ElementsIn ==
    ASSUME NEW S, NEW q \in Seq(S)
    PROVE  ToSet(q) \subseteq S
<1>1. \A k \in 1 .. Len(q) : q[k] \in S
  BY ElementOfSeq
<1> QED BY <1>1, Elements

LEMMA ElementsOfTail ==
    ASSUME NEW S, NEW q \in Seq(S), q # <<>>
    PROVE  ToSet(Tail(q)) \subseteq ToSet(q)
<1>1. /\ Tail(q) \in Seq(S) /\ Len(q) \in Nat \ {0} /\ Len(Tail(q)) = Len(q) - 1
      /\ \A k \in 1 .. Len(q) - 1 : Tail(q)[k] = q[k + 1]
  BY HeadTailProperties, LenProperties, EmptySeq
<1>2. /\ ToSet(q) = {q[k] : k \in 1 .. Len(q)}
      /\ ToSet(Tail(q)) = {Tail(q)[k] : k \in 1 .. Len(q) - 1}
  BY <1>1, Elements
<1>3. \A k \in 1 .. Len(q) - 1 : k + 1 \in 1 .. Len(q)
  BY <1>1
<1> QED BY <1>1, <1>2, <1>3

LEMMA ElementsOfAppend ==
    ASSUME NEW S, NEW q \in Seq(S), NEW e \in S
    PROVE  ToSet(Append(q, e)) = ToSet(q) \cup {e} /\ Append(q, e) \in Seq(S)
<1>1. /\ Append(q, e) \in Seq(S) /\ Len(q) \in Nat /\ Len(Append(q, e)) = Len(q) + 1
      /\ \A k \in 1 .. Len(q) + 1 : Append(q, e)[k] = IF k <= Len(q) THEN q[k] ELSE e
  BY AppendProperties, LenProperties
<1>2. ToSet(Append(q, e)) = {Append(q, e)[k] : k \in 1 .. Len(q) + 1}
  BY <1>1, Elements
<1>3. ToSet(q) = {q[k] : k \in 1 .. Len(q)}
  BY Elements
<1>4. Append(q, e)[Len(q) + 1] = e /\ Len(q) + 1 \in 1 .. Len(q) + 1
  BY <1>1
<1>5. \A x \in ToSet(q) : x \in ToSet(Append(q, e))
  BY <1>1, <1>2, <1>3
<1>6. \A x \in ToSet(Append(q, e)) : x = e \/ x \in ToSet(q)
  BY <1>1, <1>2, <1>3
<1>7. e \in ToSet(Append(q, e))
  BY <1>2, <1>4
<1> QED BY <1>1, <1>5, <1>6, <1>7

LEMMA ElementsOfConcat ==
    ASSUME NEW S, NEW q \in Seq(S), NEW r \in Seq(S)
    PROVE  /\ ToSet(q \o r) \subseteq ToSet(q) \cup ToSet(r) /\ q \o r \in Seq(S)
           /\ ToSet(r) \subseteq ToSet(q \o r)
<1>1. /\ q \o r \in Seq(S) /\ Len(q) \in Nat /\ Len(r) \in Nat
      /\ Len(q \o r) = Len(q) + Len(r)
      /\ \A k \in 1 .. Len(q) + Len(r) :
            (q \o r)[k] = IF k <= Len(q) THEN q[k] ELSE r[k - Len(q)]
  BY ConcatProperties, LenProperties
<1>2. ASSUME NEW k \in 1 .. Len(q) + Len(r)
      PROVE  (q \o r)[k] \in ToSet(q) \cup ToSet(r)
  <2>1. CASE k <= Len(q)
    BY <1>1, <2>1, Elements
  <2>2. CASE ~(k <= Len(q))
    <3>1. k - Len(q) \in 1 .. Len(r)
      BY <1>1, <2>2
    <3> QED BY <1>1, <2>2, <3>1, Elements
  <2> QED BY <2>1, <2>2
<1>3. ToSet(q \o r) = {(q \o r)[k] : k \in 1 .. Len(q) + Len(r)}
  BY <1>1, Elements
<1>4. \A k \in 1 .. Len(r) : /\ Len(q) + k \in 1 .. Len(q) + Len(r)
                             /\ (q \o r)[Len(q) + k] = r[k]
  BY <1>1
<1>5. ToSet(r) \subseteq ToSet(q \o r)
  BY <1>3, <1>4, Elements
<1> QED BY <1>1, <1>2, <1>3, <1>5

----------------------------------------------------------------------------
(* Saved states.                                                           *)

\* A handler that ends in the scheduler.
LEMMA SavedByScheduler ==
    ASSUME IInv', NEW rq \in Seq(Pcb), NEW cur, NEW ps \in [Pcb -> StateOf],
           Scheduler(rq, cur, ps),
           \A p \in ToSet(rq) \cup Blocked' : ps[p] = "saved"
    PROVE  QueuedStateSaved'
<1>1. CASE rq # <<>>
  <2>1. /\ readyQ' = Tail(rq) /\ currentProc' = Head(rq) /\ p_s' = Load(ps, Head(rq))
    BY <1>1 DEF Scheduler, Dispatch
  <2>2. Ready' \subseteq ToSet(rq) /\ Head(rq) \in Pcb /\ Ready' \subseteq Pcb
    <3>1. readyQ' \in Seq(Pcb)
      BY DEF IInv, TypeOK
    <3> QED BY <1>1, <2>1, <3>1, ElementsOfTail, ElementsIn DEF Ready
  <2>3. Head(rq) \notin Ready' \cup Blocked'
    BY <2>1, <2>2, PcbAssumption DEF IInv, Apart, Ready, Blocked, BlockedIn
  <2>4. \A p \in Ready' \cup Blocked' : p \in Pcb
    BY <2>2 DEF Blocked
  <2> QED BY <2>1, <2>2, <2>3, <2>4 DEF QueuedStateSaved, Load
<1>2. CASE rq = <<>>
  <2>1. readyQ' = rq /\ p_s' = ps
    BY <1>2 DEF Scheduler
  <2> QED BY <2>1 DEF QueuedStateSaved, Ready
<1> QED BY <1>1, <1>2

\* A handler that ends in going on with the current process.
LEMMA SavedByResume ==
    ASSUME IInv', currentProc \in Pcb, NEW ps \in [Pcb -> StateOf], Resume(ps),
           \A p \in (Ready' \cup Blocked') \ {currentProc} : ps[p] = "saved"
    PROVE  QueuedStateSaved'
<1>1. p_s' = Load(ps, currentProc) /\ currentProc' = currentProc
  BY DEF Resume
<1>2. currentProc \notin Ready' \cup Blocked'
  BY <1>1, PcbAssumption DEF IInv, Apart, Ready, Blocked, BlockedIn
<1>3. Ready' \cup Blocked' \subseteq Pcb
  <2>1. readyQ' \in Seq(Pcb)
    BY DEF IInv, TypeOK
  <2> QED BY <2>1, ElementsIn DEF Ready, Blocked
<1> QED BY <1>1, <1>2, <1>3 DEF QueuedStateSaved, Load

\* The exception state of the current process has been copied.
LEMMA Copied ==
    ASSUME IInv, QueuedStateSaved, currentProc \in Pcb
    PROVE  /\ StateCopy \in [Pcb -> StateOf]
           /\ \A p \in Ready \cup Blocked \cup {currentProc} : StateCopy[p] = "saved"
           /\ Ready \cup Blocked \subseteq Pcb
<1>1. Ready \cup Blocked \subseteq Pcb
  <2>1. readyQ \in Seq(Pcb)
    BY DEF IInv, TypeOK
  <2> QED BY <2>1, ElementsIn DEF Ready, Blocked
<1> QED BY <1>1 DEF StateCopy, QueuedStateSaved, IInv, TypeOK, StateOf

\* What insertBlocked and a V do to the sets of blocked and ready pcbs.
LEMMA BlockedMore ==
    ASSUME IInv, NEW a \in SemAdd, NEW p \in Pcb, InsertBlocked(a, p)
    PROVE  Blocked' \subseteq Blocked \cup {p}
BY DEF InsertBlocked, IInv, TypeOK, Blocked

LEMMA BlockedLess ==
    ASSUME IInv, NEW a \in SemAdd, V(a)
    PROVE  /\ Blocked' \subseteq Blocked
           /\ ReadyAfterV(a) \in Seq(Pcb)
           /\ ToSet(ReadyAfterV(a)) \subseteq Ready \cup Blocked
<1>1. CASE Signals(a)
  <2>1. /\ IsQueue(asl[a], Pcb) /\ asl[a] # <<>>
        /\ ToSet(asl[a]) = {p \in Pcb : p_semAdd[p] = a}
    BY <1>1 DEF Signals, IInv, TypeOK, Consistent, IsQueue
  <2>2. Head(asl[a]) \in Blocked /\ Head(asl[a]) \in Pcb
    BY <2>1, QueueTail, SemAddAssumption DEF Blocked
  <2>3. Blocked' \subseteq Blocked
    BY <1>1, <2>2 DEF V, RemoveBlocked, IInv, TypeOK, Blocked
  <2> QED
    BY <1>1, <2>2, <2>3, ElementsOfAppend DEF ReadyAfterV, IInv, TypeOK, Ready
<1>2. CASE ~Signals(a)
  BY <1>2 DEF V, ReadyAfterV, IInv, TypeOK, Blocked, Ready
<1> QED BY <1>1, <1>2

\* A P that blocks ends in the scheduler, one that does not in a return.
LEMMA SavedByBlocking ==
    ASSUME IInv, IInv', QueuedStateSaved, currentProc \in Pcb, NEW a \in SemAdd,
           InsertBlocked(a, currentProc), Scheduler(readyQ, NULL, StateCopy)
    PROVE  QueuedStateSaved'
<1>1. Blocked' \subseteq Blocked \cup {currentProc}
  BY BlockedMore
<1>2. readyQ \in Seq(Pcb)
  BY DEF IInv, TypeOK
<1> QED BY <1>1, <1>2, Copied, SavedByScheduler DEF Ready

LEMMA CurrentRuns ==
    ASSUME IInv, cpu = "run"
    PROVE  currentProc \in Pcb /\ currentProc # NULL
BY PcbAssumption DEF IInv, Mode

\* No queue and no saved state changes.
LEMMA SavedUnchanged ==
    ASSUME QueuedStateSaved, UNCHANGED p_s, Ready' \subseteq Ready, Blocked' \subseteq Blocked
    PROVE  QueuedStateSaved'
BY DEF QueuedStateSaved

LEMMA SavedByCalls ==
    ASSUME IInv, IInv', QueuedStateSaved,
           \/ \E s \in Sema4 : Passeren(s) \/ Verhogen(s)
           \/ \E d \in Device : WaitForDevice(d)
           \/ GetInfo
           \/ WaitForClock
    PROVE  QueuedStateSaved'
<1>1. currentProc \in Pcb /\ currentProc # NULL
  BY CurrentRuns DEF Passeren, Verhogen, WaitForDevice, GetInfo, WaitForClock
<1>2. /\ StateCopy \in [Pcb -> StateOf]
      /\ \A p \in Ready \cup Blocked \cup {currentProc} : StateCopy[p] = "saved"
      /\ p_s \in [Pcb -> StateOf]
  BY <1>1, Copied DEF IInv, TypeOK
<1>3. ASSUME NEW s \in Sema4, Passeren(s) PROVE QueuedStateSaved'
  <2>1. CASE semaphore'[s] < 0
    BY <1>1, <1>3, <2>1, SavedByBlocking DEF Passeren, SemAdd
  <2>2. CASE ~(semaphore'[s] < 0)
    <3>1. Resume(StateCopy) /\ UNCHANGED <<p_semAdd, readyQ>>
      BY <1>3, <2>2 DEF Passeren
    <3>2. Ready' = Ready /\ Blocked' = Blocked
      BY <3>1 DEF Ready, Blocked
    <3> QED BY <1>1, <1>2, <3>1, <3>2, SavedByResume
  <2> QED BY <2>1, <2>2
<1>4. ASSUME NEW s \in Sema4, Verhogen(s) PROVE QueuedStateSaved'
  <2>1. V(s) /\ readyQ' = ReadyAfterV(s) /\ Resume(StateCopy)
    BY <1>4 DEF Verhogen
  <2>2. Blocked' \subseteq Blocked /\ Ready' \subseteq Ready \cup Blocked
    BY <2>1, BlockedLess DEF SemAdd, Ready
  <2> QED BY <1>1, <1>2, <2>1, <2>2, SavedByResume
<1>5. ASSUME NEW d \in Device, WaitForDevice(d) PROVE QueuedStateSaved'
  <2>1. CASE semaphore'[d] < 0
    BY <1>1, <1>5, <2>1, SavedByBlocking DEF WaitForDevice, SemAdd
  <2>2. CASE ~(semaphore'[d] < 0)
    <3>1. Resume(p_s) /\ UNCHANGED <<p_semAdd, readyQ>>
      BY <1>5, <2>2 DEF WaitForDevice
    <3>2. Ready' = Ready /\ Blocked' = Blocked
      BY <3>1 DEF Ready, Blocked
    <3> QED BY <1>1, <1>2, <3>1, <3>2, SavedByResume DEF QueuedStateSaved
  <2> QED BY <2>1, <2>2
<1>6. CASE GetInfo
  <2>1. Resume(StateCopy) /\ Ready' = Ready /\ Blocked' = Blocked
    BY <1>6 DEF GetInfo, semVars, Ready, Blocked
  <2> QED BY <1>1, <1>2, <2>1, SavedByResume
<1>7. CASE WaitForClock
  <2>1. semaphore'[Clock] < 0
    <3>1. semaphore[Clock] <= -Len(asl[Clock]) /\ Len(asl[Clock]) \in Nat
      BY LenProperties DEF IInv, TypeOK, Balanced, SemAdd
    <3>2. semaphore[Clock] \in Int /\ semaphore'[Clock] = semaphore[Clock] - 1
      BY <1>7 DEF WaitForClock, IInv, TypeOK, SemAdd
    <3> QED BY <3>1, <3>2
  <2> QED BY <1>1, <1>7, <2>1, SavedByBlocking DEF WaitForClock, SemAdd
<1> QED BY <1>3, <1>4, <1>5, <1>6, <1>7

LEMMA SavedByCreate ==
    ASSUME IInv, IInv', QueuedStateSaved, NEW sup, CreateProcess(sup)
    PROVE  QueuedStateSaved'
<1>1. currentProc \in Pcb
  BY CurrentRuns DEF CreateProcess
<1>2. /\ StateCopy \in [Pcb -> StateOf]
      /\ \A p \in Ready \cup Blocked \cup {currentProc} : StateCopy[p] = "saved"
      /\ Ready \cup Blocked \subseteq Pcb
  BY <1>1, Copied
<1>3. CASE pcbFree = {}
  <2>1. Resume(StateCopy) /\ Ready' = Ready /\ Blocked' = Blocked
    BY <1>3 DEF CreateProcess, semVars, Ready, Blocked
  <2> QED BY <1>1, <1>2, <2>1, SavedByResume
<1>4. CASE pcbFree # {}
  <2>1. PICK p \in pcbFree : /\ p_semAdd' = [p_semAdd EXCEPT ![p] = NULL]
                             /\ readyQ' = Append(readyQ, p)
                             /\ Resume([StateCopy EXCEPT ![p] = "saved"])
    BY <1>4 DEF CreateProcess
  <2>2. p \in Pcb /\ readyQ \in Seq(Pcb) /\ p_semAdd \in [Pcb -> SemAdd \cup {NULL}]
    BY DEF IInv, TypeOK
  <2>3. Ready' = Ready \cup {p} /\ Blocked' \subseteq Blocked
    BY <2>1, <2>2, ElementsOfAppend DEF Ready, Blocked
  <2> DEFINE ps == [StateCopy EXCEPT ![p] = "saved"]
  <2>4. ps \in [Pcb -> StateOf] /\ ps[p] = "saved"
    BY <1>2, <2>2 DEF StateOf
  <2>5. \A q \in Ready' \cup Blocked' : ps[q] = "saved"
    BY <1>2, <2>2, <2>3
  <2> HIDE DEF ps
  <2> QED BY <1>1, <2>1, <2>4, <2>5, SavedByResume DEF ps
<1> QED BY <1>3, <1>4

LEMMA SavedByTerminating ==
    ASSUME IInv, IInv', QueuedStateSaved, Terminating
    PROVE  QueuedStateSaved'
<1>1. CASE TerminateChild \/ DisposeChild
  BY <1>1, SavedUnchanged DEF TerminateChild, DisposeChild, semVars, Ready, Blocked
<1>2. CASE UnlinkBlocked
  <2>1. UNCHANGED <<p_s, readyQ>> /\ p_semAdd' = [p_semAdd EXCEPT ![Head(dying)] = NULL]
    BY <1>2 DEF UnlinkBlocked, OutBlocked
  <2>2. Ready' = Ready /\ Blocked' \subseteq Blocked
    BY <2>1 DEF Ready, Blocked, IInv, TypeOK
  <2> QED BY <2>1, <2>2, SavedUnchanged
<1>3. CASE UnlinkReady
  <2>1. UNCHANGED <<p_s, p_semAdd>> /\ readyQ' = RemoveFirst(readyQ, Head(dying))
    BY <1>3 DEF UnlinkReady, semVars
  <2>2. Ready' \subseteq Ready
    BY <2>1, QueueRemove DEF Ready, IInv, TypeOK, Apart, IsQueue
  <2> QED BY <2>1, <2>2, SavedUnchanged DEF Blocked
<1>4. CASE DisposeCurrent
  <2>1. Scheduler(readyQ, NULL, p_s) /\ Blocked' = Blocked
    BY <1>4 DEF DisposeCurrent, semVars, Blocked
  <2>2. readyQ \in Seq(Pcb) /\ p_s \in [Pcb -> StateOf]
    BY DEF IInv, TypeOK
  <2> QED BY <2>1, <2>2, SavedByScheduler DEF QueuedStateSaved, Ready
<1> QED BY <1>1, <1>2, <1>3, <1>4 DEF Terminating

\* The queue of the clock, released as a whole, has blocked pcbs only.
LEMMA ClockQueue ==
    ASSUME IInv
    PROVE  /\ asl[Clock] \in Seq(Pcb) /\ readyQ \in Seq(Pcb)
           /\ ToSet(asl[Clock]) \subseteq Blocked
BY SemAddAssumption DEF IInv, TypeOK, Consistent, Blocked, SemAdd

\* An interrupt is taken from a running process or from nobody.
LEMMA WhoIsInterrupted ==
    ASSUME IInv, Interruptible, currentProc # NULL
    PROVE  currentProc \in Pcb
BY DEF IInv, TypeOK

LEMMA SavedByInterrupts ==
    ASSUME IInv, IInv', QueuedStateSaved,
           (\E d \in Device : DeviceInterrupt(d)) \/ PltInterrupt \/ ItInterrupt
    PROVE  QueuedStateSaved'
<1>1. /\ p_s \in [Pcb -> StateOf] /\ readyQ \in Seq(Pcb) /\ Interruptible
      /\ \A p \in Ready \cup Blocked : p_s[p] = "saved"
  BY DEF IInv, TypeOK, QueuedStateSaved, DeviceInterrupt, PltInterrupt, ItInterrupt
<1>2. ASSUME currentProc # NULL
      PROVE  /\ currentProc \in Pcb /\ StateCopy \in [Pcb -> StateOf]
             /\ \A p \in Ready \cup Blocked \cup {currentProc} : StateCopy[p] = "saved"
  BY <1>1, <1>2, WhoIsInterrupted, Copied
<1>3. ASSUME NEW d \in Device, DeviceInterrupt(d) PROVE QueuedStateSaved'
  <2>1. /\ Blocked' \subseteq Blocked /\ ReadyAfterV(d) \in Seq(Pcb)
        /\ ToSet(ReadyAfterV(d)) \subseteq Ready \cup Blocked
    BY <1>3, BlockedLess DEF DeviceInterrupt, SemAdd
  <2>2. CASE currentProc = NULL
    <3>1. Scheduler(ReadyAfterV(d), NULL, p_s)
      BY <1>3, <2>2 DEF DeviceInterrupt
    <3> QED BY <1>1, <2>1, <3>1, SavedByScheduler
  <2>3. CASE currentProc # NULL
    <3>1. readyQ' = ReadyAfterV(d) /\ Resume(StateCopy)
      BY <1>3, <2>3 DEF DeviceInterrupt
    <3>2. Ready' \subseteq Ready \cup Blocked
      BY <2>1, <3>1 DEF Ready
    <3> QED BY <1>2, <2>1, <2>3, <3>1, <3>2, SavedByResume
  <2> QED BY <2>2, <2>3
<1>4. CASE PltInterrupt
  <2>1. Blocked' = Blocked
    BY <1>4 DEF PltInterrupt, semVars, Blocked
  <2>2. CASE currentProc = NULL
    <3>1. Scheduler(readyQ, NULL, p_s)
      BY <1>4, <2>2 DEF PltInterrupt
    <3> QED BY <1>1, <2>1, <3>1, SavedByScheduler DEF Ready
  <2>3. CASE currentProc # NULL
    <3>1. Scheduler(Append(readyQ, currentProc), NULL, StateCopy)
      BY <1>4, <2>3 DEF PltInterrupt, Preempted
    <3>2. /\ Append(readyQ, currentProc) \in Seq(Pcb)
          /\ ToSet(Append(readyQ, currentProc)) = Ready \cup {currentProc}
      BY <1>1, <1>2, <2>3, ElementsOfAppend DEF Ready
    <3> QED BY <1>2, <2>1, <2>3, <3>1, <3>2, SavedByScheduler
  <2> QED BY <2>2, <2>3
<1>5. CASE ItInterrupt
  <2> DEFINE released == readyQ \o asl[Clock]
  <2>1. released \in Seq(Pcb) /\ ToSet(released) \subseteq Ready \cup Blocked
    BY <1>1, ClockQueue, ElementsOfConcat DEF Ready
  <2>2. Blocked' \subseteq Blocked
    BY <1>5 DEF ItInterrupt, ReleaseClock, Blocked
  <2>3. IF currentProc = NULL THEN Scheduler(released, NULL, p_s)
        ELSE Scheduler(Append(released, currentProc), currentProc, StateCopy)
    BY <1>5 DEF ItInterrupt, Preempted
  <2> HIDE DEF released
  <2>4. CASE currentProc = NULL
    BY <1>1, <2>1, <2>2, <2>3, <2>4, SavedByScheduler
  <2>5. CASE currentProc # NULL
    <3>1. /\ Append(released, currentProc) \in Seq(Pcb)
          /\ ToSet(Append(released, currentProc)) = ToSet(released) \cup {currentProc}
      BY <1>2, <2>1, <2>5, ElementsOfAppend
    <3> QED BY <1>2, <2>1, <2>2, <2>3, <2>5, <3>1, SavedByScheduler
  <2> QED BY <2>4, <2>5
<1> QED BY <1>3, <1>4, <1>5

LEMMA InitSaved == Init => QueuedStateSaved
<1>1. \A p : p \notin ToSet(<<>>)
  BY DEF ToSet
<1> QED BY <1>1 DEF Init, QueuedStateSaved, Ready, Blocked

LEMMA NextSaved ==
    ASSUME IInv, IInv', QueuedStateSaved, [Next]_vars
    PROVE  QueuedStateSaved'
<1>1. CASE \E sup \in Support \cup {NULL} : CreateProcess(sup)
  BY <1>1, SavedByCreate
<1>2. CASE \/ \E s \in Sema4 : Passeren(s) \/ Verhogen(s)
           \/ \E d \in Device : WaitForDevice(d)
           \/ GetInfo \/ WaitForClock
  BY <1>2, SavedByCalls
<1>3. CASE Terminating
  BY <1>3, SavedByTerminating
<1>4. CASE (\E d \in Device : DeviceInterrupt(d)) \/ PltInterrupt \/ ItInterrupt
  BY <1>4, SavedByInterrupts
<1>5. CASE TerminateProcess \/ PassUpOrDie \/ Stopped \/ UNCHANGED vars
  BY <1>5, SavedUnchanged
     DEF TerminateProcess, PassUpOrDie, Terminate, Stopped, vars, semVars, Ready, Blocked
<1> QED BY <1>1, <1>2, <1>3, <1>4, <1>5 DEF Next

\* Whoever is put in a queue, by whichever handler, is there with the state it
\* stopped in: exceptions.c and interrupts.c copy the exception state on every
\* path that queues the current process.
THEOREM StatesSaved == Spec => []QueuedStateSaved
<1>1. IInv /\ IInv' /\ QueuedStateSaved /\ [Next]_vars => QueuedStateSaved'
  BY NextSaved
<1> QED BY <1>1, InitSaved, Invariance, PTL DEF Spec

----------------------------------------------------------------------------
(* The lists of children.                                                  *)

\* No two calls of terminateProcess work on one pcb (but for the process that
\* ends, which its parent's list still has when the parent is what it kills).
SingleCalls ==
    \A j, k \in 1 .. Len(dying) : dying[j] = dying[k] => j = k \/ dying[j] = currentProc

\* No child is listed twice, and a pcb that is about to be freed has none left.
TreeInv ==
    /\ NoDangling
    /\ \A p \in Pcb : IsInjective(p_child[p])
    /\ InKernel => SingleCalls
    /\ cpu = "dispose" => p_child[Head(dying)] = <<>>

\* Steps that leave lists of children, free pcbs and calls as they are.
LEMMA TreeUnchanged ==
    ASSUME IInv, IInv', TreeInv, UNCHANGED <<p_child, pcbFree, dying, cpu, currentProc>>
    PROVE  TreeInv'
<1>1. \A p \in pcbFree' : p_semAdd'[p] = NULL
  BY DEF IInv, TypeOK, Apart, BlockedIn
<1> QED BY <1>1 DEF TreeInv, NoDangling, Children, Running, InKernel, SingleCalls

\* Outside of terminateProcess it does not matter who is running.
LEMMA TreeOutside ==
    ASSUME IInv, IInv', TreeInv, ~InKernel', UNCHANGED <<p_child, pcbFree>>
    PROVE  TreeInv'
<1>1. \A p \in pcbFree' : p_semAdd'[p] = NULL
  BY DEF IInv, TypeOK, Apart, BlockedIn
<1>2. ToSet(dying') = {}
  <2>1. cpu' \in {"run", "wait", "halt", "panic"}
    BY DEF IInv, TypeOK, CpuState, InKernel
  <2>2. dying' = <<>>
    BY <2>1 DEF IInv, Mode
  <2> QED BY <2>2 DEF ToSet
<1>3. \A p \in Pcb : Children(p) \cap pcbFree = {}
  BY DEF TreeInv, NoDangling
<1>4. NoDangling'
  BY <1>1, <1>2, <1>3 DEF TreeInv, NoDangling, Children
<1> QED BY <1>4 DEF TreeInv, InKernel

LEMMA TreeByCreate ==
    ASSUME IInv, IInv', TreeInv, NEW sup, CreateProcess(sup)
    PROVE  TreeInv'
<1>1. currentProc \in Pcb /\ cpu' = "run" /\ ~InKernel'
  BY CurrentRuns DEF CreateProcess, Resume, InKernel
<1>2. CASE pcbFree = {}
  BY <1>1, <1>2, TreeOutside DEF CreateProcess, procVars
<1>3. CASE pcbFree # {}
  <2>1. PICK p \in pcbFree : pcbFree' = pcbFree \ {p} /\ p_child' = NewChildren(p)
    BY <1>3 DEF CreateProcess
  <2>2. /\ p \in Pcb /\ p # currentProc /\ p_child[p] = <<>>
        /\ p_child \in [Pcb -> Seq(Pcb)]
        /\ \A q \in Pcb : p \notin Children(q)
    BY <2>1 DEF IInv, TypeOK, Apart, TreeInv, NoDangling
  <2>3. /\ IsQueue(p_child[currentProc], Pcb)
        /\ p \notin ToSet(p_child[currentProc])
    BY <1>1, <2>2 DEF TreeInv, IsQueue, Children
  <2> DEFINE longer == <<p>> \o p_child[currentProc]
  <2>4. IsQueue(longer, Pcb) /\ ToSet(longer) = Children(currentProc) \cup {p}
    BY <2>2, <2>3, QueuePrepend DEF Children
  <2>5. /\ p_child'[currentProc] = longer /\ p_child'[p] = <<>>
        /\ \A q \in Pcb \ {currentProc} : p_child'[q] = p_child[q]
    BY <1>1, <2>1, <2>2 DEF NewChildren
  <2> HIDE DEF longer
  <2>6. /\ ToSet(p_child'[currentProc]) = ToSet(p_child[currentProc]) \cup {p}
        /\ \A q \in Pcb \ {currentProc} : ToSet(p_child'[q]) \subseteq ToSet(p_child[q])
    <3>1. p_child'[currentProc] = longer
      BY <2>5
    <3>2. \A q \in Pcb \ {currentProc} : ToSet(p_child'[q]) = ToSet(p_child[q])
      BY <2>5
    <3> QED BY <2>4, <3>1, <3>2 DEF Children
  <2>7. \A q \in Pcb : IsInjective(p_child'[q])
    BY <2>4, <2>5 DEF TreeInv, IsQueue
  <2>8. dying' = <<>> /\ ToSet(dying') = {}
    BY <1>1 DEF IInv, Mode, ToSet
  <2>9. \A q \in pcbFree' : p_child'[q] = <<>> /\ p_semAdd'[q] = NULL
    <3>1. \A q \in pcbFree' : q \in Pcb /\ p_semAdd'[q] = NULL
      BY DEF IInv, TypeOK, Apart, BlockedIn
    <3>2. currentProc \notin pcbFree
      BY DEF IInv, Apart
    <3> QED BY <2>1, <2>5, <3>1, <3>2 DEF TreeInv, NoDangling
  <2> DEFINE now == [q \in Pcb |-> ToSet(p_child'[q])]
             was == [q \in Pcb |-> ToSet(p_child[q])]
  <2>a. /\ now[currentProc] = was[currentProc] \cup {p}
        /\ \A q \in Pcb \ {currentProc} : now[q] \subseteq was[q]
        /\ \A q \in Pcb : p \notin was[q] /\ was[q] \cap pcbFree = {}
        /\ \A q, r \in Pcb : was[q] \cap was[r] # {} => q = r
        /\ \A q \in Pcb : now[q] = ToSet(p_child'[q])
    BY <1>1, <2>2, <2>6 DEF TreeInv, NoDangling, Children
  <2> HIDE DEF now, was
  <2>10. \A q \in Pcb : now[q] \cap pcbFree' = {}
    BY <1>1, <2>1, <2>a
  <2>11. \A q, r \in Pcb : now[q] \cap now[r] # {} => q = r
    BY <1>1, <2>a
  <2>12. NoDangling'
    BY <2>8, <2>9, <2>10, <2>11, <2>a DEF NoDangling, Children
  <2> QED BY <1>1, <2>7, <2>12 DEF TreeInv
<1> QED BY <1>2, <1>3

LEMMA TreeByTerminate ==
    ASSUME IInv, IInv', TreeInv, cpu = "run", Terminate
    PROVE  TreeInv'
<1>1. /\ currentProc \in Pcb /\ currentProc' = currentProc /\ dying' = <<currentProc>>
      /\ p_child' = p_child /\ pcbFree' = pcbFree /\ p_semAdd' = p_semAdd
      /\ cpu' = "terminate" /\ currentProc # NULL /\ currentProc \notin pcbFree
  BY CurrentRuns DEF Terminate, procVars, semVars, IInv, Apart
<1>2. ToSet(dying') = {currentProc} /\ Len(dying') = 1
  BY <1>1 DEF ToSet
<1>3. SingleCalls'
  BY <1>1, <1>2 DEF SingleCalls
<1>4. NoDangling'
  <2>1. \A q \in Pcb : Children(q)' = Children(q)
    BY <1>1 DEF Children
  <2>2. (ToSet(dying) \ Running)' = {}
    BY <1>1, <1>2 DEF Running
  <2>3. \A q \in pcbFree' : p_child'[q] = <<>> /\ p_semAdd'[q] = NULL
    BY <1>1 DEF TreeInv, NoDangling
  <2>4. \A q \in Pcb : (Children(q) \cap (pcbFree \cup (ToSet(dying) \ Running)))' = {}
    <3>1. \A q \in Pcb : Children(q) \cap pcbFree = {}
      BY DEF TreeInv, NoDangling
    <3> QED BY <1>1, <2>1, <2>2, <3>1
  <2>5. \A q, r \in Pcb : Children(q)' \cap Children(r)' # {} => q = r
    BY <2>1 DEF TreeInv, NoDangling
  <2>6. ToSet(dying') \cap pcbFree' = {}
    BY <1>1, <1>2
  <2> QED BY <2>3, <2>4, <2>5, <2>6 DEF NoDangling
<1> QED BY <1>1, <1>3, <1>4 DEF TreeInv

----------------------------------------------------------------------------
(* terminateProcess.                                                       *)

LEMMA TreeByTerminateChild ==
    ASSUME IInv, IInv', TreeInv, TerminateChild
    PROVE  TreeInv'
<1> DEFINE p == Head(dying)
           c == Head(p_child[p])
<1>1. /\ currentProc \in Pcb /\ dying # <<>> /\ dying \in Seq(Pcb)
      /\ p_child \in [Pcb -> Seq(Pcb)] /\ cpu = "terminate" /\ SingleCalls
  BY DEF TerminateChild, IInv, TypeOK, Mode, InKernel, TreeInv
<1>2. p \in Pcb
  BY <1>1, HeadTailProperties
<1>3. /\ dying' = <<c>> \o dying /\ p_child' = [p_child EXCEPT ![p] = Tail(p_child[p])]
      /\ pcbFree' = pcbFree /\ p_semAdd' = p_semAdd /\ currentProc' = currentProc
      /\ cpu' = "terminate" /\ p_child[p] # <<>>
  BY DEF TerminateChild, OtherChildren, semVars
<1> HIDE DEF p
<1>4. /\ c \in Pcb /\ c \in Children(p) /\ IsQueue(Tail(p_child[p]), Pcb)
      /\ ToSet(Tail(p_child[p])) = Children(p) \ {c}
  BY <1>1, <1>2, <1>3, QueueTail DEF TreeInv, IsQueue, Children
<1>5. c \notin pcbFree /\ c \notin ToSet(dying) \ Running
  BY <1>2, <1>4 DEF TreeInv, NoDangling
<1> HIDE DEF c
<1>6. /\ ToSet(p_child'[p]) = ToSet(p_child[p]) \ {c}
      /\ \A q \in Pcb \ {p} : p_child'[q] = p_child[q]
      /\ IsInjective(p_child'[p])
  <2>1. p_child'[p] = Tail(p_child[p])
    BY <1>1, <1>2, <1>3
  <2> QED BY <1>1, <1>2, <1>3, <1>4, <2>1 DEF Children, IsQueue
<1>7. ToSet(dying') \subseteq {c} \cup ToSet(dying) /\ <<c>> \in Seq(Pcb)
  <2>1. <<c>> \in Seq(Pcb) /\ ToSet(<<c>>) = {c}
    BY <1>4 DEF ToSet
  <2> QED BY <1>1, <1>3, <2>1, ElementsOfConcat
<1> DEFINE now == [q \in Pcb |-> ToSet(p_child'[q])]
           was == [q \in Pcb |-> ToSet(p_child[q])]
<1>8. /\ now[p] = was[p] \ {c} /\ c \in was[p]
      /\ \A q \in Pcb \ {p} : now[q] = was[q]
      /\ \A q \in Pcb : was[q] \cap (pcbFree \cup (ToSet(dying) \ Running)) = {}
      /\ \A q, r \in Pcb : was[q] \cap was[r] # {} => q = r
      /\ \A q \in Pcb : now[q] = ToSet(p_child'[q])
  <2>1. \A q \in Pcb \ {p} : now[q] = was[q]
    BY <1>6
  <2> QED BY <1>2, <1>4, <1>6, <2>1 DEF TreeInv, NoDangling, Children
<1> HIDE DEF now, was
<1>9. \A q \in Pcb : c \notin now[q]
  BY <1>2, <1>8
<1>10. \A q \in Pcb : now[q] \cap (pcbFree \cup (ToSet(dying') \ Running)) = {}
  BY <1>2, <1>7, <1>8, <1>9
<1>11. \A q, r \in Pcb : now[q] \cap now[r] # {} => q = r
  BY <1>2, <1>8
<1>12. \A q \in pcbFree : p_child'[q] = <<>> /\ p_semAdd'[q] = NULL
  <2>1. \A q \in pcbFree : q \in Pcb /\ p_child[q] = <<>> /\ p_semAdd[q] = NULL
    BY DEF IInv, TypeOK, TreeInv, NoDangling
  <2> QED BY <1>3, <1>6, <2>1
<1>13. ToSet(dying') \cap pcbFree = {}
  BY <1>5, <1>7 DEF TreeInv, NoDangling
<1>14. NoDangling'
  BY <1>3, <1>8, <1>10, <1>11, <1>12, <1>13 DEF NoDangling, Children, Running
<1>15. SingleCalls'
  <2>1. c \in ToSet(dying) => c = currentProc
    BY <1>5 DEF Running
  <2>2. /\ Len(dying') = Len(dying) + 1 /\ Len(dying) \in Nat /\ dying'[1] = c
        /\ \A k \in 2 .. Len(dying) + 1 : dying'[k] = dying[k - 1]
    <3>1. Len(<<c>>) = 1 /\ <<c>>[1] = c
      OBVIOUS
    <3> QED BY <1>1, <1>3, <1>7, <3>1, ConcatProperties, LenProperties
  <2>3. \A k \in 2 .. Len(dying') : k - 1 \in 1 .. Len(dying) /\ dying'[k] \in ToSet(dying)
    <3>1. \A k \in 1 .. Len(dying) : dying[k] \in ToSet(dying)
      BY <1>1, Elements
    <3> QED BY <2>2, <3>1
  <2>4. ASSUME NEW j \in 1 .. Len(dying'), NEW k \in 1 .. Len(dying'), dying'[j] = dying'[k]
        PROVE  j = k \/ dying'[j] = currentProc
    <3>1. CASE j = 1 /\ k = 1
      BY <3>1
    <3>2. CASE j = 1 /\ k # 1
      BY <2>1, <2>2, <2>3, <2>4, <3>2
    <3>3. CASE j # 1 /\ k = 1
      BY <2>1, <2>2, <2>3, <2>4, <3>3
    <3>4. CASE j # 1 /\ k # 1
      <4>1. /\ j - 1 \in 1 .. Len(dying) /\ k - 1 \in 1 .. Len(dying)
            /\ dying[j - 1] = dying[k - 1] /\ dying'[j] = dying[j - 1]
        BY <2>2, <2>4, <3>4
      <4>2. j - 1 = k - 1 \/ dying[j - 1] = currentProc
        BY <1>1, <4>1 DEF SingleCalls
      <4> QED BY <4>1, <4>2
    <3> QED BY <3>1, <3>2, <3>3, <3>4
  <2> QED BY <1>3, <2>4 DEF SingleCalls
<1>16. \A q \in Pcb : IsInjective(p_child'[q])
  BY <1>6 DEF TreeInv
<1> QED BY <1>3, <1>14, <1>15, <1>16 DEF TreeInv


LEMMA TreeByUnlink ==
    ASSUME IInv, IInv', TreeInv, UnlinkBlocked \/ UnlinkReady
    PROVE  TreeInv'
<1>1. /\ UNCHANGED <<p_child, pcbFree, dying, currentProc>>
      /\ cpu = "terminate" /\ cpu' = "dispose" /\ p_child[Head(dying)] = <<>>
  BY DEF UnlinkBlocked, UnlinkReady
<1>2. \A p \in pcbFree' : p_semAdd'[p] = NULL
  BY DEF IInv, TypeOK, Apart, BlockedIn
<1>3. NoDangling'
  BY <1>1, <1>2 DEF TreeInv, NoDangling, Children, Running
<1>4. SingleCalls'
  BY <1>1 DEF TreeInv, InKernel, SingleCalls
<1> QED BY <1>1, <1>3, <1>4 DEF TreeInv

LEMMA TreeByDisposeChild ==
    ASSUME IInv, IInv', TreeInv, DisposeChild
    PROVE  TreeInv'
<1> DEFINE p == Head(dying)
<1>1. /\ cpu = "dispose" /\ p # currentProc /\ pcbFree' = pcbFree \cup {p}
      /\ dying' = Tail(dying) /\ cpu' = "terminate"
      /\ UNCHANGED <<p_child, p_semAdd, currentProc>>
  BY DEF DisposeChild, semVars
<1>2. /\ dying \in Seq(Pcb) /\ dying # <<>> /\ SingleCalls /\ p_child[p] = <<>>
  BY <1>1 DEF IInv, TypeOK, Mode, InKernel, TreeInv
<1>3. /\ p = dying[1] /\ Len(dying) \in Nat \ {0} /\ dying' \in Seq(Pcb)
      /\ Len(dying') = Len(dying) - 1
      /\ \A k \in 1 .. Len(dying) - 1 : dying'[k] = dying[k + 1]
  BY <1>1, <1>2, HeadTailProperties, LenProperties, EmptySeq
<1>4. p \notin ToSet(dying')
  <2>1. ToSet(dying') = {dying'[k] : k \in 1 .. Len(dying')}
    BY <1>3, Elements
  <2>2. \A k \in 1 .. Len(dying') : dying'[k] # p
    BY <1>1, <1>2, <1>3 DEF SingleCalls
  <2> QED BY <2>1, <2>2
<1>5. ToSet(dying') \subseteq ToSet(dying) /\ p \in ToSet(dying)
  <2>1. ToSet(dying) = {dying[k] : k \in 1 .. Len(dying)}
    BY <1>2, Elements
  <2> QED BY <1>1, <1>2, <1>3, <2>1, ElementsOfTail
<1>6. SingleCalls'
  <2>1. ASSUME NEW j \in 1 .. Len(dying'), NEW k \in 1 .. Len(dying'), dying'[j] = dying'[k]
        PROVE  j = k \/ dying'[j] = currentProc
    <3>1. /\ j + 1 \in 1 .. Len(dying) /\ k + 1 \in 1 .. Len(dying)
          /\ dying[j + 1] = dying[k + 1] /\ dying'[j] = dying[j + 1]
      BY <1>3, <2>1
    <3>2. j + 1 = k + 1 \/ dying[j + 1] = currentProc
      BY <1>2, <3>1 DEF SingleCalls
    <3> QED BY <3>1, <3>2
  <2> QED BY <1>1, <2>1 DEF SingleCalls
<1> HIDE DEF p
<1>7. \A q \in Pcb : Children(q) \cap (pcbFree' \cup (ToSet(dying') \ Running)) = {}
  <2>1. \A q \in Pcb : p \notin Children(q)
    BY <1>1, <1>5 DEF TreeInv, NoDangling, Running
  <2> QED BY <1>1, <1>5, <2>1 DEF TreeInv, NoDangling
<1>8. \A q \in pcbFree' : p_child'[q] = <<>> /\ p_semAdd'[q] = NULL
  <2>1. \A q \in pcbFree' : p_semAdd'[q] = NULL
    BY DEF IInv, TypeOK, Apart, BlockedIn
  <2> QED BY <1>1, <1>2, <2>1 DEF TreeInv, NoDangling
<1>9. ToSet(dying') \cap pcbFree' = {}
  BY <1>1, <1>4, <1>5 DEF TreeInv, NoDangling
<1>10. NoDangling'
  BY <1>1, <1>7, <1>8, <1>9 DEF TreeInv, NoDangling, Children, Running
<1> QED BY <1>1, <1>6, <1>10 DEF TreeInv

LEMMA InitTree == Init => TreeInv
<1>1. ToSet(<<>>) = {} /\ IsInjective(<<>>)
  BY DEF ToSet, IsInjective
<1> QED BY <1>1 DEF Init, TreeInv, NoDangling, Children, InKernel

\* A handler that ends in the scheduler is not in terminateProcess any more.
LEMMA SchedulerLeaves ==
    ASSUME NEW rq, NEW cur, NEW ps, Scheduler(rq, cur, ps)
    PROVE  ~InKernel'
BY DEF Scheduler, Dispatch, Idle, InKernel

LEMMA NextTree ==
    ASSUME IInv, IInv', TreeInv, [Next]_vars
    PROVE  TreeInv'
<1>1. CASE \E sup \in Support \cup {NULL} : CreateProcess(sup)
  BY <1>1, TreeByCreate
<1>2. CASE TerminateProcess \/ PassUpOrDie
  BY <1>2, TreeByTerminate DEF TerminateProcess, PassUpOrDie
<1>3. CASE TerminateChild \/ UnlinkBlocked \/ UnlinkReady \/ DisposeChild
  BY <1>3, TreeByTerminateChild, TreeByUnlink, TreeByDisposeChild
<1>4. CASE DisposeCurrent
  BY <1>4, SchedulerLeaves, TreeOutside DEF DisposeCurrent
<1>5. CASE GetInfo \/ Stopped \/ UNCHANGED vars
  BY <1>5, TreeUnchanged DEF GetInfo, Resume, Stopped, vars, procVars
<1>6. ASSUME NEW s \in Sema4, Passeren(s) \/ Verhogen(s) PROVE TreeInv'
  <2>1. ~InKernel' /\ UNCHANGED <<p_child, pcbFree>>
    BY <1>6, SchedulerLeaves DEF Passeren, Verhogen, procVars, Resume, InKernel
  <2> QED BY <2>1, TreeOutside
<1>7. ASSUME NEW d \in Device, WaitForDevice(d) \/ DeviceInterrupt(d) PROVE TreeInv'
  <2>1. ~InKernel' /\ UNCHANGED <<p_child, pcbFree>>
    BY <1>7, SchedulerLeaves
       DEF WaitForDevice, DeviceInterrupt, procVars, Resume, InKernel, Interruptible
  <2> QED BY <2>1, TreeOutside
<1>8. CASE WaitForClock \/ PltInterrupt \/ ItInterrupt
  <2>1. ~InKernel' /\ UNCHANGED <<p_child, pcbFree>>
    BY <1>8, SchedulerLeaves
       DEF WaitForClock, PltInterrupt, ItInterrupt, procVars
  <2> QED BY <2>1, TreeOutside
<1> QED BY <1>1, <1>2, <1>3, <1>4, <1>5, <1>6, <1>7, <1>8 DEF Next, Terminating

\* No list of children has a free pcb in it or one that is being killed, and no
\* pcb is in two lists, although terminateProcess leaves its own pcb in the list
\* of its parent: the recursion takes a child off the list before it frees it.
THEOREM NothingDangles == Spec => []NoDangling
<1>1. IInv /\ IInv' /\ TreeInv /\ [Next]_vars => TreeInv'
  BY NextTree
<1>2. TreeInv => NoDangling
  BY DEF TreeInv
<1> QED BY <1>1, <1>2, InitTree, Invariance, PTL DEF Spec

----------------------------------------------------------------------------
(* Wakeups.                                                                *)

\* Whoever is in the queue the scheduler is given is ready or runs after it.
LEMMA StillServed ==
    ASSUME NEW rq \in Seq(Pcb), NEW cur, NEW ps, Scheduler(rq, cur, ps), NEW p \in ToSet(rq)
    PROVE  p \in ToSet(readyQ') \cup {currentProc'}
<1>1. /\ Len(rq) \in Nat /\ rq # <<>> => Len(rq) # 0
      /\ ToSet(rq) = {rq[k] : k \in 1 .. Len(rq)}
  BY Elements, LenProperties, EmptySeq
<1>2. PICK k \in 1 .. Len(rq) : p = rq[k]
  BY <1>1
<1>3. rq # <<>>
  BY <1>2
<1>4. /\ readyQ' = Tail(rq) /\ currentProc' = rq[1] /\ Tail(rq) \in Seq(Pcb)
      /\ Len(Tail(rq)) = Len(rq) - 1
      /\ \A j \in 1 .. Len(rq) - 1 : Tail(rq)[j] = rq[j + 1]
  BY <1>3, HeadTailProperties DEF Scheduler, Dispatch
<1>5. CASE k = 1
  BY <1>2, <1>4, <1>5
<1>6. CASE k # 1
  <2>1. k - 1 \in 1 .. Len(Tail(rq)) /\ Tail(rq)[k - 1] = p
    BY <1>1, <1>2, <1>4, <1>6
  <2>2. ToSet(Tail(rq)) = {Tail(rq)[j] : j \in 1 .. Len(Tail(rq))}
    BY <1>4, Elements
  <2> QED BY <1>4, <2>1, <2>2
<1> QED BY <1>5, <1>6

\* In a state of the invariant a semaphore somebody waits for is negative, so
\* that its V finds the first of them.
LEMMA VTakesTheFirst ==
    ASSUME IInv, NEW a \in SemAdd, asl[a] # <<>>, V(a)
    PROVE  /\ asl'[a] = Tail(asl[a]) /\ ReadyAfterV(a) \in Seq(Pcb)
           /\ Head(asl[a]) \in ToSet(ReadyAfterV(a))
<1>1. /\ asl \in [SemAdd -> Seq(Pcb)] /\ semaphore[a] \in Int /\ readyQ \in Seq(Pcb)
      /\ Len(asl[a]) \in Nat \ {0} /\ asl[a] \in Seq(Pcb) /\ Head(asl[a]) \in Pcb
  BY LenProperties, EmptySeq, HeadTailProperties DEF IInv, TypeOK
<1>2. semaphore[a] < 0
  <2>1. CASE a \in Sema4
    BY <1>1, <2>1 DEF IInv, Balanced
  <2>2. CASE a \in Device \cup {Clock}
    BY <1>1, <2>2 DEF IInv, Balanced
  <2> QED BY <2>1, <2>2 DEF SemAdd
<1>3. Signals(a)
  BY <1>1, <1>2 DEF Signals
<1>4. asl' = [asl EXCEPT ![a] = Tail(asl[a])] /\ ReadyAfterV(a) = Append(readyQ, Head(asl[a]))
  BY <1>3 DEF V, RemoveBlocked, Dequeue, ReadyAfterV
<1> QED BY <1>1, <1>4, ElementsOfAppend

\* What VWakes says of one semaphore.
Wakes(a) ==
    semaphore'[a] = semaphore[a] + 1 /\ ~InKernel /\ asl[a] # <<>>
        => /\ asl'[a] = Tail(asl[a])
           /\ Head(asl[a]) \in ToSet(readyQ') \cup {currentProc'}

\* No V, no kill: no semaphore goes up.
LEMMA NothingToWake ==
    ASSUME IInv, NEW a \in SemAdd, NEW b \in SemAdd,
           UNCHANGED semaphore \/ semaphore' = [semaphore EXCEPT ![b] = @ - 1]
    PROVE  Wakes(a)
<1>1. /\ semaphore[a] \in Int /\ semaphore[b] \in Int
      /\ semaphore'[a] = semaphore[a] \/ semaphore'[a] = semaphore[a] - 1
  BY DEF IInv, TypeOK
<1>2. semaphore'[a] # semaphore[a] + 1
  BY <1>1
<1> QED BY <1>2 DEF Wakes

\* A V on b does not raise a.
LEMMA OnlyThatOne ==
    ASSUME IInv, NEW a \in SemAdd, NEW b \in SemAdd, a # b,
           NEW v, semaphore' = [semaphore EXCEPT ![b] = v]
    PROVE  Wakes(a)
<1>1. semaphore[a] \in Int /\ semaphore'[a] = semaphore[a]
  BY DEF IInv, TypeOK
<1>2. semaphore'[a] # semaphore[a] + 1
  BY <1>1
<1> QED BY <1>2 DEF Wakes

LEMMA VerhogenWakes ==
    ASSUME IInv, NEW a \in SemAdd, NEW s \in Sema4, Verhogen(s)
    PROVE  Wakes(a)
<1>1. V(s) /\ readyQ' = ReadyAfterV(s) /\ s \in SemAdd
  BY DEF Verhogen, SemAdd
<1>2. CASE a = s
  BY <1>1, <1>2, VTakesTheFirst DEF Wakes
<1>3. CASE a # s
  BY <1>1, <1>3, OnlyThatOne DEF V
<1> QED BY <1>2, <1>3

LEMMA DeviceInterruptWakes ==
    ASSUME IInv, NEW a \in SemAdd, NEW d \in Device, DeviceInterrupt(d)
    PROVE  Wakes(a)
<1>1. V(d) /\ d \in SemAdd
  BY DEF DeviceInterrupt, SemAdd
<1>2. ASSUME a = d, asl[d] # <<>>
      PROVE  asl'[d] = Tail(asl[d]) /\ Head(asl[d]) \in ToSet(readyQ') \cup {currentProc'}
  <2>1. /\ asl'[d] = Tail(asl[d]) /\ ReadyAfterV(d) \in Seq(Pcb)
        /\ Head(asl[d]) \in ToSet(ReadyAfterV(d))
    BY <1>1, <1>2, VTakesTheFirst
  <2>2. CASE currentProc = NULL
    <3>1. Scheduler(ReadyAfterV(d), NULL, p_s)
      BY <2>2 DEF DeviceInterrupt
    <3> QED BY <2>1, <3>1, StillServed
  <2>3. CASE currentProc # NULL
    BY <2>1, <2>3 DEF DeviceInterrupt
  <2> QED BY <2>1, <2>2, <2>3
<1>3. CASE a = d
  BY <1>2, <1>3 DEF Wakes
<1>4. CASE a # d
  BY <1>1, <1>4, OnlyThatOne DEF V
<1> QED BY <1>3, <1>4

\* The tick makes the clock's semaphore 0: it goes up by one only when exactly
\* one process waits for it.
LEMMA ItInterruptWakes ==
    ASSUME IInv, NEW a \in SemAdd, ItInterrupt
    PROVE  Wakes(a)
<1> DEFINE q == asl[Clock]
           released == readyQ \o q
<1>1. Clock \in SemAdd /\ semaphore' = [semaphore EXCEPT ![Clock] = 0]
  BY DEF ItInterrupt, SemAdd
<1>2. /\ asl \in [SemAdd -> Seq(Pcb)] /\ semaphore \in [SemAdd -> Int]
      /\ readyQ \in Seq(Pcb) /\ q \in Seq(Pcb)
  BY <1>1 DEF IInv, TypeOK
<1>3. ASSUME semaphore'[Clock] = semaphore[Clock] + 1, q # <<>>
      PROVE  asl'[Clock] = Tail(q) /\ Head(q) \in ToSet(readyQ') \cup {currentProc'}
  <2>1. Len(q) = 1 /\ Tail(q) = <<>>
    <3>1. semaphore[Clock] = -1
      BY <1>1, <1>2, <1>3
    <3>2. semaphore[Clock] <= -Len(q) /\ Len(q) \in Nat /\ Len(q) # 0
      BY <1>1, <1>2, <1>3, LenProperties, EmptySeq DEF IInv, Balanced
    <3>3. \A n \in Nat : n # 0 /\ -1 <= -n => n = 1
      OBVIOUS
    <3>5. Len(q) = 1
      BY <3>1, <3>2, <3>3
    <3>4. Tail(q) \in Seq(Pcb) /\ Len(Tail(q)) = 0
      BY <1>2, <1>3, <3>5, HeadTailProperties
    <3> QED BY <3>5, <3>4, EmptySeq
  <2>2. asl' = [asl EXCEPT ![Clock] = <<>>]
    BY <1>3 DEF ItInterrupt, ReleaseClock, Dequeue
  <2> HIDE DEF q
  <2>3. released \in Seq(Pcb) /\ Head(q) \in ToSet(released)
    <3>1. Head(q) = q[1] /\ 1 \in 1 .. Len(q)
      BY <1>2, <1>3, <2>1, HeadTailProperties
    <3>2. Head(q) \in ToSet(q)
      BY <1>2, <3>1, Elements
    <3> QED BY <1>2, <3>2, ElementsOfConcat
  <2>5. IF currentProc = NULL THEN Scheduler(released, NULL, p_s)
        ELSE Scheduler(Append(released, currentProc), currentProc, StateCopy)
    BY DEF ItInterrupt, Preempted, q
  <2>6. asl'[Clock] = Tail(q)
    BY <1>1, <1>2, <2>1, <2>2
  <2> HIDE DEF released
  <2>7. CASE currentProc = NULL
    BY <2>3, <2>5, <2>6, <2>7, StillServed
  <2>8. CASE currentProc # NULL
    <3>1. currentProc \in Pcb
      BY <2>8 DEF IInv, TypeOK
    <3>2. /\ Append(released, currentProc) \in Seq(Pcb)
          /\ Head(q) \in ToSet(Append(released, currentProc))
      BY <2>3, <3>1, ElementsOfAppend
    <3> QED BY <2>5, <2>6, <2>8, <3>2, StillServed
  <2> QED BY <2>7, <2>8
<1>4. CASE a = Clock
  BY <1>3, <1>4 DEF Wakes
<1>5. CASE a # Clock
  BY <1>1, <1>5, OnlyThatOne
<1> QED BY <1>4, <1>5

LEMMA NextWakes ==
    ASSUME IInv, [Next]_vars, NEW a \in SemAdd
    PROVE  Wakes(a)
<1>1. CASE \/ \E sup \in Support \cup {NULL} : CreateProcess(sup)
           \/ TerminateProcess \/ PassUpOrDie \/ GetInfo \/ PltInterrupt \/ Stopped
           \/ UNCHANGED vars
  <2>1. UNCHANGED semaphore
    BY <1>1 DEF CreateProcess, TerminateProcess, PassUpOrDie, Terminate, GetInfo,
                PltInterrupt, Stopped, vars, semVars
  <2> QED BY <2>1, NothingToWake
<1>2. ASSUME NEW s \in Sema4, Passeren(s) \/ Verhogen(s) PROVE Wakes(a)
  BY <1>2, NothingToWake, VerhogenWakes DEF Passeren, SemAdd
<1>3. ASSUME NEW d \in Device, WaitForDevice(d) \/ DeviceInterrupt(d) PROVE Wakes(a)
  BY <1>3, NothingToWake, DeviceInterruptWakes DEF WaitForDevice, SemAdd
<1>4. CASE WaitForClock
  BY <1>4, NothingToWake DEF WaitForClock, SemAdd
<1>5. CASE Terminating
  BY <1>5 DEF Wakes, InKernel, Terminating, TerminateChild, UnlinkBlocked, UnlinkReady,
              DisposeChild, DisposeCurrent
<1>6. CASE ItInterrupt
  BY <1>6, ItInterruptWakes
<1> QED BY <1>1, <1>2, <1>3, <1>4, <1>5, <1>6 DEF Next

\* No wakeup is lost: a V on a semaphore somebody waits for makes the first of
\* them ready, whatever early interrupts and kills did to its value before.
THEOREM NoLostWakeup == Spec => VWakes
<1>1. IInv /\ [Next]_vars =>
      [\A a \in SemAdd :
          semaphore'[a] = semaphore[a] + 1 /\ ~InKernel /\ asl[a] # <<>>
              => /\ asl'[a] = Tail(asl[a])
                 /\ Head(asl[a]) \in ToSet(readyQ') \cup {currentProc'}]_vars
  BY NextWakes DEF Wakes
<1> QED BY <1>1, Invariance, PTL DEF Spec, VWakes

----------------------------------------------------------------------------
(* Sequences.                                                              *)

\* The elements of a sequence and their places.
LEMMA Positions ==
    ASSUME NEW S, NEW q \in Seq(S)
    PROVE  /\ \A k \in 1 .. Len(q) : q[k] \in ToSet(q)
           /\ \A x \in ToSet(q) : \E k \in 1 .. Len(q) : q[k] = x
BY Elements

\* A queue has each element in one place.
LEMMA OnePlace ==
    ASSUME NEW S, NEW q, IsQueue(q, S)
    PROVE  \A j, k \in 1 .. Len(q) : q[j] = q[k] => j = k
BY LenProperties DEF IsQueue, IsInjective

\* What is left of w after its first n elements.
Left(t, w, n) ==
    /\ Len(w) = Len(t) + n
    /\ \A k \in 1 .. Len(t) : t[k] = w[k + n]

\* The first of a queue leave it, others come behind.
LEMMA InTurn ==
    ASSUME NEW s \in Seq(Pcb), NEW r \in Seq(Pcb), NEW t \in Seq(Pcb), NEW n \in Nat,
           \A j, k \in 1 .. Len(s \o r) : (s \o r)[j] = (s \o r)[k] => j = k,
           Left(t, s \o r, n)
    PROVE  FirstComeFirstServed(s, t)
<1> DEFINE w == s \o r
<1>1. /\ w \in Seq(Pcb) /\ Len(w) = Len(s) + Len(r) /\ Len(r) \in Nat
      /\ \A k \in 1 .. Len(s) : w[k] = s[k]
  BY ConcatProperties, LenProperties
<1>2. /\ \A j, k \in 1 .. Len(w) : w[j] = w[k] => j = k
      /\ Len(w) = Len(t) + n /\ \A k \in 1 .. Len(t) : t[k] = w[k + n]
  BY DEF Left
<1>3. /\ DOMAIN s = 1 .. Len(s) /\ Len(s) \in Nat
      /\ DOMAIN t = 1 .. Len(t) /\ Len(t) \in Nat
  BY LenProperties
<1>a. /\ \A k \in 1 .. Len(s) : s[k] \in ToSet(s)
      /\ \A x \in ToSet(s) : \E k \in 1 .. Len(s) : s[k] = x
  BY Positions
<1>b. /\ \A k \in 1 .. Len(t) : t[k] \in ToSet(t)
      /\ \A x \in ToSet(t) : \E k \in 1 .. Len(t) : t[k] = x
  BY Positions
<1> HIDE DEF w
<1> SUFFICES ASSUME NEW p \in ToSet(s) \cap ToSet(t), NEW q \in Pcb
             PROVE  /\ Before(s, p, q) => q \in ToSet(t) /\ Before(t, p, q)
                    /\ q \in ToSet(t) \ ToSet(s) => Before(t, p, q)
  BY DEF FirstComeFirstServed
<1>4. PICK i \in 1 .. Len(t) : t[i] = p
  BY <1>b
<1>5. ASSUME NEW k \in 1 .. Len(s), s[k] = p
      PROVE  k = i + n
  <2>1. w[k] = w[i + n] /\ k \in 1 .. Len(w) /\ i + n \in 1 .. Len(w)
    BY <1>1, <1>2, <1>3, <1>4, <1>5
  <2> QED BY <1>2, <2>1
<1>6. i + n \in 1 .. Len(s)
  <2>1. PICK k \in 1 .. Len(s) : s[k] = p
    BY <1>a
  <2> QED BY <1>5, <2>1
<1>7. ASSUME Before(s, p, q)
      PROVE  q \in ToSet(t) /\ Before(t, p, q)
  <2>1. PICK j, k \in 1 .. Len(s) : j < k /\ s[j] = p /\ s[k] = q
    BY <1>3, <1>7 DEF Before
  <2>2. j = i + n
    BY <1>5, <2>1
  <2>3. k - n \in 1 .. Len(t) /\ i < k - n /\ (k - n) + n = k
    BY <1>1, <1>2, <1>3, <2>1, <2>2
  <2>4. t[k - n] = q
    BY <1>1, <1>2, <2>1, <2>3
  <2> QED BY <1>3, <1>b, <1>4, <2>3, <2>4 DEF Before
<1>8. ASSUME q \in ToSet(t) \ ToSet(s)
      PROVE  Before(t, p, q)
  <2>1. PICK k \in 1 .. Len(t) : t[k] = q
    BY <1>b, <1>8
  <2>2. k + n \notin 1 .. Len(s)
    BY <1>1, <1>2, <1>3, <1>a, <1>8, <2>1
  <2>3. i < k
    BY <1>3, <1>6, <2>1, <2>2
  <2> QED BY <1>3, <1>4, <2>1, <2>3 DEF Before
<1> QED BY <1>7, <1>8

\* A queue that stays as it is, loses its head, all of it, or gets one more.
LEMMA Standing ==
    ASSUME NEW s, IsQueue(s, Pcb)
    PROVE  /\ FirstComeFirstServed(s, s)
           /\ s # <<>> => FirstComeFirstServed(s, Tail(s))
           /\ FirstComeFirstServed(s, <<>>)
           /\ \A e \in Pcb : IsQueue(Append(s, e), Pcb) => FirstComeFirstServed(s, Append(s, e))
<1>1. /\ s \in Seq(Pcb) /\ Len(s) \in Nat
      /\ \A j, k \in 1 .. Len(s) : s[j] = s[k] => j = k
  BY OnePlace, LenProperties DEF IsQueue
<1>2. s \o <<>> = s /\ <<>> \in Seq(Pcb) /\ Len(<<>>) = 0
  BY <1>1
<1>3. FirstComeFirstServed(s, s)
  <2>1. Left(s, s \o <<>>, 0)
    BY <1>1, <1>2 DEF Left
  <2> QED BY <1>1, <1>2, <2>1, InTurn
<1>4. ASSUME s # <<>>
      PROVE  FirstComeFirstServed(s, Tail(s))
  <2>1. Left(Tail(s), s \o <<>>, 1) /\ Tail(s) \in Seq(Pcb)
    BY <1>1, <1>2, <1>4, HeadTailProperties, EmptySeq DEF Left
  <2> QED BY <1>1, <1>2, <2>1, InTurn
<1>5. FirstComeFirstServed(s, <<>>)
  <2>1. Left(<<>>, s \o <<>>, Len(s))
    BY <1>1, <1>2 DEF Left
  <2> QED BY <1>1, <1>2, <2>1, InTurn
<1>6. ASSUME NEW e \in Pcb, IsQueue(Append(s, e), Pcb)
      PROVE  FirstComeFirstServed(s, Append(s, e))
  <2> DEFINE r == <<e>>
             t == Append(s, e)
  <2>1. s \o r = t /\ r \in Seq(Pcb)
    BY <1>1
  <2> HIDE DEF r, t
  <2>2. t \in Seq(Pcb) /\ Len(t) \in Nat /\ \A j, k \in 1 .. Len(t) : t[j] = t[k] => j = k
    BY <1>6, OnePlace, LenProperties DEF IsQueue, t
  <2>3. Left(t, s \o r, 0)
    BY <2>1, <2>2 DEF Left
  <2>4. FirstComeFirstServed(s, t)
    BY <1>1, <2>1, <2>2, <2>3, InTurn
  <2> QED BY <2>4 DEF t
<1> QED BY <1>3, <1>4, <1>5, <1>6

\* One element is taken out of a queue, by a kill.
LEMMA TakenOut ==
    ASSUME NEW s, IsQueue(s, Pcb), NEW e, InKernel
    PROVE  FirstComeFirstServed(s, RemoveFirst(s, e))
<1>1. CASE e \notin ToSet(s)
  BY <1>1, QueueRemove, Standing
<1>2. CASE e \in ToSet(s)
  <2> DEFINE t == RemoveFirst(s, e)
  <2>1. /\ IsQueue(t, Pcb) /\ ToSet(t) = ToSet(s) \ {e} /\ Len(t) = Len(s) - 1
        /\ s \in Seq(Pcb) /\ t \in Seq(Pcb)
    BY <1>2, QueueRemove DEF IsQueue
  <2>2. PICK i \in 1 .. Len(s) :
            \A j \in 1 .. Len(s) - 1 : t[j] = IF j < i THEN s[j] ELSE s[j + 1]
    BY <1>2, QueueRemove
  <2> HIDE DEF t
  <2>3. /\ DOMAIN s = 1 .. Len(s) /\ Len(s) \in Nat
        /\ DOMAIN t = 1 .. Len(t) /\ Len(t) = Len(s) - 1
    BY <2>1, LenProperties
  <2>b. \A x \in ToSet(t) : \E k \in 1 .. Len(s) - 1 : t[k] = x
    <3>1. \A x \in ToSet(t) : \E k \in 1 .. Len(t) : t[k] = x
      BY <2>1, Positions
    <3> QED BY <2>1, <3>1
  <2>c. \A j, k \in 1 .. Len(s) : s[j] = s[k] => j = k
    BY OnePlace
  <2>4. ASSUME NEW p \in ToSet(t), NEW q \in ToSet(t), Before(s, p, q)
        PROVE  Before(t, p, q)
    <3>1. PICK a \in 1 .. Len(s) - 1, b \in 1 .. Len(s) - 1 : t[a] = p /\ t[b] = q
      BY <2>b
    <3>2. PICK j, k \in 1 .. Len(s) : j < k /\ s[j] = p /\ s[k] = q
      BY <2>3, <2>4 DEF Before
    <3>3. /\ j = IF a < i THEN a ELSE a + 1
          /\ k = IF b < i THEN b ELSE b + 1
      <4>1. a \in 1 .. Len(s) /\ a + 1 \in 1 .. Len(s) /\ b \in 1 .. Len(s) /\ b + 1 \in 1 .. Len(s)
        BY <2>3
      <4> QED BY <2>2, <2>c, <3>1, <3>2, <4>1
    <3>4. a < b
      BY <2>3, <3>2, <3>3
    <3> QED BY <2>3, <3>1, <3>4 DEF Before
  <2> QED BY <2>1, <2>4 DEF FirstComeFirstServed, t
<1> QED BY <1>1, <1>2

----------------------------------------------------------------------------
(* The ready queue.                                                        *)

ReadyInTurn == FirstComeFirstServed(readyQ, readyQ')

\* What IInv says of the queues.
LEMMA TheQueues ==
    ASSUME IInv
    PROVE  /\ IsQueue(readyQ, Pcb)
           /\ \A a \in SemAdd : IsQueue(asl[a], Pcb)
           /\ asl \in [SemAdd -> Seq(Pcb)]
           /\ currentProc # NULL => currentProc \in Pcb
           /\ currentProc # NULL => currentProc \notin ToSet(readyQ)
BY DEF IInv, TypeOK, Apart, Consistent, IsQueue

LEMMA TheQueuesAfter ==
    ASSUME IInv'
    PROVE  /\ IsQueue(readyQ', Pcb)
           /\ \A a \in SemAdd : IsQueue(asl'[a], Pcb)
           /\ currentProc' # NULL => currentProc' \notin ToSet(readyQ')
BY DEF IInv, TypeOK, Apart, Consistent, IsQueue

\* The scheduler takes the head of what a handler makes of the ready queue.
LEMMA SchedulerTakesHead ==
    ASSUME IInv', NEW w \in Seq(Pcb), NEW cur, NEW ps, Scheduler(w, cur, ps)
    PROVE  /\ w = <<>> => readyQ' = <<>>
           /\ w # <<>> =>
                /\ readyQ' = Tail(w) /\ currentProc' = w[1]
                /\ Len(w) = Len(readyQ') + 1
                /\ \A k \in 1 .. Len(readyQ') : readyQ'[k] = w[k + 1]
                /\ \A j, k \in 1 .. Len(w) : w[j] = w[k] => j = k
<1>1. w = <<>> => readyQ' = <<>>
  BY DEF Scheduler
<1>2. ASSUME w # <<>>
      PROVE  /\ readyQ' = Tail(w) /\ currentProc' = w[1]
             /\ Len(w) = Len(readyQ') + 1
             /\ \A k \in 1 .. Len(readyQ') : readyQ'[k] = w[k + 1]
             /\ \A j, k \in 1 .. Len(w) : w[j] = w[k] => j = k
  <2>1. readyQ' = Tail(w) /\ currentProc' = Head(w)
    BY <1>2 DEF Scheduler, Dispatch
  <2>2. /\ Len(w) \in Nat \ {0} /\ Head(w) = w[1] /\ Head(w) \in Pcb
        /\ Len(readyQ') = Len(w) - 1
        /\ \A k \in 1 .. Len(w) - 1 : readyQ'[k] = w[k + 1]
    BY <1>2, <2>1, HeadTailProperties, LenProperties, EmptySeq
  <2>3. /\ \A k \in 1 .. Len(w) - 1 : readyQ'[k] # w[1]
        /\ \A j, k \in 1 .. Len(w) - 1 : readyQ'[j] = readyQ'[k] => j = k
    <3>1. readyQ' \in Seq(Pcb) /\ \A j, k \in 1 .. Len(readyQ') : readyQ'[j] = readyQ'[k] => j = k
      BY TheQueuesAfter, OnePlace DEF IsQueue
    <3>2. w[1] \notin ToSet(readyQ')
      BY <2>1, <2>2, TheQueuesAfter, PcbAssumption
    <3>3. \A k \in 1 .. Len(readyQ') : readyQ'[k] \in ToSet(readyQ')
      BY <3>1, Positions
    <3> QED BY <2>2, <3>1, <3>2, <3>3
  <2>4. ASSUME NEW j \in 1 .. Len(w), NEW k \in 1 .. Len(w), w[j] = w[k]
        PROVE  j = k
    <3>1. j # 1 => j - 1 \in 1 .. Len(w) - 1 /\ w[j] = readyQ'[j - 1]
      BY <2>2
    <3>2. k # 1 => k - 1 \in 1 .. Len(w) - 1 /\ w[k] = readyQ'[k - 1]
      BY <2>2
    <3> QED BY <2>3, <2>4, <3>1, <3>2
  <2> QED BY <2>1, <2>2, <2>4
<1> QED BY <1>1, <1>2

LEMMA SchedulerInTurn ==
    ASSUME IInv, IInv', NEW r \in Seq(Pcb), NEW cur, NEW ps, Scheduler(readyQ \o r, cur, ps)
    PROVE  ReadyInTurn
<1> DEFINE w == readyQ \o r
<1>1. IsQueue(readyQ, Pcb) /\ readyQ \in Seq(Pcb) /\ readyQ' \in Seq(Pcb) /\ w \in Seq(Pcb)
  BY TheQueues, TheQueuesAfter, ConcatProperties DEF IsQueue
<1>2. CASE w = <<>>
  <2>1. readyQ' = <<>>
    BY <1>1, <1>2, SchedulerTakesHead
  <2> QED BY <1>1, <2>1, Standing DEF ReadyInTurn
<1>3. CASE w # <<>>
  <2>1. /\ Left(readyQ', w, 1)
        /\ \A j, k \in 1 .. Len(w) : w[j] = w[k] => j = k
    BY <1>1, <1>3, SchedulerTakesHead DEF Left
  <2> QED BY <1>1, <2>1, InTurn DEF ReadyInTurn
<1> QED BY <1>2, <1>3

\* Nobody, or one more, has been put in the ready queue.
LEMMA SchedulerServes ==
    ASSUME IInv, IInv', NEW cur, NEW ps,
           \/ Scheduler(readyQ, cur, ps)
           \/ \E e \in Pcb : Scheduler(Append(readyQ, e), cur, ps)
    PROVE  ReadyInTurn
<1>1. readyQ \in Seq(Pcb)
  BY TheQueues DEF IsQueue
<1>2. CASE Scheduler(readyQ, cur, ps)
  <2>1. readyQ \o <<>> = readyQ /\ <<>> \in Seq(Pcb)
    BY <1>1
  <2> QED BY <1>2, <2>1, SchedulerInTurn
<1>3. ASSUME NEW e \in Pcb, Scheduler(Append(readyQ, e), cur, ps)
      PROVE  ReadyInTurn
  <2>1. readyQ \o <<e>> = Append(readyQ, e) /\ <<e>> \in Seq(Pcb)
    BY <1>1
  <2> QED BY <1>3, <2>1, SchedulerInTurn
<1> QED BY <1>2, <1>3

\* A handler that goes on with the current process.
LEMMA ReadyKept ==
    ASSUME IInv, IInv', readyQ' = readyQ \/ \E e \in Pcb : readyQ' = Append(readyQ, e)
    PROVE  ReadyInTurn
BY TheQueues, TheQueuesAfter, Standing DEF ReadyInTurn

----------------------------------------------------------------------------
(* The queues of semaphores.                                               *)

SemInTurn(a) == FirstComeFirstServed(asl[a], asl'[a])

\* One queue at most changes, in one of the ways the ASL has.
LEMMA OneQueueInTurn ==
    ASSUME IInv, IInv', NEW b, NEW q, asl' = [asl EXCEPT ![b] = q],
           b \in SemAdd => \/ q = <<>>
                           \/ q = Tail(asl[b]) /\ asl[b] # <<>>
                           \/ \E e \in Pcb : q = Append(asl[b], e)
                           \/ InKernel /\ \E e : q = RemoveFirst(asl[b], e)
    PROVE  \A a \in SemAdd : SemInTurn(a)
<1> SUFFICES ASSUME NEW a \in SemAdd PROVE SemInTurn(a)
  OBVIOUS
<1>1. IsQueue(asl[a], Pcb) /\ IsQueue(asl'[a], Pcb) /\ a \in DOMAIN asl
  BY TheQueues, TheQueuesAfter
<1>2. CASE a # b
  <2>1. asl'[a] = asl[a]
    BY <1>1, <1>2
  <2> QED BY <1>1, <2>1, Standing DEF SemInTurn
<1>3. CASE a = b
  <2>1. asl'[a] = q
    BY <1>1, <1>3
  <2>2. CASE q = <<>> \/ (q = Tail(asl[b]) /\ asl[b] # <<>>)
    BY <1>1, <1>3, <2>1, <2>2, Standing DEF SemInTurn
  <2>3. ASSUME NEW e \in Pcb, q = Append(asl[b], e) PROVE SemInTurn(a)
    BY <1>1, <1>3, <2>1, <2>3, Standing DEF SemInTurn
  <2>4. ASSUME NEW e, InKernel, q = RemoveFirst(asl[b], e) PROVE SemInTurn(a)
    BY <1>1, <1>3, <2>1, <2>4, TakenOut DEF SemInTurn
  <2> QED BY <1>3, <2>2, <2>3, <2>4
<1> QED BY <1>2, <1>3

LEMMA QueuesKept ==
    ASSUME IInv, asl' = asl
    PROVE  \A a \in SemAdd : SemInTurn(a)
BY TheQueues, Standing DEF SemInTurn

\* insertBlocked puts a process behind the others.
LEMMA BlocksInTurn ==
    ASSUME IInv, IInv', NEW b \in SemAdd, NEW p \in Pcb, InsertBlocked(b, p)
    PROVE  /\ \A a \in SemAdd : SemInTurn(a)
           /\ ToSet(asl[Clock]) \subseteq ToSet(asl'[Clock])
<1>1. CASE asl' = asl
  BY <1>1, QueuesKept
<1>2. CASE asl' = [asl EXCEPT ![b] = Append(@, p)]
  <2>1. asl' = [asl EXCEPT ![b] = Append(asl[b], p)]
    BY <1>2
  <2>2. \A a \in SemAdd : SemInTurn(a)
    BY <2>1, OneQueueInTurn
  <2>3. IsQueue(asl[Clock], Pcb) /\ IsQueue(asl'[Clock], Pcb)
    BY TheQueues, TheQueuesAfter DEF SemAdd
  <2>4. CASE b = Clock
    <3>1. asl'[Clock] = Append(asl[Clock], p) /\ asl[Clock] \in Seq(Pcb)
      BY <2>1, <2>4, TheQueues DEF IsQueue
    <3> DEFINE q == asl[Clock]
               t == asl'[Clock]
    <3>2. \A k \in 1 .. Len(q) : t[k] = q[k] /\ k \in 1 .. Len(t)
      BY <3>1
    <3>3. q \in Seq(Pcb) /\ t \in Seq(Pcb)
      BY <2>3 DEF IsQueue
    <3> HIDE DEF q, t
    <3>4. ASSUME NEW x \in ToSet(q) PROVE x \in ToSet(t)
      <4>1. PICK k \in 1 .. Len(q) : q[k] = x
        BY <3>3, Positions
      <4>2. t[k] \in ToSet(t)
        BY <3>2, <3>3, Positions
      <4> QED BY <3>2, <4>1, <4>2
    <3> QED BY <2>2, <3>4 DEF q, t
  <2>5. CASE b # Clock
    BY <2>1, <2>2, <2>5, TheQueues DEF SemAdd
  <2> QED BY <2>2, <2>4, <2>5
<1> QED BY <1>1, <1>2 DEF InsertBlocked

\* A V takes the head of its queue and puts it at the end of the ready queue.
LEMMA VInTurn ==
    ASSUME IInv, IInv', NEW b \in SemAdd \ {Clock}, V(b)
    PROVE  /\ \A a \in SemAdd : SemInTurn(a)
           /\ asl'[Clock] = asl[Clock]
           /\ ReadyAfterV(b) = readyQ \/ \E e \in Pcb : ReadyAfterV(b) = Append(readyQ, e)
<1>1. CASE ~Signals(b)
  BY <1>1, QueuesKept DEF V, ReadyAfterV
<1>2. CASE Signals(b)
  <2>1. asl' = [asl EXCEPT ![b] = Tail(asl[b])] /\ asl[b] # <<>>
    BY <1>2 DEF V, Signals, RemoveBlocked, Dequeue
  <2>2. ReadyAfterV(b) = Append(readyQ, Head(asl[b]))
    BY <1>2 DEF ReadyAfterV
  <2>3. Head(asl[b]) \in Pcb
    BY <2>1, TheQueues, QueueTail
  <2>4. \A a \in SemAdd : SemInTurn(a)
    BY <2>1, OneQueueInTurn
  <2>5. asl'[Clock] = asl[Clock]
    BY <2>1, TheQueues DEF SemAdd
  <2> QED BY <2>2, <2>3, <2>4, <2>5
<1> QED BY <1>1, <1>2

----------------------------------------------------------------------------
(* Those who wait for the clock.                                           *)

ClockInTurn ==
    \A p, q \in Pcb :
        Before(asl[Clock], p, q) /\ q \in ToSet(readyQ') =>
            p = currentProc' \/ Before(readyQ', p, q)

\* Who waits for the clock is not ready.
LEMMA WaitersNotReady ==
    ASSUME IInv
    PROVE  \A x \in ToSet(asl[Clock]) : x \notin ToSet(readyQ)
<1>1. Clock \in SemAdd /\ NULL # Clock
  BY SemAddAssumption DEF SemAdd
<1>2. ToSet(asl[Clock]) = {x \in Pcb : p_semAdd[x] = Clock}
  BY <1>1 DEF IInv, Consistent
<1>3. ToSet(readyQ) \cap BlockedIn(p_semAdd) = {}
  BY DEF IInv, Apart
<1>4. \A x \in ToSet(asl[Clock]) : x \in BlockedIn(p_semAdd)
  BY <1>1, <1>2 DEF BlockedIn
<1> QED BY <1>3, <1>4

LEMMA WaitersNotReadyAfter ==
    ASSUME IInv'
    PROVE  \A x \in ToSet(asl'[Clock]) : x \notin ToSet(readyQ')
<1>1. Clock \in SemAdd /\ NULL # Clock
  BY SemAddAssumption DEF SemAdd
<1>2. ToSet(asl'[Clock]) = {x \in Pcb : p_semAdd'[x] = Clock}
  BY <1>1 DEF IInv, Consistent
<1>3. ToSet(readyQ') \cap BlockedIn(p_semAdd') = {}
  BY DEF IInv, Apart
<1>4. \A x \in ToSet(asl'[Clock]) : x \in BlockedIn(p_semAdd')
  BY <1>1, <1>2 DEF BlockedIn
<1> QED BY <1>3, <1>4

\* But for the interval timer, nobody goes from the clock to the ready queue.
LEMMA ClockKept ==
    ASSUME IInv, IInv', readyQ' = readyQ \/ ToSet(asl[Clock]) \subseteq ToSet(asl'[Clock])
    PROVE  ClockInTurn
<1>1. \A x \in ToSet(asl[Clock]) : x \notin ToSet(readyQ)
  BY WaitersNotReady
<1>2. \A x \in ToSet(asl'[Clock]) : x \notin ToSet(readyQ')
  BY WaitersNotReadyAfter
<1>3. \A x \in ToSet(asl[Clock]) : x \notin ToSet(readyQ')
  BY <1>1, <1>2
<1> DEFINE c == asl[Clock]
<1>4. c \in Seq(Pcb)
  BY TheQueues DEF SemAdd
<1>5. \A x \in ToSet(c) : x \notin ToSet(readyQ')
  BY <1>3
<1> HIDE DEF c
<1> SUFFICES ASSUME NEW p \in Pcb, NEW q \in Pcb, Before(c, p, q), q \in ToSet(readyQ')
             PROVE  FALSE
  BY DEF ClockInTurn, c
<1>6. PICK k \in DOMAIN c : c[k] = q
  BY DEF Before
<1>7. k \in 1 .. Len(c)
  BY <1>4, LenProperties
<1> QED BY <1>4, <1>5, <1>6, <1>7, Positions

\* The interval timer puts them at the end of the ready queue as they are, and
\* whoever was running behind them.
LEMMA TickInTurn ==
    ASSUME IInv, IInv', NEW r \in Seq(Pcb), NEW cur, NEW ps,
           Scheduler((readyQ \o asl[Clock]) \o r, cur, ps)
    PROVE  ClockInTurn
<1> DEFINE c == asl[Clock]
           v == readyQ \o c
           w == v \o r
           t == readyQ'
<1>1. readyQ \in Seq(Pcb) /\ c \in Seq(Pcb) /\ t \in Seq(Pcb)
  BY TheQueues, TheQueuesAfter DEF IsQueue, SemAdd
<1>2. /\ v \in Seq(Pcb) /\ Len(v) = Len(readyQ) + Len(c)
      /\ \A k \in 1 .. Len(c) : v[Len(readyQ) + k] = c[k]
      /\ Len(readyQ) \in Nat /\ Len(c) \in Nat
  BY <1>1
<1> HIDE DEF c, v
<1>3. /\ w \in Seq(Pcb) /\ Len(w) = Len(v) + Len(r) /\ Len(r) \in Nat
      /\ \A k \in 1 .. Len(v) : w[k] = v[k]
  <2>1. w \in Seq(Pcb) /\ Len(w) = Len(v) + Len(r) /\ Len(r) \in Nat
    BY <1>2
  <2>2. \A k \in 1 .. Len(v) : w[k] = v[k]
    BY <1>2
  <2> QED BY <2>1, <2>2
<1>4. Scheduler(w, cur, ps)
  BY DEF c, v
<1> HIDE DEF w, t
<1> SUFFICES ASSUME NEW p \in Pcb, NEW q \in Pcb, Before(c, p, q), q \in ToSet(t)
             PROVE  p = currentProc' \/ Before(t, p, q)
  BY DEF ClockInTurn, c, t
<1>5. PICK i, j \in 1 .. Len(c) : i < j /\ c[i] = p /\ c[j] = q
  BY <1>1, LenProperties DEF Before
<1> DEFINE m == Len(readyQ) + i
           n == Len(readyQ) + j
<1>6. m \in 1 .. Len(w) /\ n \in 1 .. Len(w) /\ m < n /\ w[m] = p /\ w[n] = q
  <2>1. m \in 1 .. Len(v) /\ n \in 1 .. Len(v) /\ m < n
    BY <1>2, <1>5
  <2>2. v[m] = p /\ v[n] = q
    BY <1>2, <1>5
  <2> QED BY <1>2, <1>3, <2>1, <2>2
<1> HIDE DEF m, n
<1>7. w # <<>>
  BY <1>6
<1>8. /\ currentProc' = w[1] /\ Len(w) = Len(t) + 1
      /\ \A k \in 1 .. Len(t) : t[k] = w[k + 1]
  BY <1>3, <1>4, <1>7, SchedulerTakesHead DEF t
<1>9. CASE m = 1
  BY <1>6, <1>8, <1>9
<1>10. CASE m # 1
  <2>1. Len(t) \in Nat /\ DOMAIN t = 1 .. Len(t)
    BY <1>1, LenProperties
  <2>2. m - 1 \in 1 .. Len(t) /\ n - 1 \in 1 .. Len(t) /\ m - 1 < n - 1
    BY <1>6, <1>8, <1>10, <2>1
  <2>3. (m - 1) + 1 = m /\ (n - 1) + 1 = n
    BY <1>6
  <2>4. t[m - 1] = w[m] /\ t[n - 1] = w[n]
    BY <1>8, <2>2, <2>3
  <2> QED BY <1>6, <2>1, <2>2, <2>4 DEF Before
<1> QED BY <1>9, <1>10

----------------------------------------------------------------------------
(* The handlers.                                                           *)

InTurnStep == ReadyInTurn /\ (\A a \in SemAdd : SemInTurn(a)) /\ ClockInTurn

\* Nothing of the ASL changes.
LEMMA AslKept ==
    ASSUME IInv, IInv', asl' = asl, ReadyInTurn
    PROVE  InTurnStep
BY QueuesKept, ClockKept DEF InTurnStep

LEMMA CreateInTurn ==
    ASSUME IInv, IInv', NEW sup, CreateProcess(sup)
    PROVE  InTurnStep
<1>1. asl' = asl
  BY DEF CreateProcess, semVars
<1>2. readyQ' = readyQ \/ \E e \in Pcb : readyQ' = Append(readyQ, e)
  BY DEF CreateProcess, IInv, TypeOK
<1> QED BY <1>1, <1>2, ReadyKept, AslKept

\* SYS3, SYS5 and SYS7 when they block.
LEMMA BlockingInTurn ==
    ASSUME IInv, IInv', cpu = "run", NEW a \in SemAdd, InsertBlocked(a, currentProc),
           NEW ps, Scheduler(readyQ, NULL, ps)
    PROVE  InTurnStep
<1>1. currentProc \in Pcb
  BY DEF IInv, Mode
<1> QED BY <1>1, BlocksInTurn, ClockKept, SchedulerServes DEF InTurnStep

LEMMA PasserenInTurn ==
    ASSUME IInv, IInv', NEW a \in Sema4, Passeren(a)
    PROVE  InTurnStep
<1>1. CASE semaphore'[a] < 0
  BY <1>1, BlockingInTurn DEF Passeren, SemAdd
<1>2. CASE ~(semaphore'[a] < 0)
  BY <1>2, ReadyKept, AslKept DEF Passeren
<1> QED BY <1>1, <1>2

LEMMA WaitForDeviceInTurn ==
    ASSUME IInv, IInv', NEW a \in Device, WaitForDevice(a)
    PROVE  InTurnStep
<1>1. CASE semaphore'[a] < 0
  BY <1>1, BlockingInTurn DEF WaitForDevice, SemAdd
<1>2. CASE ~(semaphore'[a] < 0)
  BY <1>2, ReadyKept, AslKept DEF WaitForDevice
<1> QED BY <1>1, <1>2

LEMMA WaitForClockInTurn ==
    ASSUME IInv, IInv', WaitForClock
    PROVE  InTurnStep
<1>1. CASE semaphore'[Clock] < 0
  BY <1>1, BlockingInTurn DEF WaitForClock, SemAdd
<1>2. CASE ~(semaphore'[Clock] < 0)
  BY <1>2, SchedulerServes, AslKept DEF WaitForClock
<1> QED BY <1>1, <1>2

LEMMA VerhogenInTurn ==
    ASSUME IInv, IInv', NEW a \in Sema4, Verhogen(a)
    PROVE  InTurnStep
<1>1. a \in SemAdd \ {Clock} /\ V(a) /\ readyQ' = ReadyAfterV(a)
  BY SemAddAssumption DEF Verhogen, SemAdd
<1>2. /\ \A b \in SemAdd : SemInTurn(b)
      /\ asl'[Clock] = asl[Clock]
      /\ readyQ' = readyQ \/ \E e \in Pcb : readyQ' = Append(readyQ, e)
  BY <1>1, VInTurn
<1> QED BY <1>2, ReadyKept, ClockKept DEF InTurnStep

LEMMA DeviceInterruptInTurn ==
    ASSUME IInv, IInv', NEW a \in Device, DeviceInterrupt(a)
    PROVE  InTurnStep
<1>1. a \in SemAdd \ {Clock} /\ V(a)
  BY SemAddAssumption DEF DeviceInterrupt, SemAdd
<1>2. /\ \A b \in SemAdd : SemInTurn(b)
      /\ asl'[Clock] = asl[Clock]
      /\ ReadyAfterV(a) = readyQ \/ \E e \in Pcb : ReadyAfterV(a) = Append(readyQ, e)
  BY <1>1, VInTurn
<1>3. ReadyInTurn
  <2>1. CASE currentProc = NULL
    <3>1. Scheduler(ReadyAfterV(a), NULL, p_s)
      BY <2>1 DEF DeviceInterrupt
    <3>2. \/ Scheduler(readyQ, NULL, p_s)
          \/ \E e \in Pcb : Scheduler(Append(readyQ, e), NULL, p_s)
      BY <1>2, <3>1
    <3> QED BY <3>2, SchedulerServes
  <2>2. CASE currentProc # NULL
    <3>1. readyQ' = ReadyAfterV(a)
      BY <2>2 DEF DeviceInterrupt
    <3> QED BY <1>2, <3>1, ReadyKept
  <2> QED BY <2>1, <2>2
<1> QED BY <1>2, <1>3, ClockKept DEF InTurnStep

\* terminateProcess takes one pcb out of one queue.
LEMMA TerminatingInTurn ==
    ASSUME IInv, IInv', Terminating
    PROVE  InTurnStep
<1>1. CASE TerminateChild \/ DisposeChild
  BY <1>1, ReadyKept, AslKept DEF TerminateChild, DisposeChild, semVars
<1>2. CASE DisposeCurrent
  BY <1>2, SchedulerServes, AslKept DEF DisposeCurrent, semVars
<1>3. CASE UnlinkReady
  <2>1. InKernel /\ asl' = asl /\ readyQ' = RemoveFirst(readyQ, Head(dying))
    BY <1>3 DEF UnlinkReady, InKernel, semVars
  <2>2. ReadyInTurn
    BY <2>1, TheQueues, TakenOut DEF ReadyInTurn
  <2> QED BY <2>1, <2>2, AslKept
<1>4. CASE UnlinkBlocked
  <2> DEFINE p == Head(dying)
             b == p_semAdd[p]
  <2>1. InKernel /\ readyQ' = readyQ /\ asl' = [asl EXCEPT ![b] = RemoveFirst(asl[b], p)]
    BY <1>4 DEF UnlinkBlocked, InKernel, OutBlocked, Dequeue
  <2> HIDE DEF p, b
  <2>2. \A a \in SemAdd : SemInTurn(a)
    BY <2>1, OneQueueInTurn
  <2> QED BY <2>1, <2>2, ReadyKept, ClockKept DEF InTurnStep
<1> QED BY <1>1, <1>2, <1>3, <1>4 DEF Terminating

LEMMA PltInTurn ==
    ASSUME IInv, IInv', PltInterrupt
    PROVE  InTurnStep
<1>1. asl' = asl
  BY DEF PltInterrupt, semVars
<1>2. ReadyInTurn
  <2>1. CASE currentProc = NULL
    BY <2>1, SchedulerServes DEF PltInterrupt
  <2>2. CASE currentProc # NULL
    BY <2>2, TheQueues, SchedulerServes DEF PltInterrupt, Preempted
  <2> QED BY <2>1, <2>2
<1> QED BY <1>1, <1>2, AslKept

LEMMA ItInTurn ==
    ASSUME IInv, IInv', ItInterrupt
    PROVE  InTurnStep
<1> DEFINE c == asl[Clock]
<1>1. readyQ \in Seq(Pcb) /\ c \in Seq(Pcb)
  BY TheQueues DEF IsQueue, SemAdd
<1>2. \A a \in SemAdd : SemInTurn(a)
  <2>1. CASE asl' = asl
    BY <2>1, QueuesKept
  <2>2. CASE asl' = [asl EXCEPT ![Clock] = <<>>]
    BY <2>2, OneQueueInTurn
  <2> QED BY <2>1, <2>2 DEF ItInterrupt, ReleaseClock, Dequeue
<1>3. \/ Scheduler(readyQ \o c, NULL, p_s)
      \/ /\ currentProc # NULL
         /\ Scheduler(Append(readyQ \o c, currentProc), currentProc, StateCopy)
  BY DEF ItInterrupt, Preempted
<1> HIDE DEF c
<1>4. CASE Scheduler(readyQ \o c, NULL, p_s)
  <2>1. (readyQ \o c) \o <<>> = readyQ \o c /\ <<>> \in Seq(Pcb)
    BY <1>1
  <2>2. ReadyInTurn
    BY <1>1, <1>4, SchedulerInTurn
  <2>3. Scheduler((readyQ \o asl[Clock]) \o <<>>, NULL, p_s)
    BY <1>4, <2>1 DEF c
  <2>4. ClockInTurn
    BY <2>1, <2>3, TickInTurn
  <2> QED BY <1>2, <2>2, <2>4 DEF InTurnStep
<1>5. CASE /\ currentProc # NULL
           /\ Scheduler(Append(readyQ \o c, currentProc), currentProc, StateCopy)
  <2> DEFINE r == <<currentProc>>
  <2>1. currentProc \in Pcb
    BY <1>5, TheQueues
  <2>2. /\ (readyQ \o c) \o r = Append(readyQ \o c, currentProc) /\ r \in Seq(Pcb)
        /\ readyQ \o (c \o r) = Append(readyQ \o c, currentProc) /\ c \o r \in Seq(Pcb)
    BY <1>1, <2>1
  <2> HIDE DEF r
  <2>3. ReadyInTurn
    BY <1>5, <2>2, SchedulerInTurn
  <2>4. Scheduler((readyQ \o asl[Clock]) \o r, currentProc, StateCopy)
    BY <1>5, <2>2 DEF c
  <2>5. ClockInTurn
    BY <2>2, <2>4, TickInTurn
  <2> QED BY <1>2, <2>3, <2>5 DEF InTurnStep
<1> QED BY <1>3, <1>4, <1>5

LEMMA NextInTurn ==
    ASSUME IInv, IInv', [Next]_vars
    PROVE  InTurnStep
<1>1. ASSUME NEW sup, CreateProcess(sup) PROVE InTurnStep
  BY <1>1, CreateInTurn
<1>2. CASE TerminateProcess \/ PassUpOrDie \/ GetInfo \/ Stopped \/ UNCHANGED vars
  BY <1>2, ReadyKept, AslKept
     DEF TerminateProcess, PassUpOrDie, Terminate, GetInfo, Stopped, vars, semVars
<1>3. ASSUME NEW a \in Sema4, Passeren(a) \/ Verhogen(a) PROVE InTurnStep
  BY <1>3, PasserenInTurn, VerhogenInTurn
<1>4. ASSUME NEW a \in Device, WaitForDevice(a) \/ DeviceInterrupt(a) PROVE InTurnStep
  BY <1>4, WaitForDeviceInTurn, DeviceInterruptInTurn
<1>5. CASE WaitForClock \/ Terminating \/ PltInterrupt \/ ItInterrupt
  BY <1>5, WaitForClockInTurn, TerminatingInTurn, PltInTurn, ItInTurn
<1> QED BY <1>1, <1>2, <1>3, <1>4, <1>5 DEF Next

\* Nobody is overtaken: the ready queue and the queue of every semaphore are first
\* come, first served, whatever handlers, kills and interrupts do to them, and the
\* interval timer keeps the order of those it releases together.
THEOREM ServedInTurn == Spec => NoOvertaking
<1>1. IInv /\ IInv' /\ [Next]_vars =>
      [/\ FirstComeFirstServed(readyQ, readyQ')
       /\ \A a \in SemAdd : FirstComeFirstServed(asl[a], asl'[a])
       /\ \A p, q \in Pcb :
             Before(asl[Clock], p, q) /\ q \in ToSet(readyQ') =>
                 p = currentProc' \/ Before(readyQ', p, q)]_vars
  BY NextInTurn DEF InTurnStep, ReadyInTurn, SemInTurn, ClockInTurn
<1> QED BY <1>1, Invariance, PTL DEF Spec, NoOvertaking

=============================================================================
