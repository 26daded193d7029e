----------------------------- MODULE TreeProofs -----------------------------
(***************************************************************************)
(* For any number of pcbs: what the recursion of terminateProcess reaches, *)
(* that a kill takes whole subtrees and ends, that everybody's turn comes, *)
(* who blocks and what ends it, and that the nucleus implements Processes. *)
(***************************************************************************)
EXTENDS NucleusProofs, NucleusRefinement

----------------------------------------------------------------------------
(* Closing a set under an operation.                                       *)

\* R is the least set with S that step adds nothing to.
LeastClosed(U, step, S, R) ==
    /\ R \in SUBSET U /\ S \subseteq R /\ step[R] = R
    /\ \A T : /\ S \subseteq T
              /\ \A X \in SUBSET U : X \subseteq T => step[X] \subseteq T
              => R \subseteq T

\* Repeating a step that only adds, on subsets of a finite set, ends in a set it
\* adds nothing to, after as many steps as there are elements, and adds no more
\* than it has to.
LEMMA Closure ==
    ASSUME NEW U, IsFiniteSet(U), NEW step \in [SUBSET U -> SUBSET U],
           \A X \in SUBSET U : X \subseteq step[X], NEW S \in SUBSET U, NEW at,
           at[0] = S, \A n \in Nat : at[n + 1] = step[at[n]]
    PROVE  LeastClosed(U, step, S, at[Cardinality(U)])
<1> DEFINE N == Cardinality(U)
<1>0. N \in Nat
  BY FS_CardinalityType
<1>1. \A n \in Nat : at[n] \in SUBSET U /\ S \subseteq at[n]
  <2> DEFINE I == {n \in Nat : at[n] \in SUBSET U /\ S \subseteq at[n]}
  <2>1. 0 \in I
    OBVIOUS
  <2>2. ASSUME NEW n \in Nat, n \in I PROVE n + 1 \in I
    <3>1. at[n + 1] = step[at[n]] /\ at[n] \in SUBSET U /\ S \subseteq at[n]
      BY <2>2
    <3>2. step[at[n]] \in SUBSET U /\ at[n] \subseteq step[at[n]]
      BY <3>1
    <3> QED BY <3>1, <3>2
  <2> HIDE DEF I
  <2>3. \A n \in Nat : n \in I
    BY <2>1, <2>2, Induction
  <2> QED BY <2>3 DEF I
<1>2. ASSUME NEW T, S \subseteq T, \A X \in SUBSET U : X \subseteq T => step[X] \subseteq T
      PROVE  at[N] \subseteq T
  <2> DEFINE I == {n \in Nat : at[n] \subseteq T}
  <2>1. 0 \in I
    BY <1>2
  <2>2. ASSUME NEW n \in Nat, n \in I PROVE n + 1 \in I
    BY <1>1, <1>2, <2>2
  <2> HIDE DEF I
  <2>3. \A n \in Nat : n \in I
    BY <2>1, <2>2, Induction
  <2> QED BY <1>0, <2>3 DEF I
\* As long as something is added there are more elements at each step.
<1>3. \A n \in Nat : step[at[n]] = at[n] \/ Cardinality(at[n]) >= n
  <2> DEFINE I == {n \in Nat : step[at[n]] = at[n] \/ Cardinality(at[n]) >= n}
  <2>0. \A n \in Nat : IsFiniteSet(at[n]) /\ Cardinality(at[n]) \in Nat
    BY <1>1, FS_Subset, FS_CardinalityType
  <2>1. 0 \in I
    BY <2>0
  <2>2. ASSUME NEW n \in Nat, n \in I PROVE n + 1 \in I
    <3>1. CASE step[at[n]] = at[n]
      <4>1. at[n + 1] = at[n]
        BY <3>1
      <4> QED BY <3>1, <4>1
    <3>2. CASE step[at[n]] # at[n]
      <4>1. Cardinality(at[n]) >= n
        BY <2>2, <3>2
      <4>2. at[n] \subseteq at[n + 1] /\ at[n] # at[n + 1]
        BY <1>1, <3>2
      <4>3. Cardinality(at[n]) < Cardinality(at[n + 1])
        <5>1. IsFiniteSet(at[n + 1])
          BY <2>0
        <5>2. /\ Cardinality(at[n]) <= Cardinality(at[n + 1])
              /\ Cardinality(at[n]) # Cardinality(at[n + 1])
          BY <4>2, <5>1, FS_Subset
        <5>3. Cardinality(at[n]) \in Nat /\ Cardinality(at[n + 1]) \in Nat
          BY <2>0
        <5> QED BY <5>2, <5>3
      <4>4. Cardinality(at[n + 1]) >= n + 1
        BY <2>0, <4>1, <4>3
      <4> QED BY <4>4
    <3> QED BY <3>1, <3>2
  <2> HIDE DEF I
  <2>3. \A n \in Nat : n \in I
    BY <2>1, <2>2, Induction
  <2> QED BY <2>3 DEF I
<1>4. step[at[N]] = at[N]
  <2>1. CASE Cardinality(at[N]) >= N
    <3>1. at[N] \subseteq U /\ Cardinality(at[N]) <= N /\ Cardinality(at[N]) \in Nat
      BY <1>0, <1>1, FS_Subset, FS_CardinalityType
    <3>2. Cardinality(at[N]) = Cardinality(U)
      BY <1>0, <2>1, <3>1
    <3>3. at[N] = U
      BY <3>1, <3>2, FS_Subset
    <3>4. at[N] \subseteq step[at[N]] /\ step[at[N]] \subseteq U
      BY <3>1
    <3> QED BY <3>3, <3>4
  <2> QED BY <1>0, <1>3, <2>1
<1> QED BY <1>0, <1>1, <1>2, <1>4 DEF LeastClosed

\* A pcb's children are in T, whenever the pcb is.
Closed(T) == \A p \in T : Children(p) \subseteq T

\* The progeny of S is the least set with S that has the children of its members.
LEMMA ProgenyIs ==
    ASSUME p_child \in [Pcb -> Seq(Pcb)], NEW S \in SUBSET Pcb
    PROVE  /\ Progeny(S) \subseteq Pcb
           /\ S \subseteq Progeny(S)
           /\ Closed(Progeny(S))
           /\ \A T \in SUBSET Pcb : S \subseteq T /\ Closed(T) => Progeny(S) \subseteq T
<1> DEFINE step == [X \in SUBSET Pcb |-> X \cup UNION {Children(p) : p \in X}]
           generation[n \in Nat] ==
               IF n = 0 THEN S
               ELSE generation[n - 1] \cup UNION {Children(p) : p \in generation[n - 1]}
<1>1. \A p \in Pcb : Children(p) \subseteq Pcb
  BY ElementsIn DEF Children
<1>2. /\ step \in [SUBSET Pcb -> SUBSET Pcb]
      /\ \A X \in SUBSET Pcb : X \subseteq step[X]
      /\ \A X \in SUBSET Pcb : step[X] = X \cup UNION {Children(p) : p \in X}
  BY <1>1
<1> HIDE DEF step
<1>3. \E g : g = [n \in Nat |-> IF n = 0 THEN S
                      ELSE g[n - 1] \cup UNION {Children(p) : p \in g[n - 1]}]
  <2>1. PICK g : Iteration(step, S, g)
    BY Iterates
  <2>2. g[0] = S /\ \A n \in Nat : g[n + 1] = step[g[n]]
    BY <2>1 DEF Iteration
  <2> DEFINE I == {n \in Nat : g[n] \in SUBSET Pcb}
  <2>3. 0 \in I
    BY <2>2
  <2>4. ASSUME NEW n \in Nat, n \in I PROVE n + 1 \in I
    <3>1. g[n] \in SUBSET Pcb /\ g[n + 1] = step[g[n]]
      BY <2>2, <2>4
    <3>2. step[g[n]] \in SUBSET Pcb
      BY <1>2, <3>1
    <3> QED BY <3>1, <3>2
  <2> HIDE DEF I
  <2>5. \A n \in Nat : n \in I
    BY <2>3, <2>4, Induction
  <2>6. ASSUME NEW n \in Nat \ {0}
        PROVE  g[n] = g[n - 1] \cup UNION {Children(p) : p \in g[n - 1]}
    <3>1. n - 1 \in Nat /\ (n - 1) + 1 = n
      OBVIOUS
    <3>2. g[n - 1] \in SUBSET Pcb
      BY <2>5, <3>1 DEF I
    <3>3. g[n] = step[g[n - 1]]
      BY <2>2, <3>1
    <3> QED BY <1>2, <3>2, <3>3
  <2>7. g = [n \in Nat |-> IF n = 0 THEN S
                ELSE g[n - 1] \cup UNION {Children(p) : p \in g[n - 1]}]
    BY <2>1, <2>2, <2>6 DEF Iteration
  <2> QED BY <2>7
<1>4. generation = [n \in Nat |-> IF n = 0 THEN S
                      ELSE generation[n - 1] \cup UNION {Children(p) : p \in generation[n - 1]}]
  BY <1>3, Zenon
<1>5. Progeny(S) = generation[Cardinality(Pcb)]
  BY DEF Progeny
<1> HIDE DEF generation
<1>6. generation[0] = S /\ \A n \in Nat : generation[n + 1] = step[generation[n]]
  <2>1. /\ generation[0] = S
        /\ \A n \in Nat : generation[n + 1] =
               generation[n] \cup UNION {Children(p) : p \in generation[n]}
    BY <1>4
  <2> DEFINE I == {n \in Nat : generation[n] \in SUBSET Pcb}
  <2>2. 0 \in I
    BY <2>1
  <2>3. ASSUME NEW n \in Nat, n \in I PROVE n + 1 \in I
    BY <1>1, <2>1, <2>3
  <2> HIDE DEF I
  <2>4. \A n \in Nat : n \in I
    BY <2>2, <2>3, Induction
  <2> QED BY <1>2, <2>1, <2>4 DEF I
<1>7. IsFiniteSet(Pcb)
  BY PcbAssumption
<1> DEFINE R == generation[Cardinality(Pcb)]
<1>8. /\ R \in SUBSET Pcb /\ S \subseteq R /\ step[R] = R
      /\ \A T : /\ S \subseteq T
                /\ \A X \in SUBSET Pcb : X \subseteq T => step[X] \subseteq T
                => R \subseteq T
  <2>1. LeastClosed(Pcb, step, S, generation[Cardinality(Pcb)])
    BY <1>2, <1>6, <1>7, Closure
  <2> QED BY <2>1 DEF LeastClosed
<1> HIDE DEF R
<1>9. Closed(R)
  <2>1. R = R \cup UNION {Children(p) : p \in R}
    BY <1>2, <1>8
  <2> QED BY <2>1 DEF Closed
<1>10. ASSUME NEW T \in SUBSET Pcb, S \subseteq T, Closed(T) PROVE R \subseteq T
  <2>1. \A X \in SUBSET Pcb : X \subseteq T => step[X] \subseteq T
    <3>1. ASSUME NEW X \in SUBSET Pcb, X \subseteq T PROVE step[X] \subseteq T
      <4>1. step[X] = X \cup UNION {Children(p) : p \in X}
        BY <1>2
      <4>2. \A p \in X : Children(p) \subseteq T
        BY <1>10, <3>1 DEF Closed
      <4> QED BY <3>1, <4>1, <4>2
    <3> QED BY <3>1
  <2> QED BY <1>8, <1>10, <2>1
<1> QED BY <1>5, <1>8, <1>9, <1>10 DEF R

----------------------------------------------------------------------------
(* What the handlers do to who is ready, blocked and running, as sets.     *)

Waiting(a) == {p \in Pcb : p_semAdd[p] = a}

\* One of R runs, the others are ready.
Chooses(R) ==
    \/ R = {} /\ currentProc' = NULL /\ Ready' = {}
    \/ \E p \in R : currentProc' = p /\ Ready' = R \ {p}

\* Nobody moves.
Stays == UNCHANGED <<readyQ, p_semAdd, currentProc>>

\* The current process waits for a, and another one runs.
BlocksOn(a) == p_semAdd' = [p_semAdd EXCEPT ![currentProc] = a] /\ Chooses(Ready)

\* W no longer waits for a.
Frees(a, W) ==
    /\ W \subseteq Waiting(a)
    /\ p_semAdd' = [p \in Pcb |-> IF p \in W THEN NULL ELSE p_semAdd[p]]

\* W no longer waits for a and is ready, or one of those that could run does.
Releases(a, W) ==
    /\ Frees(a, W)
    /\ \/ currentProc # NULL /\ currentProc' = currentProc /\ Ready' = Ready \cup W
       \/ Chooses(Ready \cup W \cup Running)

\* Waiters are in the queue of what they wait for, and no queue has anybody else.
LEMMA WaitersQueued ==
    ASSUME IInv
    PROVE  /\ \A a \in SemAdd : IsQueue(asl[a], Pcb) /\ ToSet(asl[a]) = Waiting(a)
           /\ \A a \in SemAdd : Waiting(a) = {} <=> asl[a] = <<>>
           /\ Blocked = UNION {Waiting(a) : a \in SemAdd}
           /\ p_semAdd \in [Pcb -> SemAdd \cup {NULL}]
<1>1. /\ \A a \in SemAdd : IsQueue(asl[a], Pcb) /\ ToSet(asl[a]) = Waiting(a)
      /\ p_semAdd \in [Pcb -> SemAdd \cup {NULL}]
  BY DEF IInv, Consistent, IsQueue, Waiting
<1>2. Blocked = UNION {Waiting(a) : a \in SemAdd}
  BY <1>1, SemAddAssumption DEF Blocked, Waiting
<1> QED BY <1>1, <1>2, QueueLength

LEMMA Chosen ==
    ASSUME NEW rq, IsQueue(rq, Pcb), NEW cur, rq = <<>> => cur = NULL,
           NEW ps \in [Pcb -> StateOf], Scheduler(rq, cur, ps)
    PROVE  Chooses(ToSet(rq)) /\ ~InKernel'
<1>1. ~InKernel'
  BY SchedulerLeaves
<1>2. CASE rq # <<>>
  <2>1. readyQ' = Tail(rq) /\ currentProc' = Head(rq)
    BY <1>2 DEF Scheduler, Dispatch
  <2>2. Head(rq) \in ToSet(rq) /\ ToSet(Tail(rq)) = ToSet(rq) \ {Head(rq)}
    BY <1>2, QueueTail
  <2>3. currentProc' \in ToSet(rq) /\ Ready' = ToSet(rq) \ {currentProc'}
    BY <2>1, <2>2 DEF Ready
  <2> QED BY <1>1, <2>3 DEF Chooses
<1>3. CASE rq = <<>>
  <2>1. readyQ' = rq /\ currentProc' = NULL
    BY <1>3 DEF Scheduler
  <2>2. ToSet(rq) = {}
    BY <1>3, QueueLength
  <2> QED BY <1>1, <2>1, <2>2 DEF Chooses, Ready
<1> QED BY <1>2, <1>3

\* Whoever is in R is ready or runs afterwards, and nobody else.
LEMMA ChoosesAll ==
    ASSUME NEW R, R \subseteq Pcb, Chooses(R)
    PROVE  Ready' \cup Running' = R
BY PcbAssumption DEF Chooses, Running

LEMMA BlockingChanges ==
    ASSUME IInv, cpu = "run", NEW a \in SemAdd,
           InsertBlocked(a, currentProc), Scheduler(readyQ, NULL, StateCopy)
    PROVE  BlocksOn(a) /\ ~InKernel'
<1>1. /\ currentProc \in Pcb /\ currentProc # NULL /\ semdFree > 0
      /\ StateCopy \in [Pcb -> StateOf] /\ IsQueue(readyQ, Pcb)
  BY CurrentRuns, RunningFacts, Places
<1>2. p_semAdd' = [p_semAdd EXCEPT ![currentProc] = a]
  BY <1>1 DEF InsertBlocked
<1>3. Chooses(Ready) /\ ~InKernel'
  BY <1>1, Chosen DEF Ready
<1> QED BY <1>2, <1>3 DEF BlocksOn

\* A V: if anybody waits, one no longer does.
LEMMA VChanges ==
    ASSUME IInv, NEW a \in Sema4 \cup Device, V(a)
    PROVE  \E W : /\ Frees(a, W)
                  /\ ToSet(ReadyAfterV(a)) = Ready \cup W
                  /\ IF Waiting(a) = {} THEN W = {} ELSE \E w \in Waiting(a) : W = {w}
<1>1. /\ a \in SemAdd /\ IsQueue(asl[a], Pcb) /\ ToSet(asl[a]) = Waiting(a)
      /\ Waiting(a) = {} <=> asl[a] = <<>>
      /\ p_semAdd \in [Pcb -> SemAdd \cup {NULL}] /\ readyQ \in Seq(Pcb)
  BY WaitersQueued DEF SemAdd, IInv, TypeOK
<1>2. CASE asl[a] = <<>>
  <2>1. p_semAdd' = p_semAdd /\ ReadyAfterV(a) = readyQ
    BY <1>2 DEF V, Signals, ReadyAfterV
  <2>2. Frees(a, {}) /\ ToSet(ReadyAfterV(a)) = Ready \cup {}
    BY <1>1, <2>1 DEF Frees, Ready
  <2> QED BY <1>1, <1>2, <2>2
<1>3. CASE asl[a] # <<>>
  <2>1. Signals(a)
    <3>1. semaphore[a] \in Int /\ Len(asl[a]) \in Nat \ {0}
      BY <1>1, <1>3, LenProperties, EmptySeq DEF IsQueue, IInv, TypeOK
    <3>2. semaphore[a] < 0
      BY <1>1, <1>3, <3>1 DEF IInv, Balanced
    <3>3. semaphore[a] + 1 <= 0
      BY <3>1, <3>2
    <3> QED BY <1>3, <3>3 DEF Signals
  <2> DEFINE h == Head(asl[a])
  <2>2. /\ p_semAdd' = [p_semAdd EXCEPT ![h] = NULL]
        /\ ReadyAfterV(a) = Append(readyQ, h)
    BY <2>1 DEF V, RemoveBlocked, ReadyAfterV
  <2>3. h \in Pcb /\ h \in Waiting(a)
    <3>1. h \in Pcb /\ h \in ToSet(asl[a])
      BY <1>1, <1>3, QueueTail, Zenon
    <3> QED BY <1>1, <3>1
  <2> HIDE DEF h
  <2>4. Frees(a, {h})
    BY <1>1, <2>2, <2>3 DEF Frees
  <2>5. ToSet(ReadyAfterV(a)) = Ready \cup {h}
    BY <1>1, <2>2, <2>3, ElementsOfAppend DEF Ready
  <2> QED BY <2>3, <2>4, <2>5
<1> QED BY <1>2, <1>3

LEMMA PasserenChanges ==
    ASSUME IInv, NEW s \in Sema4, Passeren(s)
    PROVE  /\ ~InKernel /\ ~InKernel' /\ p_child' = p_child
           /\ semaphore' = [semaphore EXCEPT ![s] = @ - 1]
           /\ IF semaphore[s] > 0 THEN Stays ELSE BlocksOn(s)
<1>1. /\ s \in SemAdd /\ cpu = "run" /\ semaphore[s] \in Int /\ p_child' = p_child
      /\ semaphore' = [semaphore EXCEPT ![s] = @ - 1] /\ semaphore'[s] = semaphore[s] - 1
  BY DEF Passeren, SemAdd, IInv, TypeOK, procVars
<1>2. ~InKernel
  BY <1>1 DEF InKernel
<1>3. CASE semaphore'[s] < 0
  <2>1. InsertBlocked(s, currentProc) /\ Scheduler(readyQ, NULL, StateCopy)
    BY <1>3 DEF Passeren
  <2>2. ~(semaphore[s] > 0)
    BY <1>1, <1>3
  <2> QED BY <1>1, <1>2, <2>1, <2>2, BlockingChanges
<1>4. CASE ~(semaphore'[s] < 0)
  <2>1. Stays /\ ~InKernel'
    BY <1>1, <1>4 DEF Passeren, Resume, Stays, InKernel
  <2>2. semaphore[s] > 0
    BY <1>1, <1>4
  <2> QED BY <1>1, <1>2, <2>1, <2>2
<1> QED BY <1>3, <1>4

LEMMA VerhogenChanges ==
    ASSUME IInv, NEW s \in Sema4, Verhogen(s)
    PROVE  /\ ~InKernel /\ ~InKernel' /\ p_child' = p_child
           /\ semaphore' = [semaphore EXCEPT ![s] = @ + 1]
           /\ currentProc' = currentProc
           /\ \E W : /\ Frees(s, W) /\ Ready' = Ready \cup W
                     /\ IF Waiting(s) = {} THEN W = {} ELSE \E w \in Waiting(s) : W = {w}
<1>1. /\ V(s) /\ cpu = "run" /\ cpu' = cpu /\ currentProc' = currentProc
      /\ readyQ' = ReadyAfterV(s) /\ p_child' = p_child
      /\ semaphore' = [semaphore EXCEPT ![s] = @ + 1]
  BY DEF Verhogen, Resume, procVars, V
<1>2. PICK W : /\ Frees(s, W)
               /\ ToSet(ReadyAfterV(s)) = Ready \cup W
               /\ IF Waiting(s) = {} THEN W = {} ELSE \E w \in Waiting(s) : W = {w}
  BY <1>1, VChanges
<1>3. Ready' = Ready \cup W
  BY <1>1, <1>2 DEF Ready
<1> QED BY <1>1, <1>2, <1>3 DEF InKernel

LEMMA WaitForDeviceChanges ==
    ASSUME IInv, NEW d \in Device, WaitForDevice(d)
    PROVE  /\ ~InKernel /\ ~InKernel' /\ p_child' = p_child
           /\ \E n \in Int : semaphore' = [semaphore EXCEPT ![d] = n]
           /\ Stays \/ BlocksOn(d)
<1>1. /\ d \in SemAdd /\ cpu = "run" /\ p_child' = p_child /\ semaphore[d] - 1 \in Int
      /\ semaphore' = [semaphore EXCEPT ![d] = semaphore[d] - 1]
  BY DEF WaitForDevice, SemAdd, IInv, TypeOK, procVars
<1>2. ~InKernel
  BY <1>1 DEF InKernel
<1>3. CASE semaphore'[d] < 0
  <2>1. InsertBlocked(d, currentProc) /\ Scheduler(readyQ, NULL, StateCopy)
    BY <1>3 DEF WaitForDevice
  <2> QED BY <1>1, <1>2, <2>1, BlockingChanges
<1>4. CASE ~(semaphore'[d] < 0)
  <2>1. Stays /\ ~InKernel'
    BY <1>1, <1>4 DEF WaitForDevice, Resume, Stays, InKernel
  <2> QED BY <1>1, <1>2, <2>1
<1> QED BY <1>3, <1>4

LEMMA WaitForClockChanges ==
    ASSUME IInv, WaitForClock
    PROVE  /\ ~InKernel /\ ~InKernel' /\ p_child' = p_child
           /\ \E n \in Int : semaphore' = [semaphore EXCEPT ![Clock] = n]
           /\ BlocksOn(Clock)
<1>1. /\ Clock \in SemAdd /\ cpu = "run" /\ p_child' = p_child /\ semaphore[Clock] \in Int
      /\ semaphore' = [semaphore EXCEPT ![Clock] = semaphore[Clock] - 1]
      /\ semaphore'[Clock] = semaphore[Clock] - 1
  BY DEF WaitForClock, SemAdd, IInv, TypeOK, procVars
<1>2. semaphore'[Clock] < 0
  <2>1. semaphore[Clock] <= -Len(asl[Clock]) /\ Len(asl[Clock]) \in Nat
    BY <1>1, QueueOf DEF IInv, Balanced
  <2> QED BY <1>1, <2>1
<1>3. InsertBlocked(Clock, currentProc) /\ Scheduler(readyQ, NULL, StateCopy)
  BY <1>2 DEF WaitForClock
<1>4. semaphore[Clock] - 1 \in Int
  BY <1>1
<1> QED BY <1>1, <1>3, <1>4, BlockingChanges DEF InKernel

LEMMA DeviceInterruptChanges ==
    ASSUME IInv, NEW d \in Device, DeviceInterrupt(d)
    PROVE  /\ ~InKernel /\ ~InKernel' /\ p_child' = p_child
           /\ \E n \in Int : semaphore' = [semaphore EXCEPT ![d] = n]
           /\ \E W : /\ Releases(d, W)
                     /\ IF Waiting(d) = {} THEN W = {} ELSE \E w \in Waiting(d) : W = {w}
<1>1. /\ V(d) /\ p_child' = p_child /\ semaphore[d] + 1 \in Int /\ ~InKernel
      /\ semaphore' = [semaphore EXCEPT ![d] = semaphore[d] + 1]
      /\ p_s \in [Pcb -> StateOf] /\ Interruptible
  BY DEF DeviceInterrupt, SemAdd, IInv, TypeOK, procVars, V, Interruptible, InKernel
<1>2. PICK W : /\ Frees(d, W)
               /\ ToSet(ReadyAfterV(d)) = Ready \cup W
               /\ IF Waiting(d) = {} THEN W = {} ELSE \E w \in Waiting(d) : W = {w}
  BY <1>1, VChanges
<1>3. CASE currentProc = NULL
  <2>1. Scheduler(ReadyAfterV(d), NULL, p_s) /\ IsQueue(ReadyAfterV(d), Pcb)
    <3>1. softBlockCount' = IF Signals(d) /\ IsSoft(d) THEN softBlockCount - 1
                                                        ELSE softBlockCount
      BY DEF DeviceInterrupt, SoftBlockAfterV, IsSoft
    <3> QED BY <1>1, <1>3, <3>1, VEffect DEF DeviceInterrupt
  <2>2. Chooses(Ready \cup W) /\ ~InKernel'
    BY <1>1, <1>2, <2>1, Chosen
  <2>3. Running = {}
    BY <1>3 DEF Running
  <2>4. Releases(d, W)
    BY <1>2, <2>2, <2>3 DEF Releases
  <2> QED BY <1>1, <1>2, <2>2, <2>4
<1>4. CASE currentProc # NULL
  <2>1. readyQ' = ReadyAfterV(d) /\ currentProc' = currentProc /\ cpu' = cpu
    BY <1>4 DEF DeviceInterrupt, Resume
  <2>2. Releases(d, W)
    BY <1>2, <1>4, <2>1 DEF Releases, Ready
  <2> QED BY <1>1, <1>2, <2>1, <2>2 DEF InKernel
<1> QED BY <1>3, <1>4

LEMMA PltInterruptChanges ==
    ASSUME IInv, PltInterrupt
    PROVE  /\ ~InKernel /\ ~InKernel' /\ UNCHANGED <<p_child, semaphore, p_semAdd>>
           /\ Chooses(Ready \cup Running)
<1>1. /\ Interruptible /\ UNCHANGED <<p_child, semaphore, p_semAdd>>
      /\ p_s \in [Pcb -> StateOf] /\ IsQueue(readyQ, Pcb)
  BY Places DEF PltInterrupt, procVars, semVars, IInv, TypeOK
<1>2. ~InKernel
  BY <1>1 DEF Interruptible, InKernel
<1>3. CASE currentProc = NULL
  <2>1. Scheduler(readyQ, NULL, p_s)
    BY <1>3 DEF PltInterrupt
  <2>2. Ready \cup Running = ToSet(readyQ)
    BY <1>3 DEF Ready, Running
  <2> QED BY <1>1, <1>2, <2>1, <2>2, Chosen
<1>4. CASE currentProc # NULL
  <2>1. Scheduler(Preempted(readyQ), NULL, StateCopy)
    BY <1>4 DEF PltInterrupt
  <2>2. /\ IsQueue(Preempted(readyQ), Pcb) /\ StateCopy \in [Pcb -> StateOf]
        /\ ToSet(Preempted(readyQ)) = Ready \cup Running
    BY <1>1, <1>4, Preempts, RunningFacts DEF Ready, Running
  <2>3. Chooses(ToSet(Preempted(readyQ))) /\ ~InKernel'
    BY <2>1, <2>2, Chosen
  <2> QED BY <1>1, <1>2, <2>2, <2>3
<1> QED BY <1>3, <1>4

LEMMA ItInterruptChanges ==
    ASSUME IInv, ItInterrupt
    PROVE  /\ ~InKernel /\ ~InKernel' /\ p_child' = p_child
           /\ \E n \in Int : semaphore' = [semaphore EXCEPT ![Clock] = n]
           /\ Releases(Clock, Waiting(Clock))
<1> DEFINE waiters == asl[Clock]
           released == readyQ \o waiters
<1>1. /\ Interruptible /\ p_child' = p_child /\ semaphore' = [semaphore EXCEPT ![Clock] = 0]
      /\ p_s \in [Pcb -> StateOf] /\ IsQueue(readyQ, Pcb) /\ Clock \in SemAdd
      /\ IsQueue(asl[Clock], Pcb) /\ ToSet(asl[Clock]) = Waiting(Clock)
  BY Places, WaitersQueued DEF ItInterrupt, procVars, IInv, TypeOK, SemAdd
<1>2. ~InKernel
  BY <1>1 DEF Interruptible, InKernel
<1>3. Frees(Clock, Waiting(Clock))
  <2>1. p_semAdd' = [p \in Pcb |-> IF Contains(asl[Clock], p) THEN NULL ELSE p_semAdd[p]]
    BY DEF ItInterrupt, ReleaseClock
  <2>2. \A p \in Pcb : Contains(asl[Clock], p) <=> p \in Waiting(Clock)
    BY <1>1, QueueRemove
  <2> QED BY <2>1, <2>2 DEF Frees
<1>4. IsQueue(released, Pcb) /\ ToSet(released) = Ready \cup Waiting(Clock)
  <2>1. Ready \cap Waiting(Clock) = {}
    BY SemAddAssumption DEF IInv, Apart, Ready, BlockedIn, Waiting, SemAdd
  <2>2. /\ ToSet(readyQ) = Ready /\ ToSet(waiters) = Waiting(Clock)
        /\ IsQueue(readyQ, Pcb) /\ IsQueue(waiters, Pcb)
    BY <1>1 DEF Ready
  <2>3. ToSet(readyQ) \cap ToSet(waiters) = {}
    BY <2>1, <2>2
  <2> HIDE DEF waiters
  <2>4. IsQueue(readyQ, Pcb) /\ IsQueue(waiters, Pcb)
    BY <2>2
  <2>5. IsQueue(released, Pcb) /\ ToSet(released) = ToSet(readyQ) \cup ToSet(waiters)
    BY <2>3, <2>4, QueueConcat DEF released
  <2> QED BY <2>2, <2>5
<1>5. IF currentProc = NULL THEN Scheduler(released, NULL, p_s)
      ELSE Scheduler(Preempted(released), currentProc, StateCopy)
  BY DEF ItInterrupt
<1> HIDE DEF released
<1>6. Chooses(Ready \cup Waiting(Clock) \cup Running) /\ ~InKernel'
  <2>1. CASE currentProc = NULL
    <3>1. Ready \cup Waiting(Clock) \cup Running = ToSet(released)
      BY <1>4, <2>1 DEF Running
    <3> QED BY <1>1, <1>4, <1>5, <2>1, <3>1, Chosen
  <2>2. CASE currentProc # NULL
    <3>1. currentProc \notin ToSet(released) /\ StateCopy \in [Pcb -> StateOf]
      BY <1>4, <2>2, RunningFacts, SemAddAssumption DEF Ready, Waiting, SemAdd
    <3>2. /\ IsQueue(Preempted(released), Pcb) /\ Preempted(released) # <<>>
          /\ ToSet(Preempted(released)) = Ready \cup Waiting(Clock) \cup Running
      BY <1>4, <2>2, <3>1, Preempts DEF Running
    <3>3. Chooses(ToSet(Preempted(released))) /\ ~InKernel'
      BY <1>5, <2>2, <3>1, <3>2, Chosen
    <3> QED BY <3>2, <3>3
  <2> QED BY <2>1, <2>2
<1>7. Releases(Clock, Waiting(Clock))
  BY <1>3, <1>6 DEF Releases
<1>8. \E n \in Int : semaphore' = [semaphore EXCEPT ![Clock] = n]
  <2>1. 0 \in Int
    OBVIOUS
  <2> QED BY <1>1, <2>1, Zenon
<1> QED BY <1>1, <1>2, <1>6, <1>7, <1>8

----------------------------------------------------------------------------
(* Who is alive.                                                           *)

LEMMA AliveWhere ==
    ASSUME IInv
    PROVE  /\ Live = Ready \cup Blocked \cup Running
           /\ Ready \subseteq Pcb /\ Blocked \subseteq Pcb /\ Running \subseteq Pcb
           /\ Ready \cap Blocked = {} /\ Ready \cap Running = {} /\ Blocked \cap Running = {}
           /\ Live \cap pcbFree = {}
<1>1. Ready \subseteq Pcb /\ Blocked \subseteq Pcb /\ Running \subseteq Pcb
  BY Places DEF Ready, Blocked, Running, IInv, TypeOK
<1>2. /\ Ready \cap (Blocked \cup Running \cup pcbFree) = {}
      /\ Blocked \cap (Running \cup pcbFree) = {}
      /\ Running \cap pcbFree = {}
  BY DEF IInv, Apart, Ready, Blocked, Running, BlockedIn
<1> QED BY <1>1, <1>2 DEF Live

LEMMA BlockingKeepsLive ==
    ASSUME IInv, IInv', NEW a \in SemAdd, cpu = "run", BlocksOn(a)
    PROVE  Live' = Live
<1>1. currentProc \in Pcb /\ currentProc # NULL
  BY CurrentRuns
<1>2. Blocked' = Blocked \cup {currentProc}
  <2>1. p_semAdd' = [p_semAdd EXCEPT ![currentProc] = a] /\ a # NULL
    BY SemAddAssumption DEF BlocksOn
  <2> QED BY <1>1, <2>1, WaitersQueued DEF Blocked
<1>3. Ready' \cup Running' = Ready
  BY AliveWhere, ChoosesAll DEF BlocksOn
<1> QED BY <1>1, <1>2, <1>3 DEF Live, Running

LEMMA FreeingKeepsLive ==
    ASSUME IInv, NEW a \in SemAdd, NEW W, Frees(a, W),
           Ready' \cup Running' = Ready \cup W \cup Running
    PROVE  Live' = Live
<1>1. W \subseteq Blocked
  BY SemAddAssumption DEF Frees, Waiting, Blocked
<1>2. Blocked' = Blocked \ W
  BY DEF Frees, Blocked
<1> QED BY <1>1, <1>2 DEF Live

LEMMA ReleaseKeepsLive ==
    ASSUME IInv, NEW a \in SemAdd, NEW W, Releases(a, W)
    PROVE  Live' = Live
<1>1. W \subseteq Pcb /\ Frees(a, W)
  BY DEF Releases, Frees, Waiting
<1>2. CASE currentProc # NULL /\ currentProc' = currentProc /\ Ready' = Ready \cup W
  <2>1. Ready' \cup Running' = Ready \cup W \cup Running
    BY <1>2 DEF Running
  <2> QED BY <1>1, <2>1, FreeingKeepsLive
<1>3. CASE Chooses(Ready \cup W \cup Running)
  <2>1. Ready' \cup Running' = Ready \cup W \cup Running
    BY <1>1, <1>3, AliveWhere, ChoosesAll
  <2> QED BY <1>1, <2>1, FreeingKeepsLive
<1> QED BY <1>2, <1>3 DEF Releases

StaysLive ==
    ~InKernel /\ ~InKernel' /\ p_child' = p_child /\ pcbFree' = pcbFree /\ Live' = Live

\* No handler but those of SYS1 and SYS2 makes or ends a process.
LEMMA HandlersKeepLive ==
    ASSUME IInv, IInv',
           \/ \E s \in Sema4 : Passeren(s) \/ Verhogen(s)
           \/ \E d \in Device : WaitForDevice(d) \/ DeviceInterrupt(d)
           \/ GetInfo \/ WaitForClock \/ PltInterrupt \/ ItInterrupt \/ Stopped
    PROVE  StaysLive
<1>1. Sema4 \subseteq SemAdd /\ Device \subseteq SemAdd /\ Clock \in SemAdd
  BY DEF SemAdd
<1>2. Stays => Live' = Live
  BY DEF Stays, Live, Ready, Blocked, Running
<1>12. pcbFree' = pcbFree
  BY DEF Passeren, Verhogen, WaitForDevice, DeviceInterrupt, GetInfo, WaitForClock,
         PltInterrupt, ItInterrupt, Stopped, vars, procVars
<1>3. ASSUME NEW s \in Sema4, Passeren(s) PROVE StaysLive
  <2>1. ~InKernel /\ ~InKernel' /\ p_child' = p_child /\ (Stays \/ BlocksOn(s))
    BY <1>3, PasserenChanges
  <2>2. cpu = "run"
    BY <1>3 DEF Passeren
  <2> QED BY <1>1, <1>2, <2>1, <2>2, <1>12, BlockingKeepsLive DEF StaysLive
<1>4. ASSUME NEW s \in Sema4, Verhogen(s) PROVE StaysLive
  <2>1. /\ ~InKernel /\ ~InKernel' /\ p_child' = p_child /\ currentProc' = currentProc
        /\ \E W : Frees(s, W) /\ Ready' = Ready \cup W
    BY <1>4, VerhogenChanges
  <2>2. PICK W : Frees(s, W) /\ Ready' = Ready \cup W
    BY <2>1
  <2>3. Ready' \cup Running' = Ready \cup W \cup Running
    BY <2>1, <2>2 DEF Running
  <2> QED BY <1>1, <2>1, <2>2, <2>3, <1>12, FreeingKeepsLive DEF StaysLive
<1>5. ASSUME NEW d \in Device, WaitForDevice(d) PROVE StaysLive
  <2>1. ~InKernel /\ ~InKernel' /\ p_child' = p_child /\ (Stays \/ BlocksOn(d))
    BY <1>5, WaitForDeviceChanges
  <2>2. cpu = "run"
    BY <1>5 DEF WaitForDevice
  <2> QED BY <1>1, <1>2, <2>1, <2>2, <1>12, BlockingKeepsLive DEF StaysLive
<1>6. ASSUME NEW d \in Device, DeviceInterrupt(d) PROVE StaysLive
  <2>1. ~InKernel /\ ~InKernel' /\ p_child' = p_child /\ \E W : Releases(d, W)
    BY <1>6, DeviceInterruptChanges
  <2> QED BY <1>1, <2>1, <1>12, ReleaseKeepsLive DEF StaysLive
<1>7. CASE GetInfo
  BY <1>2, <1>7 DEF GetInfo, Resume, procVars, semVars, Stays, InKernel, StaysLive
<1>8. CASE WaitForClock
  <2>1. ~InKernel /\ ~InKernel' /\ p_child' = p_child /\ BlocksOn(Clock)
    BY <1>8, WaitForClockChanges
  <2>2. cpu = "run"
    BY <1>8 DEF WaitForClock
  <2> QED BY <1>1, <2>1, <2>2, <1>12, BlockingKeepsLive DEF StaysLive
<1>9. CASE PltInterrupt
  <2>1. /\ ~InKernel /\ ~InKernel' /\ UNCHANGED <<p_child, p_semAdd>>
        /\ Chooses(Ready \cup Running)
    BY <1>9, PltInterruptChanges
  <2>2. Ready' \cup Running' = Ready \cup Running
    BY <2>1, AliveWhere, ChoosesAll
  <2> QED BY <1>12, <2>1, <2>2 DEF StaysLive, Live, Blocked
<1>10. CASE ItInterrupt
  <2>1. ~InKernel /\ ~InKernel' /\ p_child' = p_child /\ Releases(Clock, Waiting(Clock))
    BY <1>10, ItInterruptChanges
  <2> QED BY <1>1, <2>1, <1>12, ReleaseKeepsLive DEF StaysLive
<1>11. CASE Stopped
  BY <1>2, <1>11 DEF Stopped, vars, procVars, semVars, Stays, InKernel, StaysLive
<1> QED BY <1>3, <1>4, <1>5, <1>6, <1>7, <1>8, <1>9, <1>10, <1>11

\* SYS1: one pcb that was not alive is, a child of the caller.
Spawned(c, p) ==
    /\ c = currentProc /\ p \in pcbFree /\ p \in Pcb /\ p \notin Live
    /\ pcbFree' = pcbFree \ {p}
    /\ Ready' = Ready \cup {p} /\ p_semAdd' = p_semAdd /\ currentProc' = currentProc
    /\ Children(c)' = Children(c) \cup {p}
    /\ Children(p)' = {} /\ p_child'[p] = <<>>
    /\ \A q \in Pcb \ {p, c} : p_child'[q] = p_child[q]
    /\ \A q \in Pcb : p \notin Children(q)
    /\ Live' = Live \cup {p}

LEMMA CreateChanges ==
    ASSUME IInv, TreeInv, NEW sup, CreateProcess(sup)
    PROVE  /\ ~InKernel /\ ~InKernel' /\ currentProc \in Pcb /\ semaphore' = semaphore
           /\ \/ StaysLive /\ Stays
              \/ \E c, p \in Pcb : Spawned(c, p)
<1>1. /\ ~InKernel /\ ~InKernel' /\ currentProc \in Pcb /\ semaphore' = semaphore
      /\ currentProc' = currentProc
  BY CurrentRuns DEF CreateProcess, Resume, InKernel, semVars
<1>2. CASE pcbFree = {}
  <2>1. Stays /\ p_child' = p_child /\ pcbFree' = pcbFree
    BY <1>1, <1>2 DEF CreateProcess, Stays, procVars, semVars
  <2>2. Live' = Live
    BY <2>1 DEF Stays, Live, Ready, Blocked, Running
  <2> QED BY <1>1, <2>1, <2>2 DEF StaysLive
<1>3. CASE pcbFree # {}
  <2>1. PICK p \in pcbFree : /\ p_semAdd' = [p_semAdd EXCEPT ![p] = NULL]
                             /\ p_child' = NewChildren(p)
                             /\ pcbFree' = pcbFree \ {p}
                             /\ readyQ' = Append(readyQ, p)
    BY <1>3 DEF CreateProcess
  <2>2. /\ p \in Pcb /\ p # currentProc /\ p_child[p] = <<>> /\ p_semAdd[p] = NULL
        /\ p_child \in [Pcb -> Seq(Pcb)] /\ readyQ \in Seq(Pcb)
        /\ p_semAdd \in [Pcb -> SemAdd \cup {NULL}]
        /\ \A q \in Pcb : p \notin Children(q)
    BY <2>1 DEF IInv, TypeOK, Apart, TreeInv, NoDangling
  <2>3. p \notin Live
    BY <2>1, AliveWhere
  <2>4. p_semAdd' = p_semAdd
    BY <2>1, <2>2
  <2>5. Ready' = Ready \cup {p}
    BY <2>1, <2>2, ElementsOfAppend DEF Ready
  <2>6. Live' = Live \cup {p}
    BY <1>1, <2>4, <2>5 DEF Live, Blocked, Running
  <2> DEFINE longer == <<p>> \o p_child[currentProc]
  <2>7. ToSet(longer) = Children(currentProc) \cup {p}
    <3>1. IsQueue(p_child[currentProc], Pcb) /\ p \notin ToSet(p_child[currentProc])
      BY <1>1, <2>2 DEF TreeInv, IsQueue, Children
    <3> QED BY <2>2, <3>1, QueuePrepend DEF Children
  <2>8. /\ p_child'[currentProc] = longer /\ p_child'[p] = <<>>
        /\ \A q \in Pcb \ {p, currentProc} : p_child'[q] = p_child[q]
    BY <1>1, <2>1, <2>2 DEF NewChildren
  <2> HIDE DEF longer
  <2>9. Children(currentProc)' = Children(currentProc) \cup {p} /\ Children(p)' = {}
    <3>1. ToSet(<<>>) = {}
      BY DEF ToSet
    <3>2. Children(p)' = ToSet(<<>>) /\ Children(currentProc)' = ToSet(longer)
      BY <1>1, <2>8 DEF Children
    <3> QED BY <2>7, <3>1, <3>2
  <2>10. PICK c \in Pcb : c = currentProc
    BY <1>1
  <2>11. Children(c)' = Children(c) \cup {p}
    BY <1>1, <2>9, <2>10 DEF Children
  <2>12. Spawned(c, p)
    BY <1>1, <2>1, <2>2, <2>3, <2>4, <2>5, <2>6, <2>8, <2>9, <2>10, <2>11 DEF Spawned
  <2> QED BY <1>1, <2>2, <2>10, <2>12
<1> QED BY <1>2, <1>3

----------------------------------------------------------------------------
(* The tree.                                                               *)

Parentless(r) == \A q \in Pcb : r \notin Children(q)

\* Every pcb in use is in every set that has S and the children of its members.
DescendFrom(S) ==
    \A T \in SUBSET Pcb : S \subseteq T /\ Closed(T) => Pcb \ pcbFree \subseteq T

\* The calls of terminateProcess but the outermost, which is for the process that
\* ends: each is for a child that has been taken off a list.
InnerCalls == {dying[k] : k \in 1 .. Len(dying) - 1}

\* Between two handlers every pcb in use, that of a process or of one that SYS2 has
\* ended, descends from one process nobody is parent of.
Rooted ==
    ~InKernel /\ Live # {} =>
        \E root \in Live : Parentless(root) /\ DescendFrom({root})

\* While a process is being killed they descend from that one or from the pcbs of
\* the inner calls; the calls have left the process itself behind, which is not
\* among its own descendants D.
KillRooted ==
    InKernel =>
        /\ \E root \in Live : /\ Parentless(root) /\ root \notin InnerCalls
                              /\ DescendFrom({root} \cup InnerCalls)
        /\ \E D \in SUBSET Pcb : /\ Closed(D) /\ currentProc \notin D
                                 /\ Children(currentProc) \cup InnerCalls \subseteq D

\* Whoever has ended has no children left.
NoOrphans == \A p \in Pcb \ Live : p_child[p] = <<>>

RootInv == Rooted /\ KillRooted /\ NoOrphans

\* What the invariants say of lists of children.
LEMMA ChildFacts ==
    ASSUME IInv, TreeInv
    PROVE  /\ p_child \in [Pcb -> Seq(Pcb)]
           /\ \A p \in Pcb : Children(p) \subseteq Pcb
           /\ \A p \in Pcb : Children(p) = {} <=> p_child[p] = <<>>
           /\ \A p, q \in Pcb : Children(p) \cap Children(q) # {} => p = q
<1>1. p_child \in [Pcb -> Seq(Pcb)] /\ \A p \in Pcb : IsQueue(p_child[p], Pcb)
  BY DEF IInv, TypeOK, TreeInv, IsQueue
<1>2. \A p \in Pcb : /\ Children(p) \subseteq Pcb
                     /\ Children(p) = {} <=> p_child[p] = <<>>
  BY <1>1, QueueLength DEF Children
<1> QED BY <1>1, <1>2 DEF TreeInv, NoDangling

\* A handler that leaves lists of children and live processes alone.
LEMMA RootUnchanged ==
    ASSUME RootInv, StaysLive
    PROVE  RootInv'
<1>1. \A q \in Pcb : Children(q)' = Children(q)
  BY DEF StaysLive, Children
<1>2. \A T \in SUBSET Pcb : Closed(T)' <=> Closed(T)
  BY <1>1 DEF Closed
<1>3. ~InKernel /\ ~InKernel' /\ Live' = Live /\ p_child' = p_child /\ pcbFree' = pcbFree
  BY DEF StaysLive
<1>4. ASSUME Live' # {}
      PROVE  \E root \in Live' : Parentless(root)' /\ DescendFrom({root})'
  <2>1. PICK root \in Live : Parentless(root) /\ DescendFrom({root})
    BY <1>3, <1>4 DEF RootInv, Rooted
  <2>2. Parentless(root)'
    BY <1>1, <2>1 DEF Parentless
  <2>3. DescendFrom({root})'
    BY <1>2, <1>3, <2>1 DEF DescendFrom
  <2> QED BY <1>3, <2>1, <2>2, <2>3
<1>5. NoOrphans'
  BY <1>3 DEF RootInv, NoOrphans
<1> QED BY <1>3, <1>4, <1>5 DEF RootInv, Rooted, KillRooted

LEMMA RootByCreate ==
    ASSUME IInv, TreeInv, RootInv, NEW sup, CreateProcess(sup)
    PROVE  RootInv'
<1>1. /\ ~InKernel /\ ~InKernel' /\ currentProc \in Pcb
      /\ StaysLive \/ \E c, p \in Pcb : Spawned(c, p)
  BY CreateChanges
<1>2. ASSUME NEW c \in Pcb, NEW p \in Pcb, Spawned(c, p) PROVE RootInv'
  <2>1. /\ p \notin Live /\ Live' = Live \cup {p} /\ c \in Live
        /\ Children(c)' = Children(c) \cup {p}
        /\ Children(p)' = {} /\ p # c
    BY <1>1, <1>2, PcbAssumption DEF Spawned, Live, Running
  <2>2. \A q \in Pcb \ {p, c} : Children(q)' = Children(q)
    BY <1>2 DEF Spawned, Children
  <2>3. PICK root \in Live : Parentless(root) /\ DescendFrom({root})
    BY <1>1, <2>1 DEF RootInv, Rooted
  <2>4. Parentless(root)'
    <3>1. root # p
      BY <2>1, <2>3
    <3>2. \A q \in Pcb : root \notin Children(q)
      BY <2>3 DEF Parentless
    <3>3. ASSUME NEW q \in Pcb PROVE root \notin Children(q)'
      <4>1. CASE q = p
        BY <2>1, <4>1
      <4>2. CASE q = c
        BY <2>1, <3>1, <3>2, <4>2
      <4>3. CASE q \notin {p, c}
        BY <2>2, <3>2, <4>3
      <4> QED BY <4>1, <4>2, <4>3
    <3> QED BY <3>3 DEF Parentless
  <2>5. ASSUME NEW T \in SUBSET Pcb, root \in T, Closed(T)' PROVE Pcb \ pcbFree' \subseteq T
    \* T may have p for no reason: without it T is closed as the lists were.
    <3>1. \A q \in T : Children(q)' \subseteq T
      BY <2>5 DEF Closed
    <3>2. \A q \in T \ {p} : Children(q) \subseteq T \ {p}
      <4>1. \A q \in Pcb : p \notin Children(q)
        BY <1>2 DEF Spawned
      <4>2. ASSUME NEW q \in T \ {p} PROVE Children(q) \subseteq T
        <5>1. CASE q = c
          BY <2>1, <3>1, <5>1
        <5>2. CASE q # c
          BY <2>2, <3>1, <5>2
        <5> QED BY <5>1, <5>2
      <4> QED BY <4>1, <4>2
    <3>3. Closed(T \ {p})
      BY <3>2 DEF Closed
    <3>4. Pcb \ pcbFree \subseteq T \ {p}
      <4>1. {root} \subseteq T \ {p} /\ T \ {p} \in SUBSET Pcb
        BY <2>1, <2>3, <2>5
      <4> QED BY <2>3, <3>3, <4>1 DEF DescendFrom
    <3>5. p \in T
      <4>1. c \notin pcbFree
        BY <2>1, AliveWhere
      <4> QED BY <2>1, <3>1, <3>4, <4>1
    <3> QED BY <1>2, <3>4, <3>5 DEF Spawned
  <2>6. DescendFrom({root})'
    BY <2>5 DEF DescendFrom
  <2>7. Rooted'
    BY <2>1, <2>3, <2>4, <2>6 DEF Rooted
  <2>8. NoOrphans'
    BY <1>2, <2>1 DEF Spawned, NoOrphans, RootInv
  <2> QED BY <1>1, <2>7, <2>8 DEF RootInv, KillRooted
<1> QED BY <1>1, <1>2, RootUnchanged

----------------------------------------------------------------------------
(* The tree while terminateProcess runs.                                   *)

\* What the calls are that have begun.
LEMMA CallsOf ==
    ASSUME IInv, InKernel
    PROVE  /\ currentProc \in Pcb /\ currentProc \in Live
           /\ dying \in Seq(Pcb) /\ dying # <<>> /\ Head(dying) \in ToSet(dying)
           /\ ToSet(dying) = InnerCalls \cup {currentProc} /\ ToSet(dying) \subseteq Pcb
           /\ \/ Head(dying) \in InnerCalls
              \/ Head(dying) = currentProc /\ InnerCalls = {} /\ dying = <<currentProc>>
<1>1. /\ dying \in Seq(Pcb) /\ dying # <<>> /\ dying[Len(dying)] = currentProc
      /\ currentProc \in Pcb
  BY DyingFacts
<1>2. Len(dying) \in Nat \ {0} /\ Head(dying) = dying[1]
  BY <1>1, LenProperties, EmptySeq
<1>3. ToSet(dying) = {dying[k] : k \in 1 .. Len(dying)}
  BY <1>1, Elements
<1>4. ToSet(dying) = InnerCalls \cup {currentProc}
  <2>1. 1 .. Len(dying) = (1 .. Len(dying) - 1) \cup {Len(dying)}
    BY <1>2
  <2> QED BY <1>1, <1>3, <2>1 DEF InnerCalls
<1>5. Head(dying) \in ToSet(dying)
  BY <1>2, <1>3
<1>6. CASE Len(dying) = 1
  <2>1. dying = <<currentProc>>
    BY <1>1, <1>6
  <2>2. InnerCalls = {}
    BY <1>6 DEF InnerCalls
  <2> QED BY <1>1, <1>4, <1>5, <2>1, <2>2, ElementsIn, PcbAssumption DEF Live, Running
<1>7. CASE Len(dying) # 1
  <2> DEFINE n == Len(dying)
  <2>1. n \in Nat \ {0} /\ n # 1
    BY <1>2, <1>7
  <2> HIDE DEF n
  <2>2. 1 \in 1 .. n - 1
    BY <2>1
  <2>3. Head(dying) \in InnerCalls
    BY <1>2, <2>2 DEF InnerCalls, n
  <2> QED BY <1>1, <1>4, <1>5, <2>3, ElementsIn, PcbAssumption DEF Live, Running
<1> QED BY <1>6, <1>7

\* The first call is for the process that ends.
LEMMA RootByTerminate ==
    ASSUME IInv, TreeInv, RootInv, cpu = "run", Terminate
    PROVE  RootInv'
<1>1. /\ currentProc \in Pcb /\ currentProc \in Live /\ ~InKernel /\ InKernel'
      /\ UNCHANGED <<p_child, pcbFree, currentProc, Live>> /\ dying' = <<currentProc>>
  BY CurrentRuns, PcbAssumption
     DEF Terminate, InKernel, Live, Ready, Blocked, Running, procVars, semVars
<1>2. PICK root \in Live : Parentless(root) /\ DescendFrom({root})
  BY <1>1 DEF RootInv, Rooted
<1> DEFINE C == Children(currentProc)
<1>3. /\ \A p \in Pcb : Children(p) \subseteq Pcb
      /\ \A p, q \in Pcb : Children(p) \cap Children(q) # {} => p = q
      /\ p_child \in [Pcb -> Seq(Pcb)]
  BY ChildFacts
<1>4. C \in SUBSET Pcb
  BY <1>1, <1>3
<1>5. PICK D \in SUBSET Pcb :
          /\ C \subseteq D /\ Closed(D)
          /\ \A T \in SUBSET Pcb : C \subseteq T /\ Closed(T) => D \subseteq T
  <2> DEFINE D == Progeny(C)
  <2> HIDE DEF C
  <2>1. /\ D \subseteq Pcb /\ C \subseteq D /\ Closed(D)
        /\ \A T \in SUBSET Pcb : C \subseteq T /\ Closed(T) => D \subseteq T
    BY <1>3, <1>4, ProgenyIs
  <2> HIDE DEF D
  <2> QED BY <2>1
<1>6. currentProc \notin D
  <2> SUFFICES ASSUME currentProc \in D PROVE FALSE
    OBVIOUS
  \* Everybody in D is then the child of somebody in D.
  <2> DEFINE T == {x \in D : \E q \in D : x \in Children(q)}
  <2>1. T \in SUBSET Pcb /\ C \subseteq T /\ Closed(T)
    BY <1>5 DEF Closed
  <2>2. \A x \in D : \E q \in D : x \in Children(q)
    BY <1>5, <2>1
  <2>3. Closed(Pcb \ D)
    <3>1. ASSUME NEW q \in Pcb \ D, NEW x \in Children(q), x \in D PROVE FALSE
      BY <1>3, <1>5, <2>2, <3>1
    <3> QED BY <1>3, <3>1 DEF Closed
  <2>4. root \in Pcb \ D
    <3>1. root \in Pcb
      BY <1>2, AliveWhere
    <3> QED BY <1>2, <1>5, <2>2, <3>1 DEF Parentless
  <2>5. Pcb \ pcbFree \subseteq Pcb \ D
    BY <1>2, <2>3, <2>4 DEF DescendFrom
  <2> QED BY <1>1, <2>5, AliveWhere
<1>7. \A p \in Pcb : Children(p)' = Children(p)
  BY <1>1 DEF Children
<1>8. InnerCalls' = {}
  <2>1. Len(dying') = 1
    BY <1>1
  <2> QED BY <2>1 DEF InnerCalls
<1>9. Parentless(root)' /\ DescendFrom({root} \cup InnerCalls)'
  <2>1. Parentless(root)'
    BY <1>2, <1>7 DEF Parentless
  <2>2. \A T \in SUBSET Pcb : Closed(T)' <=> Closed(T)
    BY <1>7 DEF Closed
  <2> QED BY <1>1, <1>2, <2>1, <2>2 DEF DescendFrom
<1>10. Closed(D)' /\ currentProc' \notin D /\ Children(currentProc)' \subseteq D
  <2>1. Closed(D)'
    BY <1>5, <1>7 DEF Closed
  <2>2. Children(currentProc)' = C
    BY <1>1 DEF Children
  <2> QED BY <1>1, <1>5, <1>6, <2>1, <2>2
<1>11. KillRooted'
  <2>1. root \in Live' /\ root \notin InnerCalls' /\ D \in SUBSET Pcb
    BY <1>1, <1>2, <1>5, <1>8
  <2>2. Children(currentProc)' \cup InnerCalls' \subseteq D
    BY <1>8, <1>10
  <2>3. KillRooted'
    BY <1>9, <1>10, <2>1, <2>2 DEF KillRooted
  <2> QED BY <2>3
<1>12. NoOrphans'
  BY <1>1 DEF RootInv, NoOrphans
<1> QED BY <1>1, <1>11, <1>12 DEF RootInv, Rooted

\* A call begins for the first child, which is taken off the list.
LEMMA TerminateChildChanges ==
    ASSUME IInv, TreeInv, TerminateChild
    PROVE  /\ InKernel /\ InKernel'
           /\ UNCHANGED <<pcbFree, currentProc, Live, Ready, semVars>>
           /\ \E p, c \in Pcb :
                 /\ p = Head(dying) /\ c \in Children(p) /\ p_child[p] # <<>>
                 /\ Children(p)' = Children(p) \ {c}
                 /\ \A q \in Pcb \ {p} : p_child'[q] = p_child[q]
                 /\ ToSet(dying') = ToSet(dying) \cup {c}
                 /\ InnerCalls' = InnerCalls \cup {c}
                 /\ dying' # <<>>
<1> DEFINE p == Head(dying)
           c == Head(p_child[p])
<1>1. /\ InKernel /\ InKernel' /\ UNCHANGED <<pcbFree, currentProc, semVars, readyQ>>
      /\ dying' = <<c>> \o dying /\ p_child' = [p_child EXCEPT ![p] = Tail(p_child[p])]
      /\ p_child[p] # <<>>
  BY DEF TerminateChild, InKernel, OtherChildren
<1>2. UNCHANGED <<Live, Ready>>
  BY <1>1 DEF Live, Ready, Blocked, Running, semVars
<1>3. /\ p \in Pcb /\ dying \in Seq(Pcb) /\ dying # <<>> /\ p_child \in [Pcb -> Seq(Pcb)]
      /\ IsQueue(p_child[p], Pcb) /\ Len(dying) \in Nat \ {0}
      /\ dying[Len(dying)] = currentProc
  BY <1>1, DyingFacts, LenProperties, EmptySeq DEF TreeInv, IsQueue, IInv, TypeOK
<1> HIDE DEF p
<1>4. /\ c \in Pcb /\ c \in Children(p) /\ ToSet(Tail(p_child[p])) = Children(p) \ {c}
  BY <1>1, <1>3, QueueTail DEF Children
<1> HIDE DEF c
<1>5. PICK q \in Pcb, d \in Pcb : q = p /\ d = c
  BY <1>3, <1>4
<1>11. Children(q)' = Children(q) \ {d} /\ \A r \in Pcb \ {q} : p_child'[r] = p_child[r]
  <2>1. p_child'[q] = Tail(p_child[q]) /\ \A r \in Pcb \ {q} : p_child'[r] = p_child[r]
    BY <1>1, <1>3, <1>5
  <2>2. ToSet(Tail(p_child[q])) = Children(q) \ {d}
    BY <1>4, <1>5
  <2> QED BY <2>1, <2>2 DEF Children
<1> DEFINE n == Len(dying)
<1>6. /\ <<c>> \in Seq(Pcb) /\ Len(<<c>>) = 1 /\ <<c>>[1] = c
  BY <1>4
<1>7. /\ dying' \in Seq(Pcb) /\ Len(dying') = n + 1 /\ dying'[1] = c
      /\ \A k \in 2 .. n + 1 : dying'[k] = dying[k - 1]
  BY <1>1, <1>3, <1>6, ConcatProperties, LenProperties
<1>8. n \in Nat \ {0}
  BY <1>3
<1>9. InnerCalls' = InnerCalls \cup {c}
  <2>1. /\ InnerCalls' = {dying'[k] : k \in 1 .. n}
        /\ InnerCalls = {dying[k] : k \in 1 .. n - 1}
    BY <1>7, <1>8 DEF InnerCalls
  <2> HIDE DEF n
  <2>2. \A k \in 2 .. n : dying'[k] = dying[k - 1] /\ k - 1 \in 1 .. n - 1
    BY <1>7, <1>8
  <2>3. \A k \in 1 .. n - 1 : dying[k] = dying'[k + 1] /\ k + 1 \in 1 .. n
    BY <1>7, <1>8
  <2>4. 1 \in 1 .. n /\ \A k \in 1 .. n : k = 1 \/ k \in 2 .. n
    BY <1>8
  <2> QED BY <1>7, <2>1, <2>2, <2>3, <2>4
<1>10. ToSet(dying') = ToSet(dying) \cup {c} /\ dying' # <<>>
  <2>1. ToSet(dying) = InnerCalls \cup {currentProc}
    BY <1>1, CallsOf
  <2>2. ToSet(dying') = {dying'[k] : k \in 1 .. n + 1}
    BY <1>7, Elements
  <2> HIDE DEF n
  <2>3. InnerCalls' = {dying'[k] : k \in 1 .. n}
    BY <1>7, <1>8 DEF InnerCalls, n
  <2>4. dying'[n + 1] = currentProc
    <3>1. n + 1 \in 2 .. n + 1 /\ (n + 1) - 1 = n /\ dying[n] = currentProc
      BY <1>3, <1>8 DEF n
    <3> QED BY <1>7, <3>1
  <2>6. 1 .. n + 1 = (1 .. n) \cup {n + 1}
    BY <1>8
  <2>5. ToSet(dying') = InnerCalls' \cup {currentProc}
    BY <2>2, <2>3, <2>4, <2>6
  <2> QED BY <1>7, <1>8, <1>9, <2>1, <2>5, EmptySeq
<1> QED
  <2>1. q = Head(dying) /\ d \in Children(q) /\ p_child[q] # <<>>
    BY <1>1, <1>4, <1>5 DEF p
  <2>2. ToSet(dying') = ToSet(dying) \cup {d} /\ InnerCalls' = InnerCalls \cup {d}
    BY <1>5, <1>9, <1>10
  <2> QED BY <1>1, <1>2, <1>10, <1>11, <2>1, <2>2

LEMMA RootByTerminateChild ==
    ASSUME IInv, TreeInv, RootInv, TerminateChild
    PROVE  RootInv'
<1>1. /\ InKernel /\ InKernel' /\ UNCHANGED <<pcbFree, currentProc, Live>>
  BY TerminateChildChanges
<1>2. PICK p \in Pcb, c \in Pcb :
          /\ p = Head(dying) /\ c \in Children(p) /\ p_child[p] # <<>>
          /\ Children(p)' = Children(p) \ {c}
          /\ \A q \in Pcb \ {p} : p_child'[q] = p_child[q]
          /\ ToSet(dying') = ToSet(dying) \cup {c}
          /\ InnerCalls' = InnerCalls \cup {c}
          /\ dying' # <<>>
  BY TerminateChildChanges
<1>3. PICK root \in Live : /\ Parentless(root) /\ root \notin InnerCalls
                           /\ DescendFrom({root} \cup InnerCalls)
  BY <1>1 DEF RootInv, KillRooted
<1>4. PICK D \in SUBSET Pcb : /\ Closed(D) /\ currentProc \notin D
                              /\ Children(currentProc) \cup InnerCalls \subseteq D
  BY <1>1 DEF RootInv, KillRooted
<1>5. \A q \in Pcb : Children(q)' \subseteq Children(q)
  BY <1>2 DEF Children
<1>6. p \in ToSet(dying) /\ (p \in InnerCalls \/ p = currentProc) /\ currentProc \in Pcb
  BY <1>1, <1>2, CallsOf
<1>7. Parentless(root)' /\ root \in Live' /\ root \notin InnerCalls'
  <2>1. root # c
    BY <1>2, <1>3 DEF Parentless
  <2>2. Parentless(root)'
    BY <1>3, <1>5 DEF Parentless
  <2> QED BY <1>1, <1>2, <1>3, <2>1, <2>2
<1>8. ASSUME NEW T \in SUBSET Pcb, {root} \cup InnerCalls' \subseteq T, Closed(T)'
      PROVE  Pcb \ pcbFree' \subseteq T
  <2>1. \A q \in T : Children(q)' \subseteq T
    BY <1>8 DEF Closed
  <2>2. \A q \in T \ {p} : Children(q) \subseteq T
    BY <1>2, <2>1 DEF Children
  <2>3. p \in T => Children(p) \subseteq T
    BY <1>2, <1>8, <2>1
  <2>4. Closed(T) /\ {root} \cup InnerCalls \subseteq T
    BY <1>2, <1>8, <2>2, <2>3 DEF Closed
  <2> QED BY <1>1, <1>3, <2>4 DEF DescendFrom
<1>9. /\ Closed(D)' /\ currentProc' \notin D
      /\ Children(currentProc)' \cup InnerCalls' \subseteq D
  <2>1. \A q \in D : Children(q) \subseteq D
    BY <1>4 DEF Closed
  <2>2. Closed(D)'
    BY <1>5, <2>1 DEF Closed
  <2>3. c \in D
    BY <1>2, <1>4, <1>6, <2>1
  <2>4. Children(currentProc)' \subseteq D
    <3>1. PICK q \in Pcb : q = currentProc
      BY <1>6
    <3>2. Children(q)' \subseteq D
      BY <1>4, <1>5, <3>1
    <3> QED BY <1>1, <3>1, <3>2 DEF Children
  <2> QED BY <1>1, <1>2, <1>4, <2>2, <2>3, <2>4
<1>10. DescendFrom({root} \cup InnerCalls)'
  BY <1>8 DEF DescendFrom
<1>11. NoOrphans'
  BY <1>1, <1>2 DEF RootInv, NoOrphans
<1>12. KillRooted'
  BY <1>7, <1>9, <1>10 DEF KillRooted
<1> QED BY <1>1, <1>11, <1>12 DEF RootInv, Rooted

\* The pcb of a call leaves the queue it is in.
LEMMA UnlinkChanges ==
    ASSUME IInv, TreeInv, UnlinkBlocked \/ UnlinkReady
    PROVE  /\ InKernel /\ InKernel' /\ UNCHANGED <<p_child, pcbFree, dying, currentProc>>
           /\ \E p \in Pcb :
                 /\ p = Head(dying) /\ p_child[p] = <<>>
                 /\ Live' = Live \ ({p} \ {currentProc})
                 /\ Ready' = Ready \ {p}
                 /\ \A a \in SemAdd : Waiting(a)' = Waiting(a) \ {p}
                 /\ \A s \in Sema4 : semaphore'[s] =
                       IF p \in Waiting(s) THEN semaphore[s] + 1 ELSE semaphore[s]
<1> DEFINE h == Head(dying)
<1>1. /\ InKernel /\ InKernel' /\ UNCHANGED <<p_child, pcbFree, dying, currentProc>>
      /\ p_child[h] = <<>>
  BY DEF UnlinkBlocked, UnlinkReady, InKernel
<1>2. PICK p \in Pcb : p = h
  BY <1>1, DyingFacts
<1> HIDE DEF h
<1>3. p_semAdd \in [Pcb -> SemAdd \cup {NULL}] /\ semaphore \in [SemAdd -> Int]
  BY DEF IInv, TypeOK
<1>4. CASE UnlinkBlocked
  <2> DEFINE a == p_semAdd[p]
  <2>1. /\ a # NULL /\ p_semAdd' = [p_semAdd EXCEPT ![p] = NULL] /\ readyQ' = readyQ
        /\ semaphore' = IF IsSoft(a) THEN semaphore ELSE [semaphore EXCEPT ![a] = @ + 1]
    BY <1>2, <1>4 DEF UnlinkBlocked, OutBlocked, Incremented, h
  <2>2. a \in SemAdd /\ p \in Blocked
    BY <1>2, <1>3, <2>1 DEF Blocked
  <2>3. Ready' = Ready /\ p \notin Ready /\ p \notin Running
    BY <2>1, <2>2, AliveWhere DEF Ready
  <2>4. Blocked' = Blocked \ {p} /\ \A b \in SemAdd : Waiting(b)' = Waiting(b) \ {p}
    BY <1>3, <2>1, SemAddAssumption DEF Blocked, Waiting
  <2>5. Live' = Live \ ({p} \ {currentProc})
    BY <1>1, <2>2, <2>3, <2>4, PcbAssumption DEF Live, Running
  <2>6. ASSUME NEW s \in Sema4
        PROVE  semaphore'[s] = IF p \in Waiting(s) THEN semaphore[s] + 1 ELSE semaphore[s]
    <3>1. s \in SemAdd /\ ~IsSoft(s) /\ (p \in Waiting(s) <=> s = a)
      BY SemAddAssumption DEF SemAdd, IsSoft, Waiting
    <3> HIDE DEF a
    <3>2. CASE s = a
      BY <1>3, <2>1, <3>1, <3>2
    <3>3. CASE s # a
      BY <1>3, <2>1, <3>1, <3>3
    <3> QED BY <3>2, <3>3
  <2> QED BY <1>1, <1>2, <2>3, <2>4, <2>5, <2>6 DEF h
<1>5. CASE UnlinkReady
  <2>1. /\ p_semAdd[p] = NULL /\ readyQ' = RemoveFirst(readyQ, p)
        /\ semaphore' = semaphore /\ p_semAdd' = p_semAdd
    BY <1>2, <1>5 DEF UnlinkReady, semVars, h
  <2>2. Ready' = Ready \ {p}
    BY <2>1, Places, QueueRemove DEF Ready
  <2>3. \A b \in SemAdd : Waiting(b)' = Waiting(b) \ {p}
    BY <1>3, <2>1, SemAddAssumption DEF Waiting
  <2>4. p \notin Blocked /\ Blocked' = Blocked
    BY <2>1 DEF Blocked
  <2>5. Live' = Live \ ({p} \ {currentProc})
    <3>1. currentProc # NULL /\ currentProc \notin Ready
      BY <1>1, DyingFacts, RunningFacts DEF Ready
    <3> QED BY <1>1, <2>2, <2>4, <3>1 DEF Live, Running
  <2>6. \A s \in Sema4 : p \notin Waiting(s)
    BY <2>1, SemAddAssumption DEF Waiting, SemAdd
  <2> QED BY <1>1, <1>2, <2>1, <2>2, <2>3, <2>5, <2>6 DEF h
<1> QED BY <1>4, <1>5

LEMMA RootByUnlink ==
    ASSUME IInv, TreeInv, RootInv, UnlinkBlocked \/ UnlinkReady
    PROVE  RootInv'
<1>1. InKernel /\ InKernel' /\ UNCHANGED <<p_child, pcbFree, dying, currentProc>>
  BY UnlinkChanges
<1>2. PICK p \in Pcb : /\ p = Head(dying) /\ p_child[p] = <<>>
                       /\ Live' = Live \ ({p} \ {currentProc})
  BY UnlinkChanges
<1>3. PICK root \in Live : /\ Parentless(root) /\ root \notin InnerCalls
                           /\ DescendFrom({root} \cup InnerCalls)
  BY <1>1 DEF RootInv, KillRooted
<1>4. \A q \in Pcb : Children(q)' = Children(q)
  BY <1>1 DEF Children
<1>5. root \in Live'
  BY <1>1, <1>2, <1>3, CallsOf
<1>6. DescendFrom({root} \cup InnerCalls)'
  BY <1>1, <1>2, <1>3, <1>4 DEF DescendFrom, Closed, InnerCalls
<1>7. Parentless(root)' /\ root \notin InnerCalls'
  BY <1>1, <1>3, <1>4 DEF Parentless, InnerCalls
<1>8. \E D \in SUBSET Pcb : /\ Closed(D)' /\ currentProc' \notin D
                            /\ Children(currentProc)' \cup InnerCalls' \subseteq D
  <2>1. PICK D \in SUBSET Pcb : /\ Closed(D) /\ currentProc \notin D
                                /\ Children(currentProc) \cup InnerCalls \subseteq D
    BY <1>1 DEF RootInv, KillRooted
  <2>2. Closed(D)'
    BY <1>4, <2>1 DEF Closed
  <2>3. Children(currentProc)' = Children(currentProc) /\ InnerCalls' = InnerCalls
    BY <1>1 DEF Children, InnerCalls
  <2> QED BY <1>1, <2>1, <2>2, <2>3
<1>9. KillRooted'
  BY <1>5, <1>6, <1>7, <1>8 DEF KillRooted
<1>10. NoOrphans'
  BY <1>1, <1>2 DEF RootInv, NoOrphans
<1> QED BY <1>1, <1>9, <1>10 DEF RootInv, Rooted

\* The pcb of an inner call is freed; it was nobody's any more.
LEMMA DisposeChildChanges ==
    ASSUME IInv, TreeInv, DisposeChild
    PROVE  /\ InKernel /\ InKernel'
           /\ UNCHANGED <<p_child, currentProc, Live, Ready, semVars>>
           /\ \E p \in Pcb :
                 /\ p = Head(dying) /\ p_child[p] = <<>> /\ p \notin Live
                 /\ pcbFree' = pcbFree \cup {p}
                 /\ ToSet(dying) = ToSet(dying') \cup {p}
                 /\ InnerCalls = InnerCalls' \cup {p}
                 /\ dying' # <<>>
<1> DEFINE h == Head(dying)
<1>1. /\ InKernel /\ InKernel' /\ UNCHANGED <<p_child, currentProc, readyQ, semVars>>
      /\ h # currentProc /\ dying' = Tail(dying) /\ cpu = "dispose"
      /\ pcbFree' = pcbFree \cup {h}
  BY DEF DisposeChild, InKernel
<1>2. UNCHANGED <<Live, Ready>>
  BY <1>1 DEF Live, Ready, Blocked, Running, semVars
<1>3. PICK p \in Pcb : p = h
  BY <1>1, DyingFacts
<1>4. p_child[p] = <<>> /\ p \notin Live
  BY <1>1, <1>3 DEF TreeInv, IInv, Mode, Live, Blocked, Running
<1> DEFINE n == Len(dying)
<1>5. /\ dying \in Seq(Pcb) /\ n \in Nat \ {0} /\ dying[1] = p /\ dying[n] = currentProc
      /\ dying' \in Seq(Pcb) /\ Len(dying') = n - 1
      /\ \A k \in 1 .. n - 1 : dying'[k] = dying[k + 1]
  BY <1>1, <1>3, DyingFacts, HeadTailProperties, LenProperties, EmptySeq
<1>6. n # 1
  BY <1>1, <1>3, <1>5
<1>7. ToSet(dying) = {dying[k] : k \in 1 .. n} /\ ToSet(dying') = {dying'[k] : k \in 1 .. n - 1}
  BY <1>5, Elements
<1>8. /\ InnerCalls = {dying[k] : k \in 1 .. n - 1}
      /\ InnerCalls' = {dying'[k] : k \in 1 .. (n - 1) - 1}
  BY <1>5 DEF InnerCalls
<1> HIDE DEF n, h
<1>9. ToSet(dying) = ToSet(dying') \cup {p}
  <2>1. \A k \in 1 .. n : k = 1 \/ (k - 1 \in 1 .. n - 1 /\ dying'[k - 1] = dying[k])
    BY <1>5
  <2>2. 1 \in 1 .. n /\ \A k \in 1 .. n - 1 : k + 1 \in 1 .. n
    BY <1>5
  <2>3. ASSUME NEW x \in ToSet(dying) PROVE x = p \/ x \in ToSet(dying')
    <3>1. PICK k \in 1 .. n : x = dying[k]
      BY <1>7, <2>3
    <3> QED BY <1>5, <1>7, <2>1, <3>1
  <2>4. ASSUME NEW x \in ToSet(dying') PROVE x \in ToSet(dying)
    <3>1. PICK k \in 1 .. n - 1 : x = dying'[k]
      BY <1>7, <2>4
    <3> QED BY <1>5, <1>7, <2>2, <3>1
  <2>5. p \in ToSet(dying)
    BY <1>5, <1>7, <2>2
  <2> QED BY <2>3, <2>4, <2>5
<1>10. InnerCalls = InnerCalls' \cup {p}
  <2>1. \A k \in 1 .. (n - 1) - 1 : k + 1 \in 1 .. n - 1 /\ dying'[k] = dying[k + 1]
    BY <1>5
  <2>2. \A k \in 1 .. n - 1 :
            k = 1 \/ (k - 1 \in 1 .. (n - 1) - 1 /\ dying'[k - 1] = dying[k])
    BY <1>5
  <2>3. 1 \in 1 .. n - 1 /\ dying[1] = p
    BY <1>5, <1>6
  <2> QED BY <1>8, <2>1, <2>2, <2>3
<1>11. dying' # <<>>
  <2>1. Len(dying') # 0
    BY <1>5, <1>6
  <2> QED BY <1>5, <2>1, EmptySeq
<1> QED BY <1>1, <1>2, <1>3, <1>4, <1>9, <1>10, <1>11 DEF h

LEMMA RootByDisposeChild ==
    ASSUME IInv, TreeInv, RootInv, DisposeChild
    PROVE  RootInv'
<1>1. InKernel /\ InKernel' /\ UNCHANGED <<p_child, currentProc, Live>>
  BY DisposeChildChanges
<1>2. PICK p \in Pcb : /\ p_child[p] = <<>> /\ pcbFree' = pcbFree \cup {p}
                       /\ ToSet(dying) = ToSet(dying') \cup {p}
                       /\ InnerCalls = InnerCalls' \cup {p}
  BY DisposeChildChanges
<1>3. PICK root \in Live : /\ Parentless(root) /\ root \notin InnerCalls
                           /\ DescendFrom({root} \cup InnerCalls)
  BY <1>1 DEF RootInv, KillRooted
<1>4. PICK D \in SUBSET Pcb : /\ Closed(D) /\ currentProc \notin D
                              /\ Children(currentProc) \cup InnerCalls \subseteq D
  BY <1>1 DEF RootInv, KillRooted
<1>5. \A q \in Pcb : Children(q)' = Children(q)
  BY <1>1 DEF Children
<1>6. Parentless(root)' /\ root \in Live' /\ root \notin InnerCalls'
  BY <1>1, <1>2, <1>3, <1>5 DEF Parentless
<1>7. ASSUME NEW T \in SUBSET Pcb, {root} \cup InnerCalls' \subseteq T, Closed(T)'
      PROVE  Pcb \ pcbFree' \subseteq T
  <2>1. Children(p) = {}
    BY <1>2, ChildFacts
  <2>2. \A q \in T : Children(q) \subseteq T
    BY <1>5, <1>7 DEF Closed
  <2>3. Closed(T \cup {p})
    BY <2>1, <2>2 DEF Closed
  <2>4. {root} \cup InnerCalls \subseteq T \cup {p} /\ T \cup {p} \in SUBSET Pcb
    BY <1>2, <1>7
  <2>5. Pcb \ pcbFree \subseteq T \cup {p}
    BY <1>3, <2>3, <2>4 DEF DescendFrom
  <2> QED BY <1>2, <2>5
<1>8. DescendFrom({root} \cup InnerCalls)'
  BY <1>7 DEF DescendFrom
<1>9. /\ Closed(D)' /\ currentProc' \notin D
      /\ Children(currentProc)' \cup InnerCalls' \subseteq D
  <2>1. Closed(D)'
    BY <1>4, <1>5 DEF Closed
  <2>2. Children(currentProc)' = Children(currentProc)
    BY <1>1 DEF Children
  <2> QED BY <1>1, <1>2, <1>4, <2>1, <2>2
<1>10. KillRooted'
  BY <1>6, <1>8, <1>9 DEF KillRooted
<1>11. NoOrphans'
  BY <1>1 DEF RootInv, NoOrphans
<1> QED BY <1>1, <1>10, <1>11 DEF RootInv, Rooted

\* The outermost call returns to nobody: no inner one is left, and the process that
\* ends has no children any more.
LEMMA DisposeCurrentChanges ==
    ASSUME IInv, TreeInv, RootInv, DisposeCurrent
    PROVE  /\ InKernel /\ ~InKernel' /\ UNCHANGED <<p_child, pcbFree, semVars>>
           /\ dying = <<currentProc>> /\ ToSet(dying) = {currentProc} /\ InnerCalls = {}
           /\ p_child[currentProc] = <<>> /\ currentProc \in Pcb
           /\ Chooses(Ready) /\ Live' = Live \ {currentProc} /\ currentProc \in Live
           /\ currentProc \notin Ready /\ currentProc \notin Blocked
<1>1. /\ cpu = "dispose" /\ InKernel /\ Head(dying) = currentProc
      /\ UNCHANGED <<p_child, pcbFree, semVars>> /\ Scheduler(readyQ, NULL, p_s)
  BY DEF DisposeCurrent, InKernel
<1>2. /\ dying = <<currentProc>> /\ currentProc \in Pcb /\ currentProc # NULL
      /\ ToSet(dying) = {currentProc} /\ InnerCalls = {}
  <2>1. currentProc \notin InnerCalls
    BY <1>1 DEF RootInv, KillRooted
  <2> QED BY <1>1, <2>1, CallsOf, DyingFacts
<1>3. p_child[currentProc] = <<>>
  BY <1>1 DEF TreeInv
<1>4. Chooses(Ready) /\ ~InKernel'
  <2>1. IsQueue(readyQ, Pcb) /\ p_s \in [Pcb -> StateOf]
    BY Places DEF IInv, TypeOK
  <2> QED BY <1>1, <2>1, Chosen DEF Ready
<1>5. Ready' \cup Running' = Ready
  BY <1>4, AliveWhere, ChoosesAll
<1>6. Blocked' = Blocked
  BY <1>1 DEF Blocked, semVars
<1>7. currentProc \notin Ready /\ currentProc \notin Blocked /\ Running = {currentProc}
  BY <1>2, AliveWhere DEF Running
<1>8. Live' = Live \ {currentProc} /\ currentProc \in Live
  BY <1>5, <1>6, <1>7 DEF Live
<1> QED BY <1>1, <1>2, <1>3, <1>4, <1>7, <1>8

LEMMA RootByDisposeCurrent ==
    ASSUME IInv, TreeInv, RootInv, DisposeCurrent
    PROVE  RootInv'
<1>1. /\ InKernel /\ ~InKernel' /\ UNCHANGED <<p_child, pcbFree>> /\ InnerCalls = {}
      /\ p_child[currentProc] = <<>> /\ Live' = Live \ {currentProc}
  BY DisposeCurrentChanges
<1>2. PICK c \in Pcb : c = currentProc
  BY DisposeCurrentChanges
<1>3. PICK root \in Live : Parentless(root) /\ DescendFrom({root})
  <2>1. PICK root \in Live : Parentless(root) /\ DescendFrom({root} \cup InnerCalls)
    BY <1>1 DEF RootInv, KillRooted
  <2>2. {root} \cup InnerCalls = {root}
    BY <1>1
  <2> QED BY <2>1, <2>2
<1>4. Children(c) = {} /\ \A q \in Pcb : Children(q)' = Children(q)
  BY <1>1, <1>2, ChildFacts DEF Children
<1>5. Parentless(root)'
  BY <1>3, <1>4 DEF Parentless
<1>6. \A T \in SUBSET Pcb : Closed(T)' <=> Closed(T)
  BY <1>4 DEF Closed
<1>7. DescendFrom({root})'
  BY <1>1, <1>3, <1>6 DEF DescendFrom
<1>8. Live' # {} => root \in Live'
  <2>1. root = c => Live' \subseteq {c}
    <3>1. Closed({c})
      BY <1>4 DEF Closed
    <3>2. root = c => Pcb \ pcbFree \subseteq {c}
      BY <1>2, <1>3, <3>1 DEF DescendFrom
    <3>3. Live' \subseteq Pcb \ pcbFree
      BY <1>1, AliveWhere
    <3> QED BY <3>2, <3>3
  <2> QED BY <1>1, <1>2, <1>3, <2>1
<1>9. Rooted'
  BY <1>5, <1>7, <1>8 DEF Rooted
<1>10. NoOrphans'
  BY <1>1 DEF RootInv, NoOrphans
<1> QED BY <1>1, <1>9, <1>10 DEF RootInv, KillRooted

----------------------------------------------------------------------------
(* Nobody is lost.                                                         *)

LEMMA InitRoot == Init => RootInv
<1> SUFFICES ASSUME NEW root \in Pcb,
                    /\ readyQ = <<>> /\ currentProc = root /\ pcbFree = Pcb \ {root}
                    /\ p_semAdd = [p \in Pcb |-> NULL]
                    /\ p_child = [p \in Pcb |-> <<>>]
                    /\ cpu = "run"
             PROVE  RootInv
  BY DEF Init
<1>1. ToSet(<<>>) = {}
  BY DEF ToSet
<1>2. Live = {root} /\ ~InKernel
  BY <1>1, PcbAssumption DEF Live, Ready, Blocked, Running, InKernel
<1>3. \A p \in Pcb : Children(p) = {}
  BY <1>1 DEF Children
<1>4. Parentless(root) /\ DescendFrom({root})
  BY <1>2, <1>3 DEF Parentless, DescendFrom
<1> QED BY <1>2, <1>4 DEF RootInv, Rooted, KillRooted, NoOrphans

LEMMA NextRoot ==
    ASSUME IInv, IInv', TreeInv, RootInv, [Next]_vars
    PROVE  RootInv'
<1>1. CASE UNCHANGED vars
  <2>1. UNCHANGED <<p_child, pcbFree, currentProc, dying, Live, InnerCalls, InKernel>>
    BY <1>1 DEF vars, procVars, semVars, Live, Ready, Blocked, Running, InnerCalls, InKernel
  <2>2. \A q \in Pcb : Children(q)' = Children(q)
    BY <2>1 DEF Children
  <2>3. /\ \A S \in SUBSET Pcb : Closed(S)' <=> Closed(S)
        /\ Children(currentProc)' = Children(currentProc)
    BY <2>1, <2>2 DEF Closed, Children
  <2>4. Rooted'
    BY <2>1, <2>2, <2>3 DEF RootInv, Rooted, Parentless, DescendFrom
  <2>5. NoOrphans'
    BY <2>1 DEF RootInv, NoOrphans
  <2>6. KillRooted'
    BY <2>1, <2>2, <2>3 DEF RootInv, KillRooted, Parentless, DescendFrom
  <2> QED BY <2>4, <2>5, <2>6 DEF RootInv
<1>2. ASSUME NEW sup \in Support \cup {NULL}, CreateProcess(sup) PROVE RootInv'
  BY <1>2, RootByCreate
<1>3. CASE TerminateProcess \/ PassUpOrDie
  BY <1>3, RootByTerminate DEF TerminateProcess, PassUpOrDie
<1>4. CASE \/ \E s \in Sema4 : Passeren(s) \/ Verhogen(s)
           \/ \E d \in Device : WaitForDevice(d) \/ DeviceInterrupt(d)
           \/ GetInfo \/ WaitForClock \/ PltInterrupt \/ ItInterrupt \/ Stopped
  BY <1>4, HandlersKeepLive, RootUnchanged
<1>5. CASE Terminating
  BY <1>5, RootByTerminateChild, RootByUnlink, RootByDisposeChild, RootByDisposeCurrent
     DEF Terminating
<1> QED BY <1>1, <1>2, <1>3, <1>4, <1>5 DEF Next

LEMMA RootedIsIntact ==
    ASSUME IInv, TreeInv, RootInv
    PROVE  TreeIntact
<1> SUFFICES ASSUME ~InKernel, Live # {}
             PROVE  \E root \in Live : Progeny({root}) = Pcb \ pcbFree
  BY DEF TreeIntact
<1>1. PICK root \in Live : DescendFrom({root})
  BY DEF RootInv, Rooted
<1>2. p_child \in [Pcb -> Seq(Pcb)] /\ {root} \in SUBSET Pcb
  BY AliveWhere, ChildFacts
<1> DEFINE D == Progeny({root})
<1>3. /\ D \in SUBSET Pcb /\ {root} \subseteq D /\ Closed(D)
      /\ \A T \in SUBSET Pcb : {root} \subseteq T /\ Closed(T) => D \subseteq T
  BY <1>2, ProgenyIs
<1> HIDE DEF D
<1>4. Pcb \ pcbFree \subseteq D
  BY <1>1, <1>3 DEF DescendFrom
\* No list of children has a free pcb in it, and root has not got one.
<1>5. Closed(Pcb \ pcbFree)
  BY ChildFacts DEF Closed, TreeInv, NoDangling
<1>6. root \in Pcb \ pcbFree
  BY AliveWhere
<1>7. D \subseteq Pcb \ pcbFree
  BY <1>3, <1>5, <1>6
<1> QED BY <1>4, <1>7 DEF D

\* Between two handlers the pcbs in use are those of one live process and of its
\* descendants: a kill takes the children with it wherever they are and frees their
\* pcbs, so that no process is left which no other one could end and no pcb which
\* nothing could free, in any number of processes and however deep the tree.
THEOREM TreeKept == Spec => []TreeIntact
<1>1. IInv /\ IInv' /\ TreeInv /\ RootInv /\ [Next]_vars => RootInv'
  BY NextRoot
<1>2. IInv /\ IInv' /\ TreeInv /\ [Next]_vars => TreeInv'
  BY NextTree
<1>3. IInv /\ TreeInv /\ RootInv => TreeIntact
  BY RootedIsIntact
<1> QED BY <1>1, <1>2, <1>3, InitTree, InitRoot, Invariance, PTL DEF Spec

----------------------------------------------------------------------------
(* A kill ends.                                                            *)

\* The pcbs in lists of children.
Listed == {c \in Pcb : \E p \in Pcb : c \in Children(p)}

\* How many actions of terminateProcess are left: for every child in a list a call,
\* its unlinking and its return, for a call that has begun the last two, for one
\* that has unlinked its pcb the last.
KillMeasure ==
    3 * Cardinality(Listed) + 2 * Len(dying) + (IF cpu = "terminate" THEN 1 ELSE 0)

LEMMA ListedFinite ==
    /\ Listed \subseteq Pcb /\ IsFiniteSet(Listed) /\ Cardinality(Listed) \in Nat
    /\ Cardinality(Listed) <= Cardinality(Pcb)
<1>1. Listed \subseteq Pcb /\ IsFiniteSet(Pcb)
  BY PcbAssumption DEF Listed
<1> QED BY <1>1, FS_Subset, FS_CardinalityType

LEMMA ListedFiniteAfter == Cardinality(Listed') \in Nat
<1>1. Listed' \subseteq Pcb /\ IsFiniteSet(Pcb)
  BY PcbAssumption DEF Listed
<1> QED BY <1>1, FS_Subset, FS_CardinalityType

LEMMA ListedSame ==
    ASSUME p_child' = p_child
    PROVE  Listed' = Listed
BY DEF Listed, Children

\* The child a call begins for was in one list only.
LEMMA OneLessListed ==
    ASSUME IInv, TreeInv, TerminateChild
    PROVE  Cardinality(Listed') = Cardinality(Listed) - 1
<1>1. PICK p \in Pcb, c \in Pcb :
          /\ c \in Children(p) /\ Children(p)' = Children(p) \ {c}
          /\ \A q \in Pcb \ {p} : p_child'[q] = p_child[q]
  BY TerminateChildChanges
<1>2. \A q \in Pcb \ {p} : Children(q)' = Children(q)
  BY <1>1 DEF Children
<1>3. \A q \in Pcb \ {p} : c \notin Children(q)
  BY <1>1, ChildFacts
<1>4. Listed' = Listed \ {c} /\ c \in Listed
  BY <1>1, <1>2, <1>3 DEF Listed
<1> QED BY <1>4, ListedFinite, FS_RemoveElement

LEMMA DisposeCurrentLeaves ==
    ASSUME DisposeCurrent, InKernel'
    PROVE  FALSE
BY SchedulerLeaves DEF DisposeCurrent

\* A kill begins with one call, and some live process is in nobody's list.
LEMMA KillBegins ==
    ASSUME IInv, TreeInv, RootInv, Next, ~InKernel, InKernel'
    PROVE  KillMeasure' <= 3 * Cardinality(Pcb)
<1>1. cpu = "run" /\ Terminate
  BY SchedulerLeaves
     DEF Next, InKernel, CreateProcess, TerminateProcess, PassUpOrDie, Passeren, Verhogen,
         WaitForDevice, DeviceInterrupt, GetInfo, WaitForClock, PltInterrupt, ItInterrupt,
         Interruptible, Stopped, vars, Resume, Terminating, TerminateChild, UnlinkBlocked,
         UnlinkReady, DisposeChild, DisposeCurrent
<1>2. currentProc \in Pcb /\ currentProc \in Live
  BY <1>1, CurrentRuns, PcbAssumption DEF Live, Running
<1>3. PICK root \in Live : Parentless(root)
  BY <1>2 DEF RootInv, Rooted
<1>4. root \in Pcb /\ Listed \subseteq Pcb \ {root}
  BY <1>3, AliveWhere DEF Listed, Parentless
<1>5. Cardinality(Listed) <= Cardinality(Pcb) - 1
  <2>1. IsFiniteSet(Pcb \ {root}) /\ Cardinality(Pcb \ {root}) = Cardinality(Pcb) - 1
    BY <1>4, PcbAssumption, FS_RemoveElement
  <2> QED BY <1>4, <2>1, FS_Subset
<1>6. cpu' = "terminate" /\ Len(dying') = 1 /\ p_child' = p_child
  BY <1>1 DEF Terminate, procVars
<1>7. Cardinality(Pcb) \in Nat /\ Cardinality(Listed) \in Nat
  BY ListedFinite, PcbAssumption, FS_CardinalityType
<1> QED BY <1>5, <1>6, <1>7, ListedSame DEF KillMeasure

LEMMA KillStep ==
    ASSUME IInv, TreeInv, Next, InKernel, InKernel'
    PROVE  KillMeasure' = KillMeasure - 1
<1>1. Terminating
  BY InterruptFacts
     DEF Next, InKernel, CreateProcess, TerminateProcess, PassUpOrDie, Passeren, Verhogen,
         WaitForDevice, DeviceInterrupt, GetInfo, WaitForClock, PltInterrupt, ItInterrupt,
         Interruptible, Stopped
<1>2. dying \in Seq(Pcb) /\ Len(dying) \in Nat \ {0} /\ Cardinality(Listed) \in Nat
  BY DyingFacts, ListedFinite, LenProperties, EmptySeq
<1>3. CASE TerminateChild
  <2>1. cpu = "terminate" /\ cpu' = "terminate" /\ dying' = <<Head(p_child[Head(dying)])>> \o dying
    BY <1>3 DEF TerminateChild
  <2>2. Head(p_child[Head(dying)]) \in Pcb
    <3>1. p_child[Head(dying)] \in Seq(Pcb) /\ p_child[Head(dying)] # <<>>
      BY <1>3, DyingFacts, ChildFacts DEF TerminateChild
    <3> QED BY <3>1
  <2>3. Len(dying') = Len(dying) + 1
    BY <1>2, <2>1, <2>2
  <2> QED BY <1>2, <1>3, <2>1, <2>3, OneLessListed DEF KillMeasure
<1>4. CASE UnlinkBlocked \/ UnlinkReady
  <2>1. cpu = "terminate" /\ cpu' = "dispose" /\ UNCHANGED <<p_child, dying>>
    BY <1>4 DEF UnlinkBlocked, UnlinkReady
  <2> QED BY <1>2, <2>1, ListedSame DEF KillMeasure
<1>5. CASE DisposeChild
  <2>1. cpu = "dispose" /\ cpu' = "terminate" /\ p_child' = p_child /\ dying' = Tail(dying)
    BY <1>5 DEF DisposeChild
  <2>2. Len(dying') = Len(dying) - 1
    BY <1>2, <2>1
  <2> QED BY <1>2, <2>1, <2>2, ListedSame DEF KillMeasure
<1>6. CASE DisposeCurrent
  BY <1>6, DisposeCurrentLeaves
<1> QED BY <1>1, <1>3, <1>4, <1>5, <1>6 DEF Terminating

KillBounded == InKernel => KillMeasure \in 1 .. 3 * Cardinality(Pcb)

LEMMA KillStaysBounded ==
    ASSUME IInv, IInv', TreeInv, RootInv, KillBounded, [Next]_vars
    PROVE  KillBounded'
<1> SUFFICES ASSUME InKernel'
             PROVE  KillMeasure' \in 1 .. 3 * Cardinality(Pcb)
  BY DEF KillBounded
<1>1. Cardinality(Pcb) \in Nat
  BY PcbAssumption, FS_CardinalityType
<1>2. KillMeasure' \in Nat /\ KillMeasure' >= 1
  <2>1. dying' \in Seq(Pcb) /\ dying' # <<>>
    BY DEF IInv, TypeOK, Mode, InKernel
  <2>2. Len(dying') \in Nat \ {0}
    BY <2>1, LenProperties, EmptySeq
  <2>3. Cardinality(Listed') \in Nat
    BY ListedFiniteAfter
  <2> QED BY <2>2, <2>3 DEF KillMeasure
<1>3. KillMeasure' <= 3 * Cardinality(Pcb)
  <2>1. CASE UNCHANGED vars
    <3>1. UNCHANGED <<p_child, dying, cpu, InKernel>>
      BY <2>1 DEF vars, procVars, InKernel
    <3>2. KillMeasure' = KillMeasure
      BY <3>1, ListedSame DEF KillMeasure
    <3> QED BY <3>1, <3>2 DEF KillBounded
  <2>2. CASE Next /\ InKernel
    <3>1. KillMeasure' = KillMeasure - 1 /\ KillMeasure \in 1 .. 3 * Cardinality(Pcb)
      BY <2>2, KillStep DEF KillBounded
    <3> QED BY <1>1, <3>1
  <2>3. CASE Next /\ ~InKernel
    BY <2>3, KillBegins
  <2> QED BY <2>1, <2>2, <2>3
<1> QED BY <1>1, <1>2, <1>3

\* Every step of terminateProcess but its last, which leaves the kernel, brings its
\* end one step nearer: no call is made twice for one pcb, and the while loop over
\* the children runs out of them whatever the tree looks like.
KillShortens == [][InKernel /\ InKernel' => KillMeasure' = KillMeasure - 1]_vars

\* SYS2 and pass up or die: terminateProcess runs out of descendants, after at most
\* three steps for every pcb there is.
THEOREM KillEnds == Spec => []KillBounded /\ KillShortens
<1>1. IInv /\ IInv' /\ TreeInv /\ RootInv /\ [Next]_vars => RootInv'
  BY NextRoot
<1>2. IInv /\ IInv' /\ TreeInv /\ [Next]_vars => TreeInv'
  BY NextTree
<1>3. IInv /\ IInv' /\ TreeInv /\ RootInv /\ KillBounded /\ [Next]_vars => KillBounded'
  BY KillStaysBounded
<1>4. IInv /\ TreeInv /\ [Next]_vars =>
          [InKernel /\ InKernel' => KillMeasure' = KillMeasure - 1]_vars
  BY KillStep
<1>5. Init => KillBounded
  BY DEF Init, KillBounded, InKernel
<1> QED BY <1>1, <1>2, <1>3, <1>4, <1>5, InitTree, InitRoot, Invariance, PTL
        DEF Spec, KillShortens

----------------------------------------------------------------------------
(* Everybody's turn comes.                                                 *)

\* Those before p in the ready queue.
Ahead(p) == {q \in Pcb : Before(readyQ, q, p)}

\* In a queue one of two elements is before the other.
LEMMA BeforeInQueue ==
    ASSUME NEW s, IsQueue(s, Pcb)
    PROVE  /\ \A p, q : Before(s, p, q) => p \in ToSet(s) /\ q \in ToSet(s) /\ ~Before(s, q, p)
           /\ \A p, q \in ToSet(s) : p # q => Before(s, p, q) \/ Before(s, q, p)
<1>1. /\ DOMAIN s = 1 .. Len(s) /\ Len(s) \in Nat
      /\ \A j, k \in 1 .. Len(s) : s[j] = s[k] => j = k
      /\ \A k \in 1 .. Len(s) : s[k] \in ToSet(s)
      /\ \A x \in ToSet(s) : \E k \in 1 .. Len(s) : s[k] = x
  BY OnePlace, Positions, LenProperties DEF IsQueue
<1>2. ASSUME NEW p, NEW q, Before(s, p, q)
      PROVE  p \in ToSet(s) /\ q \in ToSet(s) /\ ~Before(s, q, p)
  <2>1. PICK i, j \in 1 .. Len(s) : i < j /\ s[i] = p /\ s[j] = q
    BY <1>1, <1>2 DEF Before
  <2>2. ASSUME NEW k \in 1 .. Len(s), NEW l \in 1 .. Len(s), k < l, s[k] = q, s[l] = p
        PROVE  FALSE
    <3>1. k = j /\ l = i
      BY <1>1, <2>1, <2>2
    <3> QED BY <1>1, <2>1, <2>2, <3>1
  <2> QED BY <1>1, <2>1, <2>2 DEF Before
<1>3. ASSUME NEW p \in ToSet(s), NEW q \in ToSet(s), p # q
      PROVE  Before(s, p, q) \/ Before(s, q, p)
  <2>1. PICK i, j \in 1 .. Len(s) : s[i] = p /\ s[j] = q
    BY <1>1
  <2>2. i < j \/ j < i
    BY <1>1, <1>3, <2>1
  <2> QED BY <1>1, <2>1, <2>2 DEF Before
<1> QED BY <1>2, <1>3

\* Whoever stays in the ready queue gets nobody before it who was not there.
LEMMA AheadShrinks ==
    ASSUME IInv, IInv', ReadyInTurn, NEW p \in Ready, p \in Ready'
    PROVE  Ahead(p)' \subseteq Ahead(p)
<1>1. IsQueue(readyQ, Pcb) /\ IsQueue(readyQ', Pcb)
  BY TheQueues, TheQueuesAfter
<1>2. p \in ToSet(readyQ) \cap ToSet(readyQ')
  BY DEF Ready
<1>3. ASSUME NEW q \in Pcb, Before(readyQ', q, p)
      PROVE  Before(readyQ, q, p)
  <2>1. q \in ToSet(readyQ') /\ ~Before(readyQ', p, q) /\ q # p
    BY <1>1, <1>3, BeforeInQueue
  <2>2. q \in ToSet(readyQ) /\ ~Before(readyQ, p, q)
    BY <1>2, <2>1 DEF ReadyInTurn, FirstComeFirstServed
  <2> QED BY <1>1, <1>2, <2>1, <2>2, BeforeInQueue
<1> QED BY <1>3 DEF Ahead

\* The process at the head of the ready queue runs after the end of a time slice.
LEMMA SliceTakesHead ==
    ASSUME IInv, IInv', PltInterrupt, readyQ # <<>>
    PROVE  currentProc' = readyQ[1] /\ currentProc' \in Pcb
<1>1. readyQ \in Seq(Pcb) /\ Len(readyQ) \in Nat \ {0} /\ readyQ[1] \in Pcb
  BY TheQueues, LenProperties, EmptySeq DEF IsQueue
<1>2. CASE currentProc = NULL
  BY <1>1, <1>2, SchedulerTakesHead DEF PltInterrupt
<1>3. CASE currentProc # NULL
  <2> DEFINE w == Append(readyQ, currentProc)
  <2>1. Scheduler(w, NULL, StateCopy) /\ currentProc \in Pcb
    BY <1>3, TheQueues DEF PltInterrupt, Preempted
  <2>2. w \in Seq(Pcb) /\ w[1] = readyQ[1] /\ w # <<>>
    BY <1>1, <2>1
  <2> HIDE DEF w
  <2> QED BY <1>1, <2>1, <2>2, SchedulerTakesHead
<1> QED BY <1>2, <1>3

LEMMA SliceBringsNearer ==
    ASSUME IInv, IInv', PltInterrupt, NEW p \in Ready, p \in Ready'
    PROVE  \E h \in Ahead(p) : h \notin Ahead(p)'
<1> DEFINE h == readyQ[1]
<1>1. IsQueue(readyQ, Pcb) /\ IsQueue(readyQ', Pcb) /\ p \in ToSet(readyQ)
  BY TheQueues, TheQueuesAfter DEF Ready
<1>2. /\ DOMAIN readyQ = 1 .. Len(readyQ) /\ Len(readyQ) \in Nat
      /\ \A k \in 1 .. Len(readyQ) : readyQ[k] \in Pcb
  BY <1>1, LenProperties DEF IsQueue
<1>3. PICK k \in 1 .. Len(readyQ) : readyQ[k] = p
  BY <1>1, Positions DEF IsQueue
<1>4. readyQ # <<>> /\ 1 \in 1 .. Len(readyQ)
  BY <1>2, <1>3
<1>5. currentProc' = h /\ h \in Pcb
  BY <1>4, SliceTakesHead
<1>6. h \notin ToSet(readyQ')
  BY <1>5, TheQueuesAfter, PcbAssumption
<1>7. h # p
  BY <1>6 DEF Ready
<1>8. Before(readyQ, h, p)
  <2>1. 1 < k
    BY <1>2, <1>3, <1>7
  <2> QED BY <1>2, <1>3, <1>4, <2>1 DEF Before
<1>9. ~Before(readyQ', h, p)
  BY <1>1, <1>6, BeforeInQueue
<1> QED BY <1>5, <1>8, <1>9 DEF Ahead

\* Nobody leaves the ready queue but for the processor, or killed.
LEMMA StaysReady ==
    ASSUME IInv, IInv', TreeInv, Next, ~InKernel, NEW p \in Ready
    PROVE  p \in Ready' \/ p = currentProc'
<1>1. \A R : Chooses(R) /\ p \in R => p \in Ready' \/ p = currentProc'
  BY DEF Chooses
<1>2. Stays => Ready' = Ready
  BY DEF Stays, Ready
<1>3. ASSUME NEW sup, CreateProcess(sup) PROVE p \in Ready'
  BY <1>2, <1>3, CreateChanges DEF Spawned
<1>4. CASE TerminateProcess \/ PassUpOrDie \/ GetInfo \/ Stopped
  BY <1>4 DEF TerminateProcess, PassUpOrDie, Terminate, GetInfo, Stopped, vars, Ready
<1>5. ASSUME NEW s \in Sema4, Passeren(s) \/ Verhogen(s) PROVE p \in Ready' \/ p = currentProc'
  BY <1>1, <1>2, <1>5, PasserenChanges, VerhogenChanges DEF BlocksOn
<1>6. ASSUME NEW d \in Device, WaitForDevice(d) \/ DeviceInterrupt(d)
      PROVE  p \in Ready' \/ p = currentProc'
  BY <1>1, <1>2, <1>6, WaitForDeviceChanges, DeviceInterruptChanges DEF BlocksOn, Releases
<1>7. CASE WaitForClock \/ PltInterrupt \/ ItInterrupt
  BY <1>1, <1>7, WaitForClockChanges, PltInterruptChanges, ItInterruptChanges
     DEF BlocksOn, Releases
<1>8. ~Terminating
  BY DEF Terminating, TerminateChild, UnlinkBlocked, UnlinkReady, DisposeChild,
         DisposeCurrent, InKernel
<1> QED BY <1>3, <1>4, <1>5, <1>6, <1>7, <1>8 DEF Next

TurnNearer(p) ==
    \/ p = currentProc'
    \/ InKernel /\ p \notin Ready'
    \/ /\ p \in Ready' /\ Ahead(p)' \subseteq Ahead(p)
       /\ PltInterrupt => Ahead(p)' # Ahead(p)

\* A ready process is only ever moved forward: it stays in the ready queue until it
\* gets the processor or is killed, nobody comes in before it, and the end of every
\* time slice takes at least one of those before it away.
TurnsCome == [][\A p \in Ready : TurnNearer(p)]_vars

\* The scheduler, the handlers and the process local timer starve nobody.
THEOREM TurnComes == Spec => TurnsCome
<1>1. ASSUME IInv, IInv', TreeInv, [Next]_vars
      PROVE  [\A p \in Ready : TurnNearer(p)]_vars
  <2> SUFFICES ASSUME Next, NEW p \in Ready
               PROVE  TurnNearer(p)
    BY <1>1
  <2>1. p \in Ready' => Ahead(p)' \subseteq Ahead(p)
    BY <1>1, NextInTurn, AheadShrinks DEF InTurnStep
  <2>2. p \in Ready' /\ PltInterrupt => Ahead(p)' # Ahead(p)
    BY <1>1, SliceBringsNearer
  <2>3. InKernel \/ p \in Ready' \/ p = currentProc'
    BY <1>1, StaysReady
  <2> QED BY <2>1, <2>2, <2>3 DEF TurnNearer
<1>2. IInv /\ IInv' /\ TreeInv /\ [Next]_vars => TreeInv'
  BY NextTree
<1> QED BY <1>1, <1>2, InitTree, Invariance, PTL DEF Spec, TurnsCome

----------------------------------------------------------------------------
(* Who blocks, and what ends it.                                           *)

\* The current process goes on, and waits for nothing.
GoesOn == currentProc' = currentProc /\ p_semAdd'[currentProc] = NULL

\* The current process waits for a.
Waits(a) == p_semAdd'[currentProc] = a /\ currentProc' # currentProc

LEMMA BlocksOnIs ==
    ASSUME IInv, cpu = "run", NEW a \in SemAdd, BlocksOn(a)
    PROVE  Waits(a)
<1>1. /\ currentProc \in Pcb /\ currentProc # NULL /\ currentProc \notin Ready
      /\ p_semAdd \in [Pcb -> SemAdd \cup {NULL}]
  BY CurrentRuns, RunningFacts DEF Ready, IInv, TypeOK
<1>2. currentProc' # currentProc
  BY <1>1 DEF BlocksOn, Chooses
<1>3. p_semAdd'[currentProc] = a
  BY <1>1 DEF BlocksOn
<1> QED BY <1>2, <1>3 DEF Waits

LEMMA StaysIs ==
    ASSUME IInv, cpu = "run", Stays
    PROVE  GoesOn
BY CurrentRuns, RunningFacts DEF Stays, GoesOn

\* A P blocks who does it exactly when the semaphore is not above 0 - which for SYS5
\* is that no interrupt has come early, whatever kills have done to the semaphore -
\* and SYS7 always does: what waitForClock does otherwise, calling the scheduler with
\* the process in no queue, never happens.
BlocksExactly ==
    [][/\ \A s \in Sema4 : Passeren(s) => IF semaphore[s] > 0 THEN GoesOn ELSE Waits(s)
       /\ \A d \in Device :
             WaitForDevice(d) => IF semaphore[d] > 0 THEN GoesOn ELSE Waits(d)
       /\ WaitForClock => Waits(Clock)]_vars

LEMMA DeviceBlocks ==
    ASSUME IInv, NEW d \in Device, WaitForDevice(d)
    PROVE  IF semaphore[d] > 0 THEN GoesOn ELSE Waits(d)
<1>1. /\ d \in SemAdd /\ cpu = "run" /\ semaphore[d] \in Int
      /\ semaphore'[d] = semaphore[d] - 1
  BY DEF WaitForDevice, SemAdd, IInv, TypeOK
<1>2. CASE semaphore[d] > 0
  <2>1. ~(semaphore'[d] < 0)
    BY <1>1, <1>2
  <2>2. Stays
    BY <2>1 DEF WaitForDevice, Resume, Stays
  <2> QED BY <1>1, <1>2, <2>2, StaysIs
<1>3. CASE ~(semaphore[d] > 0)
  <2>1. semaphore'[d] < 0
    BY <1>1, <1>3
  <2>2. InsertBlocked(d, currentProc) /\ Scheduler(readyQ, NULL, StateCopy)
    BY <2>1 DEF WaitForDevice
  <2> QED BY <1>1, <1>3, <2>2, BlockingChanges, BlocksOnIs
<1> QED BY <1>2, <1>3

\* SYS3, SYS5 and SYS7, for every value kills and early interrupts leave behind.
THEOREM BlockingCalls == Spec => BlocksExactly
<1>1. ASSUME IInv, NEW s \in Sema4, Passeren(s)
      PROVE  IF semaphore[s] > 0 THEN GoesOn ELSE Waits(s)
  <2>1. s \in SemAdd /\ cpu = "run"
    BY <1>1 DEF SemAdd, Passeren
  <2> QED BY <1>1, <2>1, PasserenChanges, StaysIs, BlocksOnIs
<1>2. ASSUME IInv, WaitForClock
      PROVE  Waits(Clock)
  <2>1. Clock \in SemAdd /\ cpu = "run"
    BY <1>2 DEF SemAdd, WaitForClock
  <2> QED BY <1>2, <2>1, WaitForClockChanges, BlocksOnIs
<1>3. IInv =>
      [/\ \A s \in Sema4 : Passeren(s) => IF semaphore[s] > 0 THEN GoesOn ELSE Waits(s)
       /\ \A d \in Device :
             WaitForDevice(d) => IF semaphore[d] > 0 THEN GoesOn ELSE Waits(d)
       /\ WaitForClock => Waits(Clock)]_vars
  BY <1>1, <1>2, DeviceBlocks
<1> QED BY <1>3, Invariance, PTL DEF Spec, BlocksExactly

\* What ends the wait of whoever waits for a.
Occurs(a) ==
    \/ a \in Sema4 /\ Verhogen(a)
    \/ a \in Device /\ DeviceInterrupt(a)
    \/ a = Clock /\ ItInterrupt

\* A process stops waiting only because what it waits for has happened, and then it
\* is ready or runs; or because it is killed.
Woken(p) ==
    \/ p_semAdd'[p] = p_semAdd[p] /\ (p_semAdd[p] = Clock => ~ItInterrupt)
    \/ p_semAdd'[p] = NULL /\ Occurs(p_semAdd[p]) /\ p \in Ready' \cup Running'
    \/ p_semAdd'[p] = NULL /\ InKernel

\* Nobody is woken by another one's event or lost when its own comes, and a tick of
\* the interval timer leaves nobody waiting for the clock.
WokenRightly == [][\A p \in Blocked : Woken(p)]_vars

LEMMA ReleasedRun ==
    ASSUME NEW a, NEW W, Releases(a, W), W \subseteq Pcb
    PROVE  W \subseteq Ready' \cup Running'
BY PcbAssumption DEF Releases, Chooses, Running

\* Those who stop waiting for a are ready, or one of them runs.
LEMMA FreedAreWoken ==
    ASSUME IInv, NEW a \in SemAdd, NEW W, Frees(a, W), NEW p \in Blocked,
           W \subseteq Ready' \cup Running', Occurs(a),
           ItInterrupt => W = Waiting(Clock)
    PROVE  Woken(p)
<1>1. p \in Pcb
  BY DEF Blocked
<1>2. CASE p \in W
  <2>1. p_semAdd'[p] = NULL /\ p_semAdd[p] = a
    BY <1>1, <1>2 DEF Frees, Waiting
  <2> QED BY <1>2, <2>1 DEF Woken
<1>3. CASE p \notin W
  <2>1. p_semAdd'[p] = p_semAdd[p]
    BY <1>1, <1>3 DEF Frees
  <2>2. ItInterrupt => p_semAdd[p] # Clock
    BY <1>1, <1>3 DEF Waiting
  <2> QED BY <2>1, <2>2 DEF Woken
<1> QED BY <1>2, <1>3

LEMMA TickWakes ==
    ASSUME IInv, ItInterrupt, NEW p \in Blocked
    PROVE  Woken(p)
<1>1. Releases(Clock, Waiting(Clock)) /\ Clock \in SemAdd /\ Occurs(Clock)
  BY ItInterruptChanges DEF SemAdd, Occurs
<1>2. Waiting(Clock) \subseteq Ready' \cup Running'
  BY <1>1, ReleasedRun, AliveWhere DEF Waiting
<1> QED BY <1>1, <1>2, FreedAreWoken DEF Releases

\* A handler that wakes nobody.
LEMMA OthersWait ==
    ASSUME IInv, NEW p \in Blocked, ~ItInterrupt,
           \/ p_semAdd' = p_semAdd
           \/ \E a \in SemAdd : cpu = "run" /\ BlocksOn(a)
    PROVE  Woken(p)
<1>1. p \in Pcb /\ p_semAdd \in [Pcb -> SemAdd \cup {NULL}]
  BY DEF Blocked, IInv, TypeOK
<1>2. cpu = "run" => p # currentProc
  BY CurrentRuns, AliveWhere, PcbAssumption DEF Running
<1>3. p_semAdd'[p] = p_semAdd[p]
  BY <1>1, <1>2 DEF BlocksOn
<1> QED BY <1>3 DEF Woken

LEMMA NextWoken ==
    ASSUME IInv, TreeInv, Next, ~ItInterrupt, NEW p \in Blocked
    PROVE  Woken(p)
<1>1. Sema4 \subseteq SemAdd /\ Device \subseteq SemAdd /\ Clock \in SemAdd
  BY DEF SemAdd
<1>2. ASSUME NEW sup, CreateProcess(sup) PROVE Woken(p)
  BY <1>2, CreateChanges, OthersWait DEF Stays, Spawned
<1>3. CASE TerminateProcess \/ PassUpOrDie \/ GetInfo \/ Stopped \/ PltInterrupt
  BY <1>3, OthersWait
     DEF TerminateProcess, PassUpOrDie, Terminate, GetInfo, Stopped, PltInterrupt, vars,
         semVars
<1>4. ASSUME NEW s \in Sema4, Passeren(s) PROVE Woken(p)
  <2>1. cpu = "run" /\ (Stays \/ BlocksOn(s))
    BY <1>4, PasserenChanges DEF Passeren
  <2> QED BY <1>1, <2>1, OthersWait DEF Stays
<1>5. ASSUME NEW s \in Sema4, Verhogen(s) PROVE Woken(p)
  <2>1. PICK W : Frees(s, W) /\ Ready' = Ready \cup W
    BY <1>5, VerhogenChanges
  <2>2. Occurs(s)
    BY <1>5 DEF Occurs
  <2> QED BY <1>1, <2>1, <2>2, FreedAreWoken
<1>6. ASSUME NEW d \in Device, WaitForDevice(d) PROVE Woken(p)
  <2>1. cpu = "run" /\ (Stays \/ BlocksOn(d))
    BY <1>6, WaitForDeviceChanges DEF WaitForDevice
  <2> QED BY <1>1, <2>1, OthersWait DEF Stays
<1>7. ASSUME NEW d \in Device, DeviceInterrupt(d) PROVE Woken(p)
  <2>1. PICK W : Releases(d, W)
    BY <1>7, DeviceInterruptChanges
  <2>2. W \subseteq Ready' \cup Running' /\ Occurs(d)
    BY <1>7, <2>1, ReleasedRun DEF Occurs, Releases, Frees, Waiting
  <2> QED BY <1>1, <2>1, <2>2, FreedAreWoken DEF Releases
<1>8. CASE WaitForClock
  <2>1. cpu = "run" /\ BlocksOn(Clock)
    BY <1>8, WaitForClockChanges DEF WaitForClock
  <2> QED BY <1>1, <2>1, OthersWait
<1>9. CASE Terminating
  <2>1. CASE UnlinkBlocked
    <3>1. InKernel /\ p_semAdd' = [p_semAdd EXCEPT ![Head(dying)] = NULL]
      BY <2>1 DEF UnlinkBlocked, OutBlocked, InKernel
    <3>2. p \in Pcb /\ p_semAdd \in [Pcb -> SemAdd \cup {NULL}]
      BY DEF Blocked, IInv, TypeOK
    <3> QED BY <3>1, <3>2 DEF Woken
  <2>2. CASE ~UnlinkBlocked
    <3>1. p_semAdd' = p_semAdd
      BY <1>9, <2>2 DEF Terminating, TerminateChild, UnlinkReady, DisposeChild,
                        DisposeCurrent, semVars
    <3> QED BY <3>1, OthersWait
  <2> QED BY <2>1, <2>2
<1> QED BY <1>2, <1>3, <1>4, <1>5, <1>6, <1>7, <1>8, <1>9 DEF Next

\* SYS4 and the interrupt handlers wake the right ones, in any number of semaphores.
THEOREM WakesTheRightOnes == Spec => WokenRightly
<1>1. IInv /\ IInv' /\ TreeInv /\ [Next]_vars => [\A p \in Blocked : Woken(p)]_vars
  BY NextWoken, TickWakes
<1>2. IInv /\ IInv' /\ TreeInv /\ [Next]_vars => TreeInv'
  BY NextTree
<1> QED BY <1>1, <1>2, InitTree, Invariance, PTL DEF Spec, WokenRightly

----------------------------------------------------------------------------
(* What the nucleus shows of itself.                                       *)

vRun    == IF InKernel THEN NULL ELSE currentProc
vReady  == Ready \ Doomed
vWaits  == [a \in SemAdd |-> ToSet(asl[a]) \ Doomed]
vCount  == [s \in Sema4 |-> semaphore[s] + Cardinality(ToSet(asl[s]) \cap Doomed)]
vParent == [p \in Pcb |-> ParentOf(p)]

\* Parents outside of terminateProcess.
Parents == [p \in Pcb |-> IF p \in Live /\ \E q \in Pcb : p \in Children(q)
                          THEN CHOOSE q \in Pcb : p \in Children(q)
                          ELSE NULL]

\* Outside of terminateProcess nobody is doomed.
Outside ==
    /\ vRun = currentProc /\ vReady = Ready /\ Doomed = {}
    /\ vWaits = [a \in SemAdd |-> Waiting(a)]
    /\ vCount = [s \in Sema4 |-> semaphore[s]]
    /\ vParent = Parents

LEMMA ViewOutside == IInv /\ ~InKernel => Outside
<1> SUFFICES ASSUME IInv, ~InKernel PROVE Outside
  OBVIOUS
<1>1. Doomed = {}
  BY DEF IInv, Mode, TypeOK, CpuState, InKernel, Doomed
<1>2. \A a \in SemAdd : ToSet(asl[a]) = Waiting(a)
  BY WaitersQueued
<1>3. \A s \in Sema4 : semaphore[s] + Cardinality(ToSet(asl[s]) \cap Doomed) = semaphore[s]
  <2>1. \A s \in Sema4 : semaphore[s] \in Int
    BY DEF IInv, TypeOK, SemAdd
  <2>2. \A s \in Sema4 : ToSet(asl[s]) \cap Doomed = {}
    BY <1>1
  <2> QED BY <2>1, <2>2, FS_EmptySet
<1>4. \A p \in Pcb : ParentOf(p) = Parents[p]
  BY <1>1 DEF ParentOf, Parents
<1>5. vParent = Parents
  BY <1>4 DEF vParent, Parents
<1>6. vWaits = [a \in SemAdd |-> Waiting(a)]
  BY <1>1, <1>2 DEF vWaits
<1>7. vCount = [s \in Sema4 |-> semaphore[s]]
  BY <1>3 DEF vCount
<1> QED BY <1>1, <1>5, <1>6, <1>7 DEF Outside, vRun, vReady

\* Nobody has two parents.
LEMMA OneParent ==
    ASSUME IInv, TreeInv, NEW p \in Pcb, NEW q \in Pcb, q \in Children(p), q \in Live,
           q \notin Doomed
    PROVE  ParentOf(q) = p
<1>1. (CHOOSE r \in Pcb : q \in Children(r)) = p
  <2>1. \A r \in Pcb : q \in Children(r) => r = p
    BY ChildFacts
  <2> QED BY <2>1
<1> QED BY <1>1 DEF ParentOf

LEMMA ParentIs ==
    ASSUME NEW q \in Pcb, ParentOf(q) # NULL
    PROVE  ParentOf(q) \in Pcb /\ q \in Children(ParentOf(q)) /\ q \in Live /\ q \notin Doomed
<1>1. /\ q \in Live \ Doomed /\ \E r \in Pcb : q \in Children(r)
      /\ ParentOf(q) = CHOOSE r \in Pcb : q \in Children(r)
  BY DEF ParentOf
<1> QED BY <1>1

----------------------------------------------------------------------------
(* The first state.                                                        *)

LEMMA InitShows == Init => Promise!PInit
<1> SUFFICES ASSUME Init PROVE Promise!PInit
  OBVIOUS
<1>1. IInv /\ ~InKernel
  BY InitIInv DEF Init, InKernel
<1>2. Outside
  BY <1>1, ViewOutside
<1>3. PICK root \in Pcb : /\ readyQ = <<>> /\ currentProc = root
                          /\ semaphore = [a \in SemAdd |-> 0]
                          /\ p_semAdd = [p \in Pcb |-> NULL]
                          /\ p_child = [p \in Pcb |-> <<>>]
  BY DEF Init
<1>4. ToSet(<<>>) = {}
  BY DEF ToSet
<1>5. vRun = root /\ vReady = {}
  BY <1>2, <1>3, <1>4 DEF Outside, Ready
<1>6. vWaits = [a \in Sema4 \cup (Device \cup {Clock}) |-> {}]
  <2>1. \A a \in SemAdd : Waiting(a) = {}
    BY <1>3, SemAddAssumption DEF Waiting
  <2>2. SemAdd = Sema4 \cup (Device \cup {Clock})
    BY DEF SemAdd
  <2> QED BY <1>2, <2>1, <2>2 DEF Outside
<1>7. vCount = [s \in Sema4 |-> 0]
  BY <1>2, <1>3 DEF Outside, SemAdd
<1>8. vParent = [p \in Pcb |-> NULL]
  <2>1. \A p \in Pcb : Children(p) = {}
    BY <1>3, <1>4 DEF Children
  <2>2. Parents = [p \in Pcb |-> NULL]
    BY <2>1 DEF Parents
  <2> QED BY <1>2, <2>2 DEF Outside
<1> QED BY <1>5, <1>6, <1>7, <1>8 DEF Promise!PInit, vRun, vReady, vWaits, vCount, vParent

----------------------------------------------------------------------------
(* The handlers.                                                           *)

LEMMA ViewAfter == IInv' /\ ~InKernel' => Outside'
BY ViewOutside, PTL

\* What is seen of a handler that makes and ends no process.
Seen ==
    /\ vRun = currentProc /\ vRun' = currentProc'
    /\ vReady = Ready /\ vReady' = Ready'
    /\ vWaits = [a \in SemAdd |-> Waiting(a)]
    /\ vWaits' = [a \in SemAdd |-> Waiting(a)']
    /\ vCount = [s \in Sema4 |-> semaphore[s]]
    /\ vCount' = [s \in Sema4 |-> semaphore'[s]]
    /\ vParent' = vParent

LEMMA HandlersSeen ==
    ASSUME IInv, IInv', StaysLive
    PROVE  Seen
<1>1. Outside /\ Outside'
  BY ViewOutside, ViewAfter DEF StaysLive
<1>2. Parents' = Parents
  <2>1. Live' = Live /\ \A p \in Pcb : Children(p)' = Children(p)
    BY DEF StaysLive, Children
  <2>2. \A p, q \in Pcb : p \in Children(q)' <=> p \in Children(q)
    BY <2>1
  <2>3. \A p \in Pcb : (CHOOSE q \in Pcb : p \in Children(q)') =
                       (CHOOSE q \in Pcb : p \in Children(q))
    BY <2>1
  <2> QED BY <2>1, <2>2, <2>3 DEF Parents
<1> QED BY <1>1, <1>2 DEF Outside, Seen

\* Nothing is seen when only semaphores change that are not for SYS3 and SYS4.
LEMMA NothingSeen ==
    ASSUME Seen, Stays, \A s \in Sema4 : semaphore'[s] = semaphore[s]
    PROVE  UNCHANGED Promise!pvars
<1>1. UNCHANGED <<Ready, currentProc>> /\ \A a \in SemAdd : Waiting(a)' = Waiting(a)
  BY DEF Stays, Ready, Waiting
<1>2. UNCHANGED <<vRun, vReady, vWaits, vCount, vParent>>
  BY <1>1 DEF Seen
<1> QED BY <1>2 DEF Promise!pvars, vRun, vReady, vWaits, vCount, vParent

\* Semaphores of one kind are not of the other.
LEMMA OtherSemaphore ==
    ASSUME IInv, NEW d \in Device \cup {Clock}, NEW n, semaphore' = [semaphore EXCEPT ![d] = n]
    PROVE  \A s \in Sema4 : semaphore'[s] = semaphore[s]
<1>1. semaphore \in [SemAdd -> Int]
  BY DEF IInv, TypeOK
<1> QED BY <1>1, SemAddAssumption DEF SemAdd

LEMMA ChooseSeen ==
    ASSUME Seen, NEW R, Chooses(R)
    PROVE  Promise!Choose(R)
<1>1. IF R = {} THEN vRun' = NULL /\ vReady' = {} ELSE \E p \in R : vRun' = p /\ vReady' = R \ {p}
  BY DEF Seen, Chooses
<1> QED BY <1>1 DEF Promise!Choose, vRun, vReady

\* SYS3 that does not block, then one that blocks.
LEMMA CountsDown ==
    ASSUME IInv, IInv', StaysLive, cpu = "run", NEW s \in Sema4, Stays, semaphore[s] > 0,
           semaphore' = [semaphore EXCEPT ![s] = @ - 1]
    PROVE  Promise!P(s)
<1>1. Seen
  BY HandlersSeen
<1>2. currentProc \in Pcb /\ currentProc # NULL
  BY CurrentRuns
<1>3. UNCHANGED <<Ready, currentProc>> /\ \A a \in SemAdd : Waiting(a)' = Waiting(a)
  BY DEF Stays, Ready, Waiting
<1>4. vRun # NULL /\ UNCHANGED <<vRun, vReady, vWaits, vParent>>
  BY <1>1, <1>2, <1>3 DEF Seen
<1>5. vCount' = [vCount EXCEPT ![s] = @ - 1] /\ vCount[s] > 0
  <2>1. semaphore \in [SemAdd -> Int]
    BY DEF IInv, TypeOK
  <2> QED BY <1>1, <2>1 DEF Seen, SemAdd
<1> QED BY <1>4, <1>5 DEF Promise!P, vRun, vReady, vWaits, vCount, vParent

LEMMA WaitsMore ==
    ASSUME IInv, Seen, cpu = "run", NEW a \in SemAdd, BlocksOn(a)
    PROVE  /\ vRun # NULL /\ Promise!Choose(vReady)
           /\ vWaits' = [vWaits EXCEPT ![a] = @ \cup {vRun}]
<1>1. currentProc \in Pcb /\ currentProc # NULL
  BY CurrentRuns
<1>2. Promise!Choose(Ready)
  BY ChooseSeen DEF BlocksOn
<1>3. /\ Waiting(a)' = Waiting(a) \cup {currentProc}
      /\ \A b \in SemAdd \ {a} : Waiting(b)' = Waiting(b)
  <2>1. p_semAdd[currentProc] = NULL /\ p_semAdd \in [Pcb -> SemAdd \cup {NULL}]
    BY <1>1, RunningFacts DEF IInv, TypeOK
  <2> QED BY <1>1, <2>1, SemAddAssumption DEF BlocksOn, Waiting
<1>4. vWaits' = [vWaits EXCEPT ![a] = @ \cup {vRun}]
  BY <1>3 DEF Seen
<1> QED BY <1>1, <1>2, <1>4 DEF Seen

LEMMA PasserenIs ==
    ASSUME IInv, IInv', NEW s \in Sema4, Passeren(s)
    PROVE  Promise!P(s)
<1>1. StaysLive /\ Seen
  BY HandlersKeepLive, HandlersSeen
<1>2. cpu = "run" /\ semaphore' = [semaphore EXCEPT ![s] = @ - 1]
  BY DEF Passeren
<1>3. CASE semaphore[s] > 0
  BY <1>1, <1>2, <1>3, PasserenChanges, CountsDown
<1>4. CASE ~(semaphore[s] > 0)
  <2>1. s \in SemAdd /\ semaphore \in [SemAdd -> Int]
    BY DEF SemAdd, IInv, TypeOK
  <2>2. BlocksOn(s)
    BY <1>4, PasserenChanges
  <2>3. /\ vRun # NULL /\ Promise!Choose(vReady)
        /\ vWaits' = [vWaits EXCEPT ![s] = @ \cup {vRun}]
    BY <1>1, <1>2, <2>1, <2>2, WaitsMore
  <2>4. /\ vCount' = [vCount EXCEPT ![s] = @ - 1] /\ ~(vCount[s] > 0)
        /\ vParent' = vParent
    BY <1>1, <1>2, <1>4, <2>1 DEF Seen
  <2> QED BY <2>3, <2>4 DEF Promise!P, vRun, vReady, vWaits, vCount, vParent
<1> QED BY <1>3, <1>4

LEMMA VerhogenIs ==
    ASSUME IInv, IInv', NEW s \in Sema4, Verhogen(s)
    PROVE  Promise!V(s)
<1>1. Seen /\ currentProc \in Pcb /\ currentProc # NULL
  BY HandlersKeepLive, HandlersSeen, CurrentRuns DEF Verhogen
<1>2. /\ semaphore' = [semaphore EXCEPT ![s] = @ + 1] /\ currentProc' = currentProc
      /\ s \in SemAdd /\ semaphore \in [SemAdd -> Int]
  BY VerhogenChanges DEF SemAdd, IInv, TypeOK
<1>3. PICK W : /\ Frees(s, W) /\ Ready' = Ready \cup W
               /\ IF Waiting(s) = {} THEN W = {} ELSE \E w \in Waiting(s) : W = {w}
  BY VerhogenChanges
<1>4. /\ Waiting(s)' = Waiting(s) \ W
      /\ \A b \in SemAdd \ {s} : Waiting(b)' = Waiting(b)
  BY <1>2, <1>3, SemAddAssumption DEF Frees, Waiting
<1>5. /\ vRun # NULL /\ UNCHANGED <<vRun, vParent>>
      /\ vCount' = [vCount EXCEPT ![s] = @ + 1]
  BY <1>1, <1>2 DEF Seen, SemAdd
<1>6. vWaits' = [vWaits EXCEPT ![s] = @ \ W] /\ vReady' = vReady \cup W /\ vWaits[s] = Waiting(s)
  BY <1>1, <1>2, <1>3, <1>4 DEF Seen
<1>7. IF vWaits[s] = {}
      THEN UNCHANGED <<vReady, vWaits>>
      ELSE \E p \in vWaits[s] : /\ vWaits' = [vWaits EXCEPT ![s] = @ \ {p}]
                                /\ vReady' = vReady \cup {p}
  <2>1. CASE vWaits[s] = {}
    <3>1. W = {}
      BY <1>3, <1>6, <2>1
    <3>2. vWaits' = vWaits
      BY <1>1, <1>4, <3>1 DEF Seen
    <3> QED BY <1>6, <2>1, <3>1, <3>2
  <2>2. CASE vWaits[s] # {}
    <3>1. PICK w \in vWaits[s] : W = {w}
      BY <1>3, <1>6, <2>2
    <3> QED BY <1>6, <2>2, <3>1
  <2> QED BY <2>1, <2>2
<1> QED BY <1>5, <1>7 DEF Promise!V, vRun, vReady, vWaits, vCount, vParent

\* SYS5 and SYS7, when they block.
LEMMA AwaitIs ==
    ASSUME IInv, Seen, cpu = "run", NEW d \in Device \cup {Clock}, BlocksOn(d),
           NEW n, semaphore' = [semaphore EXCEPT ![d] = n]
    PROVE  Promise!Await(d)
<1>1. /\ vRun # NULL /\ Promise!Choose(vReady)
      /\ vWaits' = [vWaits EXCEPT ![d] = @ \cup {vRun}]
  BY WaitsMore DEF SemAdd
<1>2. \A s \in Sema4 : semaphore'[s] = semaphore[s]
  BY OtherSemaphore
<1>3. UNCHANGED <<vCount, vParent>>
  BY <1>2 DEF Seen
<1> QED BY <1>1, <1>3 DEF Promise!Await, vRun, vReady, vWaits, vCount, vParent

LEMMA WaitForDeviceIs ==
    ASSUME IInv, IInv', NEW d \in Device, WaitForDevice(d)
    PROVE  Promise!Await(d) \/ UNCHANGED Promise!pvars
<1>1. Seen /\ cpu = "run"
  BY HandlersKeepLive, HandlersSeen DEF WaitForDevice
<1>2. PICK n \in Int : semaphore' = [semaphore EXCEPT ![d] = n]
  BY WaitForDeviceChanges
<1>3. \A s \in Sema4 : semaphore'[s] = semaphore[s]
  BY <1>2, OtherSemaphore
<1>4. Stays \/ BlocksOn(d)
  BY WaitForDeviceChanges
<1>5. CASE Stays
  BY <1>1, <1>3, <1>5, NothingSeen
<1>6. CASE BlocksOn(d)
  BY <1>1, <1>2, <1>6, AwaitIs
<1> QED BY <1>4, <1>5, <1>6

LEMMA WaitForClockIs ==
    ASSUME IInv, IInv', WaitForClock
    PROVE  Promise!Await(Clock)
<1>1. Seen /\ cpu = "run"
  BY HandlersKeepLive, HandlersSeen DEF WaitForClock
<1>2. PICK n \in Int : semaphore' = [semaphore EXCEPT ![Clock] = n]
  BY WaitForClockChanges
<1> QED BY <1>1, <1>2, WaitForClockChanges, AwaitIs

\* The interrupts of devices and of the interval timer.
LEMMA ReleaseIs ==
    ASSUME IInv, Seen, NEW d \in Device \cup {Clock}, NEW W, Releases(d, W),
           NEW n, semaphore' = [semaphore EXCEPT ![d] = n]
    PROVE  Promise!Release(d, W)
<1>1. \A s \in Sema4 : semaphore'[s] = semaphore[s]
  BY OtherSemaphore
<1>2. UNCHANGED <<vCount, vParent>>
  BY <1>1 DEF Seen
<1>3. vWaits' = [vWaits EXCEPT ![d] = @ \ W]
  <2>1. /\ Waiting(d)' = Waiting(d) \ W
        /\ \A b \in SemAdd \ {d} : Waiting(b)' = Waiting(b)
    BY SemAddAssumption DEF Releases, Frees, Waiting, SemAdd
  <2> QED BY <2>1 DEF Seen, SemAdd
<1>4. \/ vRun # NULL /\ vRun' = vRun /\ vReady' = vReady \cup W
      \/ Promise!Choose(vReady \cup W \cup ({vRun} \ {NULL}))
  <2>1. CASE currentProc # NULL /\ currentProc' = currentProc /\ Ready' = Ready \cup W
    BY <2>1 DEF Seen
  <2>2. CASE Chooses(Ready \cup W \cup Running)
    <3>1. Promise!Choose(Ready \cup W \cup Running)
      BY <2>2, ChooseSeen
    <3> QED BY <3>1 DEF Seen, Running
  <2> QED BY <2>1, <2>2 DEF Releases
<1> QED BY <1>2, <1>3, <1>4 DEF Promise!Release, vRun, vReady, vWaits, vCount, vParent

LEMMA DeviceInterruptIs ==
    ASSUME IInv, IInv', NEW d \in Device, DeviceInterrupt(d)
    PROVE  Promise!Happens(d)
<1>1. Seen /\ vWaits[d] = Waiting(d)
  BY HandlersKeepLive, HandlersSeen DEF Seen, SemAdd
<1>2. PICK n \in Int : semaphore' = [semaphore EXCEPT ![d] = n]
  BY DeviceInterruptChanges
<1>3. PICK W : /\ Releases(d, W)
               /\ IF Waiting(d) = {} THEN W = {} ELSE \E w \in Waiting(d) : W = {w}
  BY DeviceInterruptChanges
<1>4. Promise!Release(d, W)
  BY <1>1, <1>2, <1>3, ReleaseIs
<1>5. W = vWaits[d] \/ \E w \in vWaits[d] : W = {w}
  BY <1>1, <1>3
<1>6. Promise!Release(d, vWaits[d]) \/ \E w \in vWaits[d] : Promise!Release(d, {w})
  BY <1>4, <1>5
<1> QED BY <1>6 DEF Promise!Happens, vWaits

LEMMA ItInterruptIs ==
    ASSUME IInv, IInv', ItInterrupt
    PROVE  Promise!Happens(Clock)
<1>1. Seen /\ vWaits[Clock] = Waiting(Clock)
  BY HandlersKeepLive, HandlersSeen DEF Seen, SemAdd
<1>2. PICK n \in Int : semaphore' = [semaphore EXCEPT ![Clock] = n]
  BY ItInterruptChanges
<1>3. Promise!Release(Clock, Waiting(Clock))
  BY <1>1, <1>2, ItInterruptChanges, ReleaseIs
<1> QED BY <1>1, <1>3 DEF Promise!Happens, vWaits

LEMMA PltInterruptIs ==
    ASSUME IInv, IInv', PltInterrupt
    PROVE  Promise!Dispatch
<1>1. Seen /\ UNCHANGED <<semaphore, p_semAdd>> /\ Chooses(Ready \cup Running)
  BY HandlersKeepLive, HandlersSeen, PltInterruptChanges
<1>2. UNCHANGED <<vWaits, vCount, vParent>>
  BY <1>1 DEF Seen, Waiting
<1>3. Promise!Choose(vReady \cup ({vRun} \ {NULL}))
  BY <1>1, ChooseSeen DEF Seen, Running
<1> QED BY <1>2, <1>3 DEF Promise!Dispatch, vRun, vReady, vWaits, vCount, vParent

LEMMA GetInfoIs ==
    ASSUME IInv, IInv', GetInfo \/ Stopped
    PROVE  UNCHANGED Promise!pvars
<1>1. Seen /\ Stays /\ semaphore' = semaphore
  BY HandlersKeepLive, HandlersSeen DEF GetInfo, Stopped, Resume, Stays, semVars, vars
<1> QED BY <1>1, NothingSeen

ParentsWith(p, c) == Parents' = [Parents EXCEPT ![p] = c]

LEMMA ParentsGrow ==
    ASSUME NEW c \in Pcb, NEW p \in Pcb, p \notin Live, Live' = Live \cup {p},
           \A q \in Pcb : p \notin Children(q) /\ (p \in Children(q)' <=> q = c),
           \A q \in Pcb \ {p}, r \in Pcb : q \in Children(r)' <=> q \in Children(r)
    PROVE  ParentsWith(p, c)
<1>1. Parents'[p] = c
  <2>1. (CHOOSE q \in Pcb : p \in Children(q)') = c
    OBVIOUS
  <2> QED BY <2>1 DEF Parents
<1>2. ASSUME NEW q \in Pcb \ {p} PROVE Parents'[q] = Parents[q]
  <2>1. (CHOOSE r \in Pcb : q \in Children(r)') = (CHOOSE r \in Pcb : q \in Children(r))
    OBVIOUS
  <2> QED BY <2>1 DEF Parents
<1>3. Parents' = [q \in Pcb |-> Parents'[q]] /\ Parents = [q \in Pcb |-> Parents[q]]
  BY DEF Parents
<1> HIDE DEF Parents
<1> QED BY <1>1, <1>2, <1>3 DEF ParentsWith

\* SYS1.
LEMMA CreateProcessIs ==
    ASSUME IInv, IInv', TreeInv, NEW sup, CreateProcess(sup)
    PROVE  Promise!Spawn \/ UNCHANGED Promise!pvars
<1>1. /\ ~InKernel /\ ~InKernel' /\ currentProc \in Pcb /\ semaphore' = semaphore
      /\ (StaysLive /\ Stays) \/ \E c, p \in Pcb : Spawned(c, p)
  BY CreateChanges
<1>2. CASE StaysLive /\ Stays
  BY <1>1, <1>2, HandlersSeen, NothingSeen
<1>3. ASSUME NEW c \in Pcb, NEW p \in Pcb, Spawned(c, p) PROVE Promise!Spawn
  <2>1. Outside /\ Outside'
    BY <1>1, ViewOutside, ViewAfter
  <2>2. /\ c = currentProc /\ currentProc' = currentProc /\ p_semAdd' = p_semAdd
        /\ p \notin Live /\ Live' = Live \cup {p} /\ Ready' = Ready \cup {p}
    BY <1>3 DEF Spawned
  <2>3. UNCHANGED <<vRun, vWaits, vCount>> /\ vRun = c /\ c # NULL /\ vReady' = vReady \cup {p}
    BY <1>1, <2>1, <2>2, PcbAssumption DEF Outside, Waiting
  <2>4. p \in Pcb \ Promise!Alive
    <3>1. Promise!Alive = Live
      <4>1. vWaits = [a \in Sema4 \cup (Device \cup {Clock}) |-> Waiting(a)]
        BY <2>1 DEF Outside, SemAdd
      <4>2. Blocked = UNION {vWaits[a] : a \in Sema4 \cup (Device \cup {Clock})}
        BY <4>1, WaitersQueued DEF SemAdd
      <4>3. Promise!Alive = ({vRun} \ {NULL}) \cup vReady
                \cup UNION {vWaits[a] : a \in Sema4 \cup (Device \cup {Clock})}
        BY DEF Promise!Alive, vRun, vReady, vWaits
      <4> QED BY <2>1, <4>2, <4>3 DEF Outside, Live, Running
    <3> QED BY <2>2, <3>1
  <2>5. /\ \A q \in Pcb : p \notin Children(q) /\ (p \in Children(q)' <=> q = c)
        /\ \A q \in Pcb \ {p}, r \in Pcb : q \in Children(r)' <=> q \in Children(r)
    <3>1. /\ Children(c)' = Children(c) \cup {p} /\ Children(p)' = {} /\ p \in pcbFree
          /\ \A q \in Pcb \ {p, c} : Children(q)' = Children(q)
          /\ \A q \in Pcb : p \notin Children(q)
      BY <1>3 DEF Spawned, Children
    <3>2. Children(p) = {} /\ p # c
      BY <2>2, <2>3, <3>1, ChildFacts, PcbAssumption DEF TreeInv, NoDangling, Live, Running
    <3> QED BY <3>1, <3>2
  <2>6. ParentsWith(p, c)
    BY <2>2, <2>5, ParentsGrow
  <2> QED BY <2>1, <2>3, <2>4, <2>6
       DEF Promise!Spawn, ParentsWith, Outside, vRun, vReady, vWaits, vCount, vParent
<1> QED BY <1>1, <1>2, <1>3

----------------------------------------------------------------------------
(* SYS2.                                                                   *)

\* Processes counts as everybody does.
LEMMA SameCardinality == \A S : Promise!Cardinality(S) = Cardinality(S)
BY Zenon DEF Promise!Cardinality, Cardinality

\* Everybody in T is p or has its parent in T, and nobody outside has.
Heirs(p, T) == p \in T /\ \A q \in Promise!Alive : vParent[q] \in T => q \in T

\* What Processes calls the descendants of p is the least such set.
LEMMA DescendsIs ==
    ASSUME NEW p \in Pcb, Promise!Alive \subseteq Pcb
    PROVE  /\ Promise!Descends(p) \subseteq Pcb
           /\ Heirs(p, Promise!Descends(p))
           /\ \A T \in SUBSET Pcb : Heirs(p, T) => Promise!Descends(p) \subseteq T
<1> DEFINE parent == [q \in Pcb |-> ParentOf(q)]
           step == [X \in SUBSET Pcb |-> X \cup {q \in Promise!Alive : parent[q] \in X}]
           generation[n \in Nat] ==
               IF n = 0 THEN {p}
               ELSE generation[n - 1] \cup {q \in Promise!Alive : parent[q] \in generation[n - 1]}
<1>1. /\ step \in [SUBSET Pcb -> SUBSET Pcb]
      /\ \A X \in SUBSET Pcb : X \subseteq step[X]
      /\ \A X \in SUBSET Pcb : step[X] = X \cup {q \in Promise!Alive : parent[q] \in X}
  <2> HIDE DEF parent
  <2> QED OBVIOUS
<1> HIDE DEF step
<1>2. \E g : g = [n \in Nat |-> IF n = 0 THEN {p}
                      ELSE g[n - 1] \cup {q \in Promise!Alive : parent[q] \in g[n - 1]}]
  <2> HIDE DEF parent
  <2>1. PICK g : Iteration(step, {p}, g)
    BY Iterates
  <2>2. g[0] = {p} /\ \A n \in Nat : g[n + 1] = step[g[n]]
    BY <2>1 DEF Iteration
  <2> DEFINE I == {n \in Nat : g[n] \in SUBSET Pcb}
  <2>3. 0 \in I
    BY <2>2
  <2>4. ASSUME NEW n \in Nat, n \in I PROVE n + 1 \in I
    <3>1. g[n] \in SUBSET Pcb /\ g[n + 1] = step[g[n]]
      BY <2>2, <2>4
    <3>2. step[g[n]] \in SUBSET Pcb
      BY <1>1, <3>1
    <3> QED BY <3>1, <3>2
  <2> HIDE DEF I
  <2>5. \A n \in Nat : n \in I
    BY <2>3, <2>4, Induction
  <2>6. ASSUME NEW n \in Nat \ {0}
        PROVE  g[n] = g[n - 1] \cup {q \in Promise!Alive : parent[q] \in g[n - 1]}
    <3>1. n - 1 \in Nat /\ (n - 1) + 1 = n
      OBVIOUS
    <3>2. g[n - 1] \in SUBSET Pcb
      BY <2>5, <3>1 DEF I
    <3>3. g[n] = step[g[n - 1]]
      BY <2>2, <3>1
    <3> QED BY <1>1, <3>2, <3>3
  <2>7. g = [n \in Nat |-> IF n = 0 THEN {p}
                ELSE g[n - 1] \cup {q \in Promise!Alive : parent[q] \in g[n - 1]}]
    BY <2>1, <2>2, <2>6 DEF Iteration
  <2> QED BY <2>7
<1>3. generation = [n \in Nat |-> IF n = 0 THEN {p}
                ELSE generation[n - 1] \cup {q \in Promise!Alive : parent[q] \in generation[n - 1]}]
  <2> HIDE DEF parent
  <2> QED BY <1>2, Zenon
<1>4. Promise!Descends(p) = generation[Cardinality(Pcb)]
  <2>1. Promise!Cardinality(Pcb) = Cardinality(Pcb)
    BY SameCardinality
  <2> QED BY <2>1, Zenon DEF Promise!Descends
<1> HIDE DEF generation, parent
<1>5. generation[0] = {p} /\ \A n \in Nat : generation[n + 1] = step[generation[n]]
  <2>1. /\ generation[0] = {p}
        /\ \A n \in Nat : generation[n + 1] =
               generation[n] \cup {q \in Promise!Alive : parent[q] \in generation[n]}
    BY <1>3
  <2> DEFINE I == {n \in Nat : generation[n] \in SUBSET Pcb}
  <2>2. 0 \in I
    BY <2>1
  <2>3. ASSUME NEW n \in Nat, n \in I PROVE n + 1 \in I
    BY <2>1, <2>3
  <2> HIDE DEF I
  <2>4. \A n \in Nat : n \in I
    BY <2>2, <2>3, Induction
  <2> QED BY <1>1, <2>1, <2>4 DEF I
<1>6. IsFiniteSet(Pcb)
  BY PcbAssumption
<1> DEFINE R == generation[Cardinality(Pcb)]
<1>7. /\ R \in SUBSET Pcb /\ {p} \subseteq R /\ step[R] = R
      /\ \A T : /\ {p} \subseteq T
                /\ \A X \in SUBSET Pcb : X \subseteq T => step[X] \subseteq T
                => R \subseteq T
  <2>1. LeastClosed(Pcb, step, {p}, R)
    BY <1>1, <1>5, <1>6, Closure
  <2> HIDE DEF R
  <2> QED BY <2>1 DEF LeastClosed
<1> HIDE DEF R
<1>8. Heirs(p, R)
  <2>1. \A q \in Promise!Alive : parent[q] \in R => q \in R
    BY <1>1, <1>7
  <2> QED BY <1>7, <2>1 DEF Heirs, vParent, parent
<1>9. ASSUME NEW T \in SUBSET Pcb, Heirs(p, T) PROVE R \subseteq T
  <2>1. p \in T /\ \A q \in Promise!Alive : parent[q] \in T => q \in T
    BY <1>9 DEF Heirs, vParent, parent
  <2>2. \A X \in SUBSET Pcb : X \subseteq T => step[X] \subseteq T
    BY <1>1, <2>1
  <2> QED BY <1>7, <2>1, <2>2
<1> QED BY <1>4, <1>7, <1>8, <1>9 DEF R

\* What Processes takes for alive outside of terminateProcess.
LEMMA AliveSeen ==
    ASSUME IInv, Outside
    PROVE  Promise!Alive = Live
<1>1. vWaits = [a \in Sema4 \cup (Device \cup {Clock}) |-> Waiting(a)]
  BY DEF Outside, SemAdd
<1>2. Blocked = UNION {vWaits[a] : a \in Sema4 \cup (Device \cup {Clock})}
  BY <1>1, WaitersQueued DEF SemAdd
<1>3. Promise!Alive = ({vRun} \ {NULL}) \cup vReady
          \cup UNION {vWaits[a] : a \in Sema4 \cup (Device \cup {Clock})}
  BY DEF Promise!Alive, vRun, vReady, vWaits
<1> QED BY <1>2, <1>3 DEF Outside, Live, Running

\* Those the recursion will reach, as far as they are alive, are the descendants.
LEMMA DoomedDescend ==
    ASSUME IInv, TreeInv, NoOrphans, ~InKernel, NEW p \in Live
    PROVE  Promise!Descends(p) = Progeny({p}) \cap Live
<1>1. Outside /\ Promise!Alive = Live /\ Live \subseteq Pcb
  BY ViewOutside, AliveSeen, AliveWhere
<1> DEFINE A == Promise!Descends(p)
           G == Progeny({p})
<1>2. A \subseteq Pcb /\ Heirs(p, A) /\ \A T \in SUBSET Pcb : Heirs(p, T) => A \subseteq T
  BY <1>1, DescendsIs
<1>3. /\ G \subseteq Pcb /\ p \in G /\ Closed(G)
      /\ \A T \in SUBSET Pcb : p \in T /\ Closed(T) => G \subseteq T
  <2>1. {p} \in SUBSET Pcb /\ p_child \in [Pcb -> Seq(Pcb)]
    BY <1>1, ChildFacts
  <2>2. /\ G \subseteq Pcb /\ {p} \subseteq G /\ Closed(G)
        /\ \A T \in SUBSET Pcb : {p} \subseteq T /\ Closed(T) => G \subseteq T
    BY <2>1, ProgenyIs, Zenon
  <2> HIDE DEF G
  <2> QED BY <2>2
<1> HIDE DEF A, G
<1>4. Heirs(p, G \cap Live)
  <2>1. ASSUME NEW q \in Live, vParent[q] \in G \cap Live PROVE q \in G
    <3>1. q \in Pcb /\ vParent[q] = ParentOf(q)
      BY <1>1 DEF vParent
    <3>2. ParentOf(q) # NULL
      BY <1>1, <2>1, <3>1, PcbAssumption
    <3>3. q \in Children(ParentOf(q))
      BY <3>1, <3>2, ParentIs
    <3> QED BY <1>3, <2>1, <3>1, <3>3 DEF Closed
  <2> QED BY <1>1, <1>3, <2>1 DEF Heirs
<1>5. A \subseteq G \cap Live
  BY <1>1, <1>2, <1>4
<1>6. Closed(A \cup (Pcb \ Live))
  <2>1. ASSUME NEW q \in Pcb \ Live PROVE Children(q) = {}
    BY <2>1, ChildFacts DEF NoOrphans
  <2>2. ASSUME NEW q \in A, NEW x \in Children(q), x \in Live PROVE x \in A
    <3>1. q \in Pcb /\ x \in Pcb /\ x \notin Doomed
      BY <1>1, <1>2, <2>2 DEF Outside
    <3>2. vParent[x] = q
      BY <2>2, <3>1, OneParent DEF vParent
    <3> QED BY <1>1, <1>2, <2>2, <3>2 DEF Heirs
  <2>3. \A q \in Pcb : Children(q) \subseteq Pcb
    BY ChildFacts
  <2> QED BY <1>2, <2>1, <2>2, <2>3 DEF Closed
<1>7. G \subseteq A \cup (Pcb \ Live)
  BY <1>2, <1>3, <1>6 DEF Heirs
<1> QED BY <1>5, <1>7 DEF A, G

\* The doomed are the least closed set with the pcbs of the calls.
DoomedLeast ==
    /\ Doomed \subseteq Pcb /\ ToSet(dying) \subseteq Doomed /\ Closed(Doomed)
    /\ \A T \in SUBSET Pcb : ToSet(dying) \subseteq T /\ Closed(T) => Doomed \subseteq T

LEMMA DoomedIs == IInv /\ TreeInv => DoomedLeast
<1> SUFFICES ASSUME IInv, TreeInv PROVE DoomedLeast
  OBVIOUS
<1>1. CASE dying = <<>>
  <2>1. ToSet(dying) = {} /\ Doomed = {}
    BY <1>1 DEF ToSet, Doomed
  <2> QED BY <2>1 DEF DoomedLeast, Closed
<1>2. CASE dying # <<>>
  <2> DEFINE S == ToSet(dying)
             D == Progeny(S)
  <2>1. S \in SUBSET Pcb
    BY ElementsIn DEF IInv, TypeOK
  <2> HIDE DEF S
  <2>2. /\ D \subseteq Pcb /\ S \subseteq D /\ Closed(D)
        /\ \A T \in SUBSET Pcb : S \subseteq T /\ Closed(T) => D \subseteq T
    BY <2>1, ChildFacts, ProgenyIs
  <2>3. Doomed = D
    BY <1>2 DEF Doomed, S
  <2> HIDE DEF D
  <2> QED BY <2>2, <2>3 DEF DoomedLeast, S
<1> QED BY <1>1, <1>2

LEMMA DoomedAfter == IInv' /\ TreeInv' => DoomedLeast'
BY DoomedIs, PTL

\* SYS2 begins: Processes has it done.
LEMMA TerminateIs ==
    ASSUME IInv, IInv', TreeInv, TreeInv', NoOrphans, cpu = "run", Terminate
    PROVE  Promise!Kill
<1>1. /\ currentProc \in Pcb /\ currentProc # NULL /\ currentProc \in Live
      /\ ~InKernel /\ InKernel' /\ dying' = <<currentProc>>
      /\ UNCHANGED <<p_child, currentProc, readyQ, asl, semaphore, Live>>
  BY CurrentRuns
     DEF Terminate, InKernel, Live, Ready, Blocked, Running, procVars, semVars
<1>2. Outside /\ Promise!Alive = Live
  BY <1>1, ViewOutside, AliveSeen
<1>3. PICK c \in Live : c = currentProc
  BY <1>1
<1>4. PICK G : G = Progeny({c})
  OBVIOUS
<1>5. Doomed' = G
  <2>1. ToSet(dying') = {c}
    BY <1>1, <1>3 DEF ToSet
  <2>2. {c} \in SUBSET Pcb /\ p_child \in [Pcb -> Seq(Pcb)]
    BY <1>1, <1>3, ChildFacts
  <2>3. /\ G \in SUBSET Pcb /\ {c} \subseteq G /\ Closed(G)
        /\ \A T \in SUBSET Pcb : {c} \subseteq T /\ Closed(T) => G \subseteq T
    BY <1>4, <2>2, ProgenyIs
  <2>4. \A T \in SUBSET Pcb : Closed(T)' <=> Closed(T)
    BY <1>1 DEF Closed, Children
  <2>5. /\ Doomed' \in SUBSET Pcb /\ {c} \subseteq Doomed' /\ Closed(Doomed)'
        /\ \A T \in SUBSET Pcb : {c} \subseteq T /\ Closed(T)' => Doomed' \subseteq T
    BY <2>1, DoomedAfter DEF DoomedLeast
  <2>6. PICK D \in SUBSET Pcb : D = Doomed'
    BY <2>5
  <2>7. Closed(D)'
    BY <2>5, <2>6 DEF Closed
  <2> QED BY <2>3, <2>4, <2>5, <2>6, <2>7
<1>6. PICK A : A = Promise!Descends(c) /\ A = G \cap Live
  BY <1>1, <1>4, DoomedDescend
<1>7. /\ Ready \subseteq Live /\ Live \subseteq Pcb
      /\ \A a \in SemAdd : ToSet(asl[a]) \subseteq Live /\ ToSet(asl[a]) = Waiting(a)
  BY WaitersQueued, AliveWhere DEF Live
<1>8. vRun = c /\ c # NULL /\ vRun' = NULL
  BY <1>1, <1>2, <1>3 DEF Outside, vRun
<1>9. vReady' = vReady \ A
  BY <1>1, <1>2, <1>5, <1>6, <1>7 DEF Outside, vReady, Ready
<1>10. vWaits' = [a \in Sema4 \cup (Device \cup {Clock}) |-> vWaits[a] \ A]
  <2>1. vWaits' = [a \in SemAdd |-> ToSet(asl[a]) \ G]
    BY <1>1, <1>5 DEF vWaits
  <2>2. \A a \in SemAdd : ToSet(asl[a]) \ G = vWaits[a] \ A
    BY <1>2, <1>6, <1>7 DEF Outside
  <2>3. SemAdd = Sema4 \cup (Device \cup {Clock})
    BY DEF SemAdd
  <2> QED BY <2>1, <2>2, <2>3
<1>11. vCount' = [s \in Sema4 |-> vCount[s] + Promise!Cardinality(vWaits[s] \cap A)]
  <2>1. vCount' = [s \in Sema4 |-> semaphore[s] + Cardinality(ToSet(asl[s]) \cap G)]
    BY <1>1, <1>5 DEF vCount
  <2>2. ASSUME NEW s \in Sema4
        PROVE  /\ vCount[s] = semaphore[s]
               /\ Cardinality(ToSet(asl[s]) \cap G) = Promise!Cardinality(vWaits[s] \cap A)
    <3>1. s \in SemAdd /\ vWaits[s] = ToSet(asl[s]) /\ vCount[s] = semaphore[s]
      BY <1>2, <1>7 DEF Outside, SemAdd
    <3>2. ToSet(asl[s]) \cap G = vWaits[s] \cap A
      BY <1>6, <1>7, <3>1
    <3> QED BY <3>1, <3>2, SameCardinality
  <2> QED BY <2>1, <2>2
<1>12. vParent' = [p \in Pcb |-> IF p \in A THEN NULL ELSE vParent[p]]
  <2>1. ASSUME NEW p \in Pcb PROVE ParentOf(p)' = IF p \in A THEN NULL ELSE ParentOf(p)
    <3>1. \A q \in Pcb : Children(q)' = Children(q)
      BY <1>1 DEF Children
    <3>2. (CHOOSE q \in Pcb : p \in Children(q)') = (CHOOSE q \in Pcb : p \in Children(q))
      BY <3>1
    <3>3. ParentOf(p)' = IF p \in Live \ G /\ \E q \in Pcb : p \in Children(q)
                         THEN CHOOSE q \in Pcb : p \in Children(q)
                         ELSE NULL
      BY <1>1, <1>5, <3>1, <3>2 DEF ParentOf
    <3>4. ParentOf(p) = IF p \in Live /\ \E q \in Pcb : p \in Children(q)
                        THEN CHOOSE q \in Pcb : p \in Children(q)
                        ELSE NULL
      BY <1>2 DEF ParentOf, Outside
    <3> QED BY <1>6, <3>3, <3>4
  <2> QED BY <2>1 DEF vParent
<1>13. A = Promise!Descends(vRun)
  BY <1>6, <1>8
<1>14. Promise!Descends(vRun) = Promise!Descends(IF InKernel THEN NULL ELSE currentProc)
  BY DEF vRun
<1> HIDE DEF vRun, vReady, vWaits, vCount, vParent
<1> QED BY <1>8, <1>9, <1>10, <1>11, <1>12, <1>13, <1>14
     DEF Promise!Kill, vRun, vReady, vWaits, vCount, vParent

----------------------------------------------------------------------------
(* What terminateProcess does then is not seen.                            *)

Queued == \A a \in SemAdd : ToSet(asl[a]) = Waiting(a)

LEMMA QueuedNow == IInv => Queued
BY WaitersQueued DEF Queued

LEMMA QueuedAfter == IInv' => Queued'
BY QueuedNow, PTL

\* A step of a call that changes nothing but for the doomed.
LEMMA UnseenStep ==
    ASSUME IInv, IInv', InKernel, InKernel', Ready' \ Doomed' = Ready \ Doomed,
           \A a \in SemAdd : Waiting(a)' \ Doomed' = Waiting(a) \ Doomed,
           \A s \in Sema4 : semaphore'[s] + Cardinality(Waiting(s)' \cap Doomed') =
                            semaphore[s] + Cardinality(Waiting(s) \cap Doomed),
           Live' \ Doomed' = Live \ Doomed,
           \A p \in (Live \ Doomed) \cap Pcb, q \in Pcb : p \in Children(q)' <=> p \in Children(q)
    PROVE  UNCHANGED Promise!pvars
<1>1. Queued /\ Queued'
  BY QueuedNow, QueuedAfter
<1>2. vRun' = vRun /\ vReady' = vReady
  BY DEF vRun, vReady
<1>3. vWaits' = vWaits
  BY <1>1 DEF vWaits, Queued
<1>4. vCount' = vCount
  <2>1. \A s \in Sema4 : ToSet(asl[s]) = Waiting(s) /\ ToSet(asl'[s]) = Waiting(s)'
    BY <1>1 DEF Queued, SemAdd
  <2> QED BY <2>1 DEF vCount
<1>5. \A p \in Pcb : ParentOf(p)' = ParentOf(p)
  <2>1. ASSUME NEW p \in Pcb, p \in Live \ Doomed PROVE ParentOf(p)' = ParentOf(p)
    <3>1. \A q \in Pcb : p \in Children(q)' <=> p \in Children(q)
      BY <2>1
    <3>2. (CHOOSE q \in Pcb : p \in Children(q)') = (CHOOSE q \in Pcb : p \in Children(q))
      BY <3>1
    <3> QED BY <2>1, <3>1, <3>2 DEF ParentOf
  <2>2. ASSUME NEW p \in Pcb, p \notin Live \ Doomed PROVE ParentOf(p)' = ParentOf(p)
    BY <2>2 DEF ParentOf
  <2> QED BY <2>1, <2>2
<1>6. vParent' = vParent
  BY <1>5 DEF vParent
<1> QED BY <1>2, <1>3, <1>4, <1>6 DEF Promise!pvars, vRun, vReady, vWaits, vCount, vParent

\* The child that is taken off the list was doomed before, and still is.
LEMMA TerminateChildUnseen ==
    ASSUME IInv, IInv', TreeInv, TreeInv', TerminateChild
    PROVE  UNCHANGED Promise!pvars
<1>1. InKernel /\ InKernel' /\ UNCHANGED <<currentProc, Live, Ready, semVars>>
  BY TerminateChildChanges
<1>2. PICK p \in Pcb, c \in Pcb :
          /\ p = Head(dying) /\ c \in Children(p)
          /\ Children(p)' = Children(p) \ {c}
          /\ \A q \in Pcb \ {p} : p_child'[q] = p_child[q]
          /\ ToSet(dying') = ToSet(dying) \cup {c}
  BY TerminateChildChanges
<1>3. p \in ToSet(dying)
  BY <1>1, <1>2, CallsOf
<1>4. PICK D \in SUBSET Pcb :
          /\ D = Doomed /\ ToSet(dying) \subseteq D /\ Closed(D)
          /\ \A T \in SUBSET Pcb : ToSet(dying) \subseteq T /\ Closed(T) => D \subseteq T
  BY DoomedIs DEF DoomedLeast
<1>5. PICK E \in SUBSET Pcb :
          /\ E = Doomed' /\ ToSet(dying') \subseteq E /\ Closed(E)'
          /\ \A T \in SUBSET Pcb : ToSet(dying') \subseteq T /\ Closed(T)' => E \subseteq T
  <2>1. /\ Doomed' \in SUBSET Pcb /\ ToSet(dying') \subseteq Doomed' /\ Closed(Doomed)'
        /\ \A T \in SUBSET Pcb : ToSet(dying') \subseteq T /\ Closed(T)' => Doomed' \subseteq T
    BY DoomedAfter DEF DoomedLeast
  <2>2. PICK E \in SUBSET Pcb : E = Doomed'
    BY <2>1
  <2>3. Closed(E)'
    BY <2>1, <2>2 DEF Closed
  <2> QED BY <2>1, <2>2, <2>3
<1>6. \A q \in Pcb : Children(q)' = IF q = p THEN Children(q) \ {c} ELSE Children(q)
  BY <1>2 DEF Children
<1>7. D = E
  <2>1. Closed(D)' /\ ToSet(dying') \subseteq D
    <3>1. c \in D
      BY <1>2, <1>3, <1>4 DEF Closed
    <3>2. \A q \in D : Children(q) \subseteq D
      BY <1>4 DEF Closed
    <3>3. \A q \in D : Children(q)' \subseteq D
      BY <1>6, <3>2
    <3> QED BY <1>2, <1>4, <3>1, <3>3 DEF Closed
  <2>2. Closed(E) /\ ToSet(dying) \subseteq E
    <3>1. c \in E
      BY <1>2, <1>5
    <3>2. \A q \in E : Children(q)' \subseteq E
      BY <1>5 DEF Closed
    <3>3. \A q \in E : Children(q) \subseteq E
      BY <1>6, <3>1, <3>2
    <3> QED BY <1>2, <1>5, <3>3 DEF Closed
  <2> QED BY <1>4, <1>5, <2>1, <2>2
<1>8. Doomed' = Doomed /\ c \in Doomed
  BY <1>2, <1>4, <1>5, <1>7
<1>9. \A a \in SemAdd : Waiting(a)' = Waiting(a)
  BY <1>1 DEF Waiting, semVars
<1>10. \A s \in Sema4 : semaphore'[s] = semaphore[s] /\ Waiting(s)' = Waiting(s)
  BY <1>1, <1>9 DEF semVars, SemAdd
<1>11. \A x \in (Live \ Doomed) \cap Pcb, q \in Pcb : x \in Children(q)' <=> x \in Children(q)
  BY <1>6, <1>8
<1> QED BY <1>1, <1>8, <1>9, <1>10, <1>11, UnseenStep

\* Who leaves its queue was doomed; the P it had done is undone only now.
LEMMA UnlinkUnseen ==
    ASSUME IInv, IInv', TreeInv, TreeInv', UnlinkBlocked \/ UnlinkReady
    PROVE  UNCHANGED Promise!pvars
<1>1. InKernel /\ InKernel' /\ UNCHANGED <<p_child, dying, currentProc>>
  BY UnlinkChanges
<1>2. PICK p \in Pcb :
          /\ p = Head(dying)
          /\ Live' = Live \ ({p} \ {currentProc})
          /\ Ready' = Ready \ {p}
          /\ \A a \in SemAdd : Waiting(a)' = Waiting(a) \ {p}
          /\ \A s \in Sema4 : semaphore'[s] =
                IF p \in Waiting(s) THEN semaphore[s] + 1 ELSE semaphore[s]
  BY UnlinkChanges
<1>3. Doomed' = Doomed
  BY <1>1 DEF Doomed, Progeny, Children
<1>4. p \in Doomed
  BY <1>1, <1>2, CallsOf, DoomedIs DEF DoomedLeast
<1>5. ASSUME NEW s \in Sema4
      PROVE  semaphore'[s] + Cardinality(Waiting(s)' \cap Doomed') =
             semaphore[s] + Cardinality(Waiting(s) \cap Doomed)
  <2>1. semaphore[s] \in Int /\ Waiting(s)' = Waiting(s) \ {p}
    BY <1>2 DEF IInv, TypeOK, SemAdd
  <2> DEFINE W == Waiting(s) \cap Doomed
  <2>2. Waiting(s)' \cap Doomed' = W \ {p}
    BY <1>3, <2>1
  <2>3. p \in Waiting(s) <=> p \in W
    BY <1>4
  <2>4. W \subseteq Pcb
    BY DEF Waiting
  <2> HIDE DEF W
  <2>5. Cardinality(W) \in Nat /\ (p \in W => Cardinality(W \ {p}) = Cardinality(W) - 1)
    BY <2>4, PcbSubset
  <2>6. CASE p \in W
    <3>1. semaphore'[s] = semaphore[s] + 1
      BY <1>2, <2>3, <2>6
    <3>2. Cardinality(Waiting(s)' \cap Doomed') = Cardinality(W) - 1
      BY <2>2, <2>5, <2>6
    <3>3. Cardinality(Waiting(s) \cap Doomed) = Cardinality(W)
      BY DEF W
    <3> QED BY <2>1, <2>5, <3>1, <3>2, <3>3
  <2>7. CASE p \notin W
    <3>1. W \ {p} = W
      BY <2>7
    <3> QED BY <1>2, <2>2, <2>3, <2>7, <3>1 DEF W
  <2> QED BY <2>6, <2>7
<1>6. \A q \in Pcb : Children(q)' = Children(q)
  BY <1>1 DEF Children
<1>7. Live' \ Doomed' = Live \ Doomed /\ Ready' \ Doomed' = Ready \ Doomed
  BY <1>2, <1>3, <1>4
<1>8. \A a \in SemAdd : Waiting(a)' \ Doomed' = Waiting(a) \ Doomed
  BY <1>2, <1>3, <1>4
<1> QED BY <1>1, <1>5, <1>6, <1>7, <1>8, UnseenStep

\* The pcb that is freed was in no queue any more.
LEMMA DisposeChildUnseen ==
    ASSUME IInv, IInv', TreeInv, TreeInv', DisposeChild
    PROVE  UNCHANGED Promise!pvars
<1>1. InKernel /\ InKernel' /\ UNCHANGED <<p_child, currentProc, Live, Ready, semVars>>
  BY DisposeChildChanges
<1>2. PICK p \in Pcb : /\ p_child[p] = <<>> /\ p \notin Live
                       /\ ToSet(dying) = ToSet(dying') \cup {p}
  BY DisposeChildChanges
<1>3. PICK D \in SUBSET Pcb :
          /\ D = Doomed /\ ToSet(dying) \subseteq D /\ Closed(D)
          /\ \A T \in SUBSET Pcb : ToSet(dying) \subseteq T /\ Closed(T) => D \subseteq T
  BY DoomedIs DEF DoomedLeast
<1>4. \A q \in Pcb : Children(q)' = Children(q)
  BY <1>1 DEF Children
<1>5. PICK E \in SUBSET Pcb :
          /\ E = Doomed' /\ ToSet(dying') \subseteq E /\ Closed(E)
          /\ \A T \in SUBSET Pcb : ToSet(dying') \subseteq T /\ Closed(T) => E \subseteq T
  <2>1. /\ Doomed' \in SUBSET Pcb /\ ToSet(dying') \subseteq Doomed' /\ Closed(Doomed)'
        /\ \A T \in SUBSET Pcb : ToSet(dying') \subseteq T /\ Closed(T)' => Doomed' \subseteq T
    BY DoomedAfter DEF DoomedLeast
  <2>2. PICK E \in SUBSET Pcb : E = Doomed'
    BY <2>1
  <2>3. \A T \in SUBSET Pcb : Closed(T)' <=> Closed(T)
    BY <1>4 DEF Closed
  <2>4. Closed(E)'
    BY <2>1, <2>2 DEF Closed
  <2> QED BY <2>1, <2>2, <2>3, <2>4
<1>6. D \cup {p} = E \cup {p}
  <2>1. Children(p) = {}
    BY <1>2, ChildFacts
  <2>2. E \subseteq D
    BY <1>2, <1>3, <1>5
  <2>3. Closed(E \cup {p})
    BY <1>5, <2>1 DEF Closed
  <2>4. D \subseteq E \cup {p}
    BY <1>2, <1>3, <1>5, <2>3
  <2> QED BY <2>2, <2>4
<1>7. p \notin Ready /\ \A a \in SemAdd : p \notin Waiting(a)
  BY <1>2, WaitersQueued DEF Live
<1>8. \A S : p \notin S => S \ Doomed' = S \ Doomed /\ S \cap Doomed' = S \cap Doomed
  BY <1>3, <1>5, <1>6
<1>9. \A a \in SemAdd : Waiting(a)' = Waiting(a)
  BY <1>1 DEF Waiting, semVars
<1>10. \A a \in SemAdd : Waiting(a)' \ Doomed' = Waiting(a) \ Doomed
  BY <1>7, <1>8, <1>9
<1>11. \A s \in Sema4 : semaphore'[s] + Cardinality(Waiting(s)' \cap Doomed') =
                        semaphore[s] + Cardinality(Waiting(s) \cap Doomed)
  <2>1. \A s \in Sema4 : /\ Waiting(s)' \cap Doomed' = Waiting(s) \cap Doomed
                         /\ semaphore'[s] = semaphore[s]
    BY <1>1, <1>7, <1>8, <1>9 DEF SemAdd, semVars
  <2> QED BY <2>1
<1>12. Live' \ Doomed' = Live \ Doomed /\ Ready' \ Doomed' = Ready \ Doomed
  BY <1>1, <1>2, <1>7, <1>8
<1> QED BY <1>1, <1>4, <1>10, <1>11, <1>12, UnseenStep

\* The end of the outermost call: the processor goes to somebody else.
LEMMA DisposeCurrentIs ==
    ASSUME IInv, IInv', TreeInv, TreeInv', RootInv, DisposeCurrent
    PROVE  Promise!Dispatch
<1>1. /\ InKernel /\ ~InKernel' /\ UNCHANGED <<p_child, semVars>>
      /\ ToSet(dying) = {currentProc} /\ p_child[currentProc] = <<>> /\ currentProc \in Pcb
      /\ Chooses(Ready) /\ Live' = Live \ {currentProc}
      /\ currentProc \notin Ready /\ currentProc \notin Blocked
  BY DisposeCurrentChanges
<1>2. Outside'
  BY <1>1, ViewAfter
<1>3. Doomed = {currentProc}
  <2>1. DoomedLeast
    BY DoomedIs
  <2>2. Children(currentProc) = {}
    BY <1>1, ChildFacts
  <2>3. {currentProc} \in SUBSET Pcb /\ Closed({currentProc})
    BY <1>1, <2>2 DEF Closed
  <2> QED BY <1>1, <2>1, <2>3 DEF DoomedLeast
<1>4. vRun = NULL /\ vReady = Ready
  BY <1>1, <1>3 DEF vRun, vReady
<1>5. vRun' = currentProc' /\ vReady' = Ready'
  BY <1>2 DEF Outside
<1>6. Promise!Choose(vReady \cup ({vRun} \ {NULL}))
  <2>1. vReady \cup ({vRun} \ {NULL}) = Ready
    BY <1>4
  <2>2. IF Ready = {} THEN vRun' = NULL /\ vReady' = {}
                      ELSE \E p \in Ready : vRun' = p /\ vReady' = Ready \ {p}
    BY <1>1, <1>5 DEF Chooses
  <2>3. Promise!Choose(Ready)
    BY <2>2 DEF Promise!Choose, vRun, vReady
  <2> QED BY <2>1, <2>3
<1>7. Queued /\ \A a \in SemAdd : /\ Waiting(a)' = Waiting(a)
                                  /\ currentProc \notin Waiting(a)
  BY <1>1, QueuedNow, WaitersQueued DEF Waiting, semVars
<1>8. vWaits' = vWaits
  <2>1. \A a \in SemAdd : ToSet(asl[a]) \ Doomed = Waiting(a)'
    BY <1>3, <1>7 DEF Queued
  <2> QED BY <1>2, <2>1 DEF Outside, vWaits
<1>9. vCount' = vCount
  <2>1. \A s \in Sema4 : ToSet(asl[s]) \cap Doomed = {} /\ semaphore[s] \in Int
    BY <1>3, <1>7 DEF Queued, SemAdd, IInv, TypeOK
  <2>2. \A s \in Sema4 : semaphore[s] + Cardinality(ToSet(asl[s]) \cap Doomed) = semaphore[s]
    BY <2>1, FS_EmptySet
  <2>3. semaphore' = semaphore
    BY <1>1 DEF semVars
  <2> QED BY <1>2, <2>2, <2>3 DEF Outside, vCount
<1>10. vParent' = vParent
  <2>1. \A q \in Pcb : Children(q)' = Children(q)
    BY <1>1 DEF Children
  <2>2. ASSUME NEW p \in Pcb PROVE ParentOf(p)' = ParentOf(p)
    <3>1. (CHOOSE q \in Pcb : p \in Children(q)') = (CHOOSE q \in Pcb : p \in Children(q))
      BY <2>1
    <3>2. Live' \ Doomed' = Live \ Doomed
      BY <1>1, <1>2, <1>3 DEF Outside
    <3> QED BY <2>1, <3>1, <3>2 DEF ParentOf
  <2> QED BY <2>2 DEF vParent
<1> QED BY <1>6, <1>8, <1>9, <1>10 DEF Promise!Dispatch, vRun, vReady, vWaits, vCount, vParent

----------------------------------------------------------------------------
(* Every step.                                                             *)

LEMMA NextShows ==
    ASSUME IInv, IInv', TreeInv, TreeInv', RootInv, [Next]_vars
    PROVE  [Promise!PNext]_(Promise!pvars)
<1>1. CASE UNCHANGED vars
  <2>1. UNCHANGED <<vRun, vReady, vWaits, vCount, vParent>>
    <3>1. UNCHANGED <<Doomed, Live, Ready, InKernel>> /\ p_child' = p_child
      BY <1>1 DEF vars, procVars, semVars, Doomed, Progeny, Children, Live, Ready, Blocked,
                  Running, InKernel
    <3>2. \A p \in Pcb : ParentOf(p)' = ParentOf(p)
      BY <3>1 DEF ParentOf, Children
    <3> QED BY <1>1, <3>1, <3>2
         DEF vars, semVars, vRun, vReady, vWaits, vCount, vParent
  <2> QED BY <2>1 DEF Promise!pvars, vRun, vReady, vWaits, vCount, vParent
<1>2. ASSUME NEW sup \in Support \cup {NULL}, CreateProcess(sup)
      PROVE  Promise!Spawn \/ UNCHANGED Promise!pvars
  BY <1>2, CreateProcessIs
<1>3. CASE TerminateProcess \/ PassUpOrDie
  <2>1. Promise!Kill
    BY <1>3, TerminateIs DEF TerminateProcess, PassUpOrDie, RootInv
  <2> QED BY <2>1 DEF Promise!PNext
<1>4. ASSUME NEW s \in Sema4, Passeren(s) \/ Verhogen(s) PROVE Promise!P(s) \/ Promise!V(s)
  BY <1>4, PasserenIs, VerhogenIs
<1>5. ASSUME NEW d \in Device, WaitForDevice(d) \/ DeviceInterrupt(d)
      PROVE  Promise!Await(d) \/ Promise!Happens(d) \/ UNCHANGED Promise!pvars
  BY <1>5, WaitForDeviceIs, DeviceInterruptIs
<1>6. CASE GetInfo \/ Stopped
  BY <1>6, GetInfoIs
<1>7. CASE WaitForClock \/ ItInterrupt
  <2>1. Promise!Await(Clock) \/ Promise!Happens(Clock)
    BY <1>7, WaitForClockIs, ItInterruptIs
  <2> QED BY <2>1 DEF Promise!PNext
<1>8. CASE PltInterrupt
  <2>1. Promise!Dispatch
    BY <1>8, PltInterruptIs
  <2> QED BY <2>1 DEF Promise!PNext
<1>9. CASE Terminating
  <2>1. CASE DisposeCurrent
    <3>1. Promise!Dispatch
      BY <2>1, DisposeCurrentIs
    <3> QED BY <3>1 DEF Promise!PNext
  <2>2. CASE TerminateChild \/ UnlinkBlocked \/ UnlinkReady \/ DisposeChild
    BY <2>2, TerminateChildUnseen, UnlinkUnseen, DisposeChildUnseen
  <2> QED BY <1>9, <2>1, <2>2 DEF Terminating
<1>10. CASE \E sup \in Support \cup {NULL} : CreateProcess(sup)
  BY <1>2, <1>10 DEF Promise!PNext
<1>11. CASE \E s \in Sema4 : Passeren(s) \/ Verhogen(s)
  BY <1>4, <1>11 DEF Promise!PNext
<1>12. CASE \E d \in Device : WaitForDevice(d) \/ DeviceInterrupt(d)
  BY <1>5, <1>12 DEF Promise!PNext
<1> QED BY <1>1, <1>3, <1>6, <1>7, <1>8, <1>9, <1>10, <1>11, <1>12 DEF Next

\* The nucleus implements Processes: SYS2 removes the caller and its progeny, and
\* nobody else, whatever queues they are in and however many steps that takes, and
\* undoes their Ps; a V lets somebody go when somebody waits; interrupts and the
\* scheduler move processes as Processes says they may, for any number of them.
THEOREM Refinement == Spec => ImplementsProcesses
<1>1. IInv /\ IInv' /\ TreeInv /\ TreeInv' /\ RootInv /\ [Next]_vars
          => [Promise!PNext]_(Promise!pvars)
  BY NextShows
<1>2. IInv /\ IInv' /\ TreeInv /\ RootInv /\ [Next]_vars => RootInv'
  BY NextRoot
<1>3. IInv /\ IInv' /\ TreeInv /\ [Next]_vars => TreeInv'
  BY NextTree
<1> QED BY <1>1, <1>2, <1>3, InitShows, InitTree, InitRoot, Invariance, PTL
     DEF Spec, ImplementsProcesses, Promise!PSpec

=============================================================================
