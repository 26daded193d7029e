---------------------------- MODULE QueueLemmas ----------------------------
(***************************************************************************)
(* What the operations on process queues do to the set of their elements   *)
(* (a queue is a sequence without repetitions), what functions defined by  *)
(* recursion on the naturals are, and what inserting and unlinking do to   *)
(* linked lists (Chain) and to rings with links both ways (Ring).          *)
(***************************************************************************)
EXTENDS Integers, FiniteSets, SequencesExt, SequenceTheorems, FiniteSetTheorems, TLAPS

IsQueue(q, S) == q \in Seq(S) /\ IsInjective(q)

\* The elements of a sequence are what it has between 1 and its length.
LEMMA Elements ==
    ASSUME NEW S, NEW q \in Seq(S)
    PROVE  ToSet(q) = {q[i] : i \in 1 .. Len(q)}
BY LenProperties DEF ToSet

\* The elements of a queue are as many as it is long.
LEMMA QueueLength ==
    ASSUME NEW S, NEW q, IsQueue(q, S)
    PROVE  /\ ToSet(q) \subseteq S
           /\ IsFiniteSet(ToSet(q))
           /\ Cardinality(ToSet(q)) = Len(q)
           /\ Len(q) \in Nat
           /\ q = <<>> <=> ToSet(q) = {}
<1>1. /\ q \in Seq(S) /\ Len(q) \in Nat /\ DOMAIN q = 1 .. Len(q)
      /\ \A i \in 1 .. Len(q) : q[i] \in S
      /\ \A i, j \in 1 .. Len(q) : q[i] = q[j] => i = j
  BY LenProperties, ElementOfSeq DEF IsQueue, IsInjective
<1>2. ToSet(q) = {q[i] : i \in 1 .. Len(q)}
  BY <1>1 DEF ToSet
<1>3. ToSet(q) \subseteq S
  BY <1>1, <1>2
<1>4. q \in Bijection(1 .. Len(q), ToSet(q))
  BY <1>1, <1>2 DEF Bijection, Injection, Surjection, IsInjective
<1>5. IsFiniteSet(ToSet(q)) /\ Cardinality(ToSet(q)) = Len(q)
  BY <1>1, <1>4, FS_NatBijection, FS_CountingElements DEF ExistsBijection
<1>6. q = <<>> <=> ToSet(q) = {}
  BY <1>1, <1>2
<1> QED BY <1>1, <1>3, <1>5, <1>6

\* insertProcQ of an element that is not yet there.
LEMMA QueueAppend ==
    ASSUME NEW S, NEW q, IsQueue(q, S), NEW e \in S, e \notin ToSet(q)
    PROVE  /\ IsQueue(Append(q, e), S)
           /\ ToSet(Append(q, e)) = ToSet(q) \cup {e}
           /\ Len(Append(q, e)) = Len(q) + 1
           /\ Append(q, e) # <<>>
<1> DEFINE r == Append(q, e)
<1>1. q \in Seq(S) /\ Len(q) \in Nat /\ r \in Seq(S) /\ Len(r) = Len(q) + 1
  BY AppendProperties, LenProperties DEF IsQueue
<1>2. \A i \in 1 .. Len(r) : r[i] = IF i <= Len(q) THEN q[i] ELSE e
  BY <1>1
<1> HIDE DEF r
<1>3. ToSet(r) = ToSet(q) \cup {e}
  <2>1. /\ ToSet(q) = {q[i] : i \in 1 .. Len(q)}
        /\ ToSet(r) = {r[i] : i \in 1 .. Len(q) + 1}
    BY <1>1 DEF ToSet
  <2>2. \A i \in 1 .. Len(q) : i \in 1 .. Len(q) + 1 /\ r[i] = q[i]
    BY <1>1, <1>2
  <2>3. Len(q) + 1 \in 1 .. Len(q) + 1 /\ r[Len(q) + 1] = e
    BY <1>1, <1>2
  <2>4. \A i \in 1 .. Len(q) + 1 : r[i] \in ToSet(q) \cup {e}
    BY <1>1, <1>2, <2>1
  <2> QED BY <2>1, <2>2, <2>3, <2>4
<1>4. \A i \in 1 .. Len(q) : q[i] # e
  BY <1>1 DEF ToSet
<1>5. IsInjective(r)
  BY <1>1, <1>2, <1>4 DEF IsQueue, IsInjective
<1> QED BY <1>1, <1>3, <1>5, EmptySeq DEF IsQueue, r

\* removeProcQ of a queue that is not empty.
LEMMA QueueTail ==
    ASSUME NEW S, NEW q, IsQueue(q, S), q # <<>>
    PROVE  /\ Head(q) \in S /\ Head(q) \in ToSet(q)
           /\ IsQueue(Tail(q), S)
           /\ ToSet(Tail(q)) = ToSet(q) \ {Head(q)}
           /\ Len(Tail(q)) = Len(q) - 1
<1>1. /\ q \in Seq(S) /\ Len(q) \in Nat \ {0} /\ Tail(q) \in Seq(S)
      /\ Len(Tail(q)) = Len(q) - 1 /\ Head(q) = q[1] /\ Head(q) \in S
      /\ \A i \in 1 .. Len(q) - 1 : Tail(q)[i] = q[i + 1]
  BY HeadTailProperties, LenProperties, EmptySeq DEF IsQueue
<1>2. \A i, j \in 1 .. Len(q) : q[i] = q[j] => i = j
  BY <1>1 DEF IsQueue, IsInjective
<1>3. IsInjective(Tail(q))
  BY <1>1, <1>2 DEF IsInjective
<1>4. ToSet(q) = {q[i] : i \in 1 .. Len(q)}
  BY <1>1 DEF ToSet
<1>5. ToSet(Tail(q)) = {q[i] : i \in 2 .. Len(q)}
  <2>1. ToSet(Tail(q)) = {Tail(q)[i] : i \in 1 .. Len(q) - 1}
    BY <1>1, LenProperties DEF ToSet
  <2>2. \A i \in 2 .. Len(q) : i - 1 \in 1 .. Len(q) - 1 /\ q[i] = Tail(q)[i - 1]
    BY <1>1
  <2>3. \A i \in 1 .. Len(q) - 1 : i + 1 \in 2 .. Len(q)
    BY <1>1
  <2>4. \A x \in ToSet(Tail(q)) : \E i \in 2 .. Len(q) : x = q[i]
    BY <1>1, <2>1, <2>3
  <2>5. \A i \in 2 .. Len(q) : q[i] \in ToSet(Tail(q))
    BY <2>1, <2>2
  <2> QED BY <2>4, <2>5
<1>6. ToSet(Tail(q)) = ToSet(q) \ {Head(q)}
  BY <1>1, <1>2, <1>4, <1>5
<1>7. Head(q) \in ToSet(q)
  BY <1>1, <1>4
<1> QED BY <1>1, <1>3, <1>6, <1>7 DEF IsQueue

\* Taking out the element at position i.
LEMMA QueueRemoveAt ==
    ASSUME NEW S, NEW q, IsQueue(q, S), NEW i \in 1 .. Len(q)
    PROVE  /\ IsQueue(RemoveAt(q, i), S)
           /\ ToSet(RemoveAt(q, i)) = ToSet(q) \ {q[i]}
           /\ Len(RemoveAt(q, i)) = Len(q) - 1
           /\ \A j \in 1 .. Len(q) - 1 :
                 RemoveAt(q, i)[j] = IF j < i THEN q[j] ELSE q[j + 1]
<1> DEFINE a == SubSeq(q, 1, i - 1)
           b == SubSeq(q, i + 1, Len(q))
           r == RemoveAt(q, i)
<1>1. q \in Seq(S) /\ Len(q) \in Nat /\ i \in Nat
  BY LenProperties DEF IsQueue
<1>2. a \in Seq(S) /\ Len(a) = i - 1 /\ \A j \in 1 .. i - 1 : a[j] = q[j]
  BY <1>1
<1>3. b \in Seq(S) /\ Len(b) = Len(q) - i /\ \A j \in 1 .. Len(q) - i : b[j] = q[i + j]
  BY <1>1
<1>4. r = a \o b
  BY DEF RemoveAt
<1>5. /\ r \in Seq(S) /\ Len(r) = Len(q) - 1 /\ Len(r) \in Nat
      /\ \A j \in 1 .. Len(q) - 1 : r[j] = IF j < i THEN q[j] ELSE q[j + 1]
  <2> HIDE DEF r, a, b
  <2>1. r \in Seq(S) /\ Len(r) = Len(a) + Len(b)
    BY <1>2, <1>3, <1>4, ConcatProperties
  <2>2. \A j \in 1 .. Len(r) : r[j] = IF j <= Len(a) THEN a[j] ELSE b[j - Len(a)]
    BY <1>2, <1>3, <1>4, ConcatProperties
  <2>3. ASSUME NEW j \in 1 .. Len(q) - 1 PROVE r[j] = IF j < i THEN q[j] ELSE q[j + 1]
    <3>0. j \in 1 .. Len(r) /\ (j <= Len(a) <=> j < i)
      BY <1>1, <1>2, <1>3, <2>1
    <3>1. CASE j < i
      <4>1. r[j] = a[j] /\ j \in 1 .. i - 1
        BY <1>1, <2>2, <3>0, <3>1
      <4> QED BY <1>2, <4>1, <3>1
    <3>2. CASE j >= i
      <4>1. j - Len(a) \in 1 .. Len(q) - i /\ i + (j - Len(a)) = j + 1
        BY <1>1, <1>2, <3>2
      <4>2. r[j] = b[j - Len(a)]
        BY <1>1, <2>2, <3>0, <3>2
      <4>3. b[j - Len(a)] = q[i + (j - Len(a))]
        BY <1>3, <4>1
      <4> QED BY <4>1, <4>2, <4>3, <3>2, <1>1
    <3> QED BY <1>1, <3>1, <3>2
  <2> QED BY <1>1, <1>2, <1>3, <2>1, <2>3
<1> HIDE DEF r, a, b
<1>6. \A j, k \in 1 .. Len(q) : q[j] = q[k] => j = k
  BY <1>1 DEF IsQueue, IsInjective
<1>7. IsInjective(r)
  BY <1>1, <1>5, <1>6 DEF IsInjective
<1>8. ToSet(r) = ToSet(q) \ {q[i]}
  <2>1. ToSet(q) = {q[j] : j \in 1 .. Len(q)} /\ ToSet(r) = {r[j] : j \in 1 .. Len(q) - 1}
    BY <1>1, <1>5 DEF ToSet
  <2>2. ASSUME NEW j \in 1 .. Len(q), j # i PROVE q[j] \in ToSet(r)
    <3>1. CASE j < i
      BY <1>1, <1>5, <2>1, <3>1
    <3>2. CASE j > i
      <4>1. j - 1 \in 1 .. Len(q) - 1 /\ ~(j - 1 < i) /\ (j - 1) + 1 = j
        BY <1>1, <3>2
      <4> QED BY <1>5, <2>1, <4>1
    <3> QED BY <1>1, <2>2, <3>1, <3>2
  <2>3. ASSUME NEW j \in 1 .. Len(q) - 1 PROVE r[j] \in ToSet(q) /\ r[j] # q[i]
    BY <1>1, <1>5, <1>6, <2>1
  <2> QED BY <2>1, <2>2, <2>3
<1> QED BY <1>5, <1>7, <1>8 DEF IsQueue, r

\* Taking out an element is taking out what is at its position.
LEMMA QueuePlace ==
    ASSUME NEW S, NEW q, IsQueue(q, S), NEW i \in 1 .. Len(q)
    PROVE  RemoveFirst(q, q[i]) = RemoveAt(q, i)
<1> DEFINE I == {j \in 1 .. Len(q) : q[j] = q[i]}
<1>1. I = {i}
  BY LenProperties DEF IsQueue, IsInjective
<1>2. Min(I) = i
  BY <1>1 DEF Min
<1>3. SelectInSeq(q, LAMBDA v : v = q[i]) = i
  BY <1>1, <1>2 DEF SelectInSeq
<1> QED BY <1>3 DEF RemoveFirst

\* outProcQ, wherever the element is, and when it is not there.
LEMMA QueueRemove ==
    ASSUME NEW S, NEW q, IsQueue(q, S), NEW e
    PROVE  /\ Contains(q, e) <=> e \in ToSet(q)
           /\ IsQueue(RemoveFirst(q, e), S)
           /\ ToSet(RemoveFirst(q, e)) = ToSet(q) \ {e}
           /\ e \in ToSet(q) => Len(RemoveFirst(q, e)) = Len(q) - 1
           /\ e \in ToSet(q) => \E i \in 1 .. Len(q) : \A j \in 1 .. Len(q) - 1 :
                 RemoveFirst(q, e)[j] = IF j < i THEN q[j] ELSE q[j + 1]
           /\ e \notin ToSet(q) => RemoveFirst(q, e) = q
<1>1. q \in Seq(S) /\ DOMAIN q = 1 .. Len(q)
  BY LenProperties DEF IsQueue
<1>2. e \in ToSet(q) <=> \E i \in 1 .. Len(q) : q[i] = e
  BY <1>1 DEF ToSet
<1>3. Contains(q, e) <=> e \in ToSet(q)
  BY <1>2 DEF Contains
<1>4. CASE e \notin ToSet(q)
  BY <1>2, <1>3, <1>4 DEF RemoveFirst
<1>5. CASE e \in ToSet(q)
  <2>1. PICK i \in 1 .. Len(q) : q[i] = e
    BY <1>2, <1>5
  <2>5. RemoveFirst(q, e) = RemoveAt(q, i)
    BY <2>1, QueuePlace
  <2>6. \A j \in 1 .. Len(q) - 1 : RemoveFirst(q, e)[j] = IF j < i THEN q[j] ELSE q[j + 1]
    <3>1. \A j \in 1 .. Len(q) - 1 : RemoveAt(q, i)[j] = IF j < i THEN q[j] ELSE q[j + 1]
      BY QueueRemoveAt
    <3> QED BY <2>5, <3>1
  <2>7. /\ IsQueue(RemoveFirst(q, e), S) /\ ToSet(RemoveFirst(q, e)) = ToSet(q) \ {e}
        /\ Len(RemoveFirst(q, e)) = Len(q) - 1
    BY <2>1, <2>5, QueueRemoveAt
  <2> QED BY <1>3, <1>5, <2>6, <2>7
<1> QED BY <1>4, <1>5

\* Two queues that share no element, one after the other.
LEMMA QueueConcat ==
    ASSUME NEW S, NEW q, NEW r, IsQueue(q, S), IsQueue(r, S), ToSet(q) \cap ToSet(r) = {}
    PROVE  /\ IsQueue(q \o r, S)
           /\ ToSet(q \o r) = ToSet(q) \cup ToSet(r)
<1> DEFINE c == q \o r
<1>1. q \in Seq(S) /\ r \in Seq(S) /\ Len(q) \in Nat /\ Len(r) \in Nat
  BY LenProperties DEF IsQueue
<1>2. /\ c \in Seq(S) /\ Len(c) = Len(q) + Len(r)
      /\ \A i \in 1 .. Len(c) : c[i] = IF i <= Len(q) THEN q[i] ELSE r[i - Len(q)]
  BY <1>1, ConcatProperties
<1> HIDE DEF c
<1>3. /\ ToSet(q) = {q[i] : i \in 1 .. Len(q)} /\ ToSet(r) = {r[i] : i \in 1 .. Len(r)}
      /\ ToSet(c) = {c[i] : i \in 1 .. Len(c)}
  BY <1>1, <1>2, Elements
<1>4. \A i \in 1 .. Len(c) : i <= Len(q) => i \in 1 .. Len(q) /\ c[i] = q[i]
  BY <1>1, <1>2
<1>5. \A i \in 1 .. Len(c) : i > Len(q) =>
          i - Len(q) \in 1 .. Len(r) /\ c[i] = r[i - Len(q)]
  BY <1>1, <1>2
<1>6. ToSet(c) = ToSet(q) \cup ToSet(r)
  <2>1. ASSUME NEW i \in 1 .. Len(q) PROVE q[i] \in ToSet(c)
    <3>1. i \in 1 .. Len(c) /\ i <= Len(q)
      BY <1>1, <1>2
    <3> QED BY <3>1, <1>3, <1>4
  <2>2. ASSUME NEW i \in 1 .. Len(r) PROVE r[i] \in ToSet(c)
    <3>1. i + Len(q) \in 1 .. Len(c) /\ i + Len(q) > Len(q) /\ (i + Len(q)) - Len(q) = i
      BY <1>1, <1>2
    <3> QED BY <3>1, <1>3, <1>5
  <2>3. ASSUME NEW i \in 1 .. Len(c) PROVE c[i] \in ToSet(q) \cup ToSet(r)
    <3>1. CASE i <= Len(q)
      BY <1>3, <1>4, <3>1
    <3>2. CASE i > Len(q)
      BY <1>3, <1>5, <3>2
    <3> QED BY <1>1, <1>2, <3>1, <3>2
  <2>4. ToSet(q) \subseteq ToSet(c) /\ ToSet(r) \subseteq ToSet(c)
    BY <1>3, <2>1, <2>2
  <2>5. ToSet(c) \subseteq ToSet(q) \cup ToSet(r)
    BY <1>3, <2>3
  <2> QED BY <2>4, <2>5
<1>7. IsInjective(c)
  <2>1. SUFFICES ASSUME NEW i \in 1 .. Len(c), NEW j \in 1 .. Len(c), c[i] = c[j]
                 PROVE  i = j
    BY <1>2 DEF IsInjective
  <2>2. /\ \A k, l \in 1 .. Len(q) : q[k] = q[l] => k = l
        /\ \A k, l \in 1 .. Len(r) : r[k] = r[l] => k = l
    BY <1>1 DEF IsQueue, IsInjective
  <2>3. \A k \in 1 .. Len(q), l \in 1 .. Len(r) : q[k] # r[l]
    BY <1>3
  <2>4. CASE i <= Len(q) /\ j <= Len(q)
    BY <1>4, <2>1, <2>2, <2>4
  <2>5. CASE i > Len(q) /\ j > Len(q)
    <3>1. i - Len(q) = j - Len(q)
      BY <1>5, <2>1, <2>2, <2>5
    <3> QED BY <1>1, <1>2, <3>1
  <2>6. CASE i <= Len(q) /\ j > Len(q)
    BY <1>4, <1>5, <2>1, <2>3, <2>6
  <2>7. CASE i > Len(q) /\ j <= Len(q)
    BY <1>4, <1>5, <2>1, <2>3, <2>7
  <2> QED BY <1>1, <1>2, <2>4, <2>5, <2>6, <2>7
<1> QED BY <1>2, <1>6, <1>7 DEF IsQueue, c

\* A new element goes before the one at position i.
LEMMA QueueInsertAt ==
    ASSUME NEW S, NEW q, IsQueue(q, S), NEW i \in 1 .. Len(q), NEW e \in S, e \notin ToSet(q)
    PROVE  /\ IsQueue(InsertAt(q, i, e), S)
           /\ ToSet(InsertAt(q, i, e)) = ToSet(q) \cup {e}
           /\ Len(InsertAt(q, i, e)) = Len(q) + 1
           /\ \A j \in 1 .. Len(q) + 1 : InsertAt(q, i, e)[j] =
                 IF j < i THEN q[j] ELSE IF j = i THEN e ELSE q[j - 1]
<1> DEFINE a == SubSeq(q, 1, i - 1)
           b == SubSeq(q, i, Len(q))
           c == <<e>> \o b
           r == InsertAt(q, i, e)
<1>1. /\ q \in Seq(S) /\ Len(q) \in Nat /\ i \in Nat
      /\ \A j, k \in 1 .. Len(q) : q[j] = q[k] => j = k
      /\ \A j \in 1 .. Len(q) : q[j] # e /\ q[j] \in ToSet(q)
      /\ ToSet(q) = {q[j] : j \in 1 .. Len(q)}
  BY LenProperties, Elements DEF IsQueue, IsInjective
<1>2. a \in Seq(S) /\ Len(a) = i - 1 /\ \A j \in 1 .. i - 1 : a[j] = q[j]
  BY <1>1
<1>3. /\ b \in Seq(S) /\ Len(b) = Len(q) - i + 1
      /\ \A j \in 1 .. Len(q) - i + 1 : b[j] = q[i + j - 1]
  BY <1>1
<1> HIDE DEF a, b
<1>4. /\ c \in Seq(S) /\ Len(c) = Len(q) - i + 2 /\ c[1] = e
      /\ \A j \in 2 .. Len(q) - i + 2 : c[j] = b[j - 1]
  <2>1. <<e>> \in Seq(S) /\ Len(<<e>>) = 1 /\ <<e>>[1] = e
    OBVIOUS
  <2>2. c \in Seq(S) /\ Len(c) = Len(<<e>>) + Len(b)
    BY <1>3, <2>1, ConcatProperties
  <2>3. \A j \in 1 .. Len(c) : c[j] = IF j <= Len(<<e>>) THEN <<e>>[j] ELSE b[j - Len(<<e>>)]
    BY <1>3, <2>1, ConcatProperties
  <2>4. \A j \in 1 .. Len(c) : c[j] = IF j <= 1 THEN e ELSE b[j - 1]
    BY <2>1, <2>3
  <2> HIDE DEF c
  <2>5. Len(c) = Len(q) - i + 2 /\ 1 \in 1 .. Len(c)
    BY <1>1, <1>3, <2>1, <2>2
  <2>6. c[1] = e
    BY <2>4, <2>5
  <2>7. ASSUME NEW j \in 2 .. Len(q) - i + 2 PROVE c[j] = b[j - 1]
    <3>1. j \in 1 .. Len(c) /\ ~(j <= 1)
      BY <1>1, <2>5
    <3> QED BY <2>4, <3>1
  <2> QED BY <2>2, <2>5, <2>6, <2>7
<1> HIDE DEF c
<1>5. /\ r \in Seq(S) /\ Len(r) = Len(q) + 1
      /\ \A j \in 1 .. Len(r) : r[j] = IF j <= i - 1 THEN a[j] ELSE c[j - (i - 1)]
  <2>1. r = a \o c
    BY DEF InsertAt, a, b, c
  <2> HIDE DEF r
  <2>2. a \in Seq(S) /\ c \in Seq(S)
    BY <1>2, <1>4
  <2>3. /\ Len(r) = Len(a) + Len(c) /\ r \in Seq(S)
        /\ \A j \in 1 .. Len(a) + Len(c) :
              r[j] = IF j <= Len(a) THEN a[j] ELSE c[j - Len(a)]
    BY <2>1, <2>2, ConcatProperties
  <2> QED BY <1>1, <1>2, <1>4, <2>3
<1> HIDE DEF r
<1>6. ASSUME NEW j \in 1 .. Len(q) + 1
      PROVE  r[j] = IF j < i THEN q[j] ELSE IF j = i THEN e ELSE q[j - 1]
  <2>1. CASE j < i
    BY <1>1, <1>2, <1>5, <2>1
  <2>2. CASE j = i
    BY <1>1, <1>4, <1>5, <2>2
  <2>3. CASE j > i
    <3>1. /\ ~(j <= i - 1) /\ j - (i - 1) \in 2 .. Len(q) - i + 2
          /\ (j - (i - 1)) - 1 \in 1 .. Len(q) - i + 1
          /\ i + ((j - (i - 1)) - 1) - 1 = j - 1
      BY <1>1, <2>3
    <3>2. r[j] = c[j - (i - 1)]
      BY <1>5, <3>1
    <3>3. c[j - (i - 1)] = b[(j - (i - 1)) - 1]
      BY <1>4, <3>1
    <3>4. b[(j - (i - 1)) - 1] = q[i + ((j - (i - 1)) - 1) - 1]
      BY <1>3, <3>1
    <3>5. r[j] = q[j - 1]
      BY <3>1, <3>2, <3>3, <3>4
    <3> QED BY <1>1, <2>3, <3>5
  <2> QED BY <1>1, <2>1, <2>2, <2>3
<1>7. IsInjective(r)
  <2> SUFFICES ASSUME NEW j \in 1 .. Len(q) + 1, NEW k \in 1 .. Len(q) + 1, r[j] = r[k], j < k
               PROVE  FALSE
    <3>1. DOMAIN r = 1 .. Len(q) + 1 /\ \A j, k \in 1 .. Len(q) + 1 : j < k \/ k < j \/ j = k
      BY <1>1, <1>5
    <3> QED BY <3>1 DEF IsInjective
  <2>1. CASE k < i
    BY <1>1, <1>6, <2>1
  <2>2. CASE k = i
    BY <1>1, <1>6, <2>2
  <2>3. CASE k > i
    <3>1. k - 1 \in 1 .. Len(q) /\ r[k] = q[k - 1]
      BY <1>1, <1>6, <2>3
    <3>2. CASE j < i
      BY <1>1, <1>6, <2>3, <3>1, <3>2
    <3>3. CASE j = i
      BY <1>1, <1>6, <3>1, <3>3
    <3>4. CASE j > i
      <4>1. j - 1 \in 1 .. Len(q) /\ r[j] = q[j - 1] /\ j - 1 # k - 1
        BY <1>1, <1>6, <3>4
      <4> QED BY <1>1, <3>1, <4>1
    <3> QED BY <1>1, <3>2, <3>3, <3>4
  <2> QED BY <1>1, <2>1, <2>2, <2>3
<1>8. ToSet(r) = ToSet(q) \cup {e}
  <2>1. ToSet(r) = {r[j] : j \in 1 .. Len(q) + 1}
    BY <1>5, Elements
  <2>2. i \in 1 .. Len(q) + 1 /\ r[i] = e
    BY <1>1, <1>6
  <2>3. ASSUME NEW j \in 1 .. Len(q) PROVE q[j] \in ToSet(r)
    <3>1. CASE j < i
      BY <1>1, <1>6, <2>1, <3>1
    <3>2. CASE ~(j < i)
      <4>1. j + 1 \in 1 .. Len(q) + 1 /\ ~(j + 1 < i) /\ j + 1 # i /\ (j + 1) - 1 = j
        BY <1>1, <3>2
      <4> QED BY <1>6, <2>1, <4>1
    <3> QED BY <3>1, <3>2
  <2>4. ASSUME NEW j \in 1 .. Len(q) + 1 PROVE r[j] \in ToSet(q) \cup {e}
    <3>1. j < i => j \in 1 .. Len(q)
      BY <1>1
    <3>2. ~(j < i) /\ j # i => j - 1 \in 1 .. Len(q)
      BY <1>1
    <3> QED BY <1>1, <1>6, <3>1, <3>2
  <2>5. ToSet(r) \subseteq ToSet(q) \cup {e}
    BY <2>1, <2>4
  <2>6. ToSet(q) \subseteq ToSet(r) /\ e \in ToSet(r)
    BY <1>1, <2>1, <2>2, <2>3
  <2> QED BY <2>5, <2>6
<1> QED BY <1>5, <1>6, <1>7, <1>8 DEF IsQueue, r

\* A queue with an element put before it.
LEMMA QueuePrepend ==
    ASSUME NEW S, NEW q, IsQueue(q, S), NEW e \in S, e \notin ToSet(q)
    PROVE  IsQueue(<<e>> \o q, S) /\ ToSet(<<e>> \o q) = ToSet(q) \cup {e}
<1>1. IsQueue(<<e>>, S) /\ ToSet(<<e>>) = {e}
  BY DEF IsQueue, IsInjective, ToSet
<1> QED BY <1>1, QueueConcat

----------------------------------------------------------------------------
(* Induction and recursion.                                                *)

\* A set of naturals that is not empty has a least element.
LEMMA LeastNatural ==
    ASSUME NEW T \in SUBSET Nat, T # {}
    PROVE  \E m \in T : \A k \in T : m <= k
<1> DEFINE R == OpToRel(<, Nat)
<1>1. IsWellFoundedOn(R, Nat)
  BY NatLessThanWellFounded
<1>2. \A x, y \in Nat : x < y => <<x, y>> \in R
  BY DEF OpToRel
<1> HIDE DEF R
<1>3. PICK m \in T : \A y \in T : ~(<<y, m>> \in R)
  BY <1>1, WFMin
<1>4. ASSUME NEW k \in T PROVE m <= k
  <2>1. k \in Nat /\ m \in Nat
    OBVIOUS
  <2>2. ~(k < m)
    BY <1>2, <1>3, <2>1
  <2> QED BY <2>1, <2>2
<1> QED BY <1>4

\* Induction, for sets of naturals.
LEMMA Induction ==
    ASSUME NEW T, 0 \in T, \A n \in Nat : n \in T => n + 1 \in T
    PROVE  \A n \in Nat : n \in T
<1> DEFINE U == Nat \ T
<1> SUFFICES ASSUME U # {} PROVE FALSE
  OBVIOUS
<1>1. PICK m \in U : \A k \in U : m <= k
  BY LeastNatural
<1>2. m \in Nat /\ m \notin T /\ m # 0
  OBVIOUS
<1>3. m - 1 \in Nat /\ ~(m <= m - 1) /\ (m - 1) + 1 = m
  BY <1>2
<1>4. m - 1 \in T
  BY <1>1, <1>3
<1> QED BY <1>2, <1>3, <1>4

\* f holds the first n steps from p along next.
Steps(next, p, n, f) ==
    /\ DOMAIN f = 0 .. n
    /\ f[0] = p
    /\ \A k \in 0 .. n - 1 : f[k + 1] = next[f[k]]

\* Two such runs are the same as far as both go.
LEMMA StepsAgree ==
    ASSUME NEW next, NEW p, NEW n \in Nat, NEW f, Steps(next, p, n, f),
           NEW m \in Nat, NEW g, Steps(next, p, m, g)
    PROVE  \A k \in Nat : k <= n /\ k <= m => f[k] = g[k]
<1> DEFINE T == {k \in Nat : k <= n /\ k <= m => f[k] = g[k]}
<1>1. 0 \in T
  BY DEF Steps
<1>2. ASSUME NEW k \in Nat, k \in T PROVE k + 1 \in T
  <2> SUFFICES ASSUME k + 1 <= n, k + 1 <= m PROVE f[k + 1] = g[k + 1]
    OBVIOUS
  <2>1. f[k] = g[k] /\ k \in 0 .. n - 1 /\ k \in 0 .. m - 1
    BY <1>2
  <2> QED BY <2>1 DEF Steps
<1>3. \A k \in Nat : k \in T
  <2> HIDE DEF T
  <2> QED BY <1>1, <1>2, Induction
<1> QED BY <1>3

\* There is one of every length.
LEMMA StepsExist ==
    ASSUME NEW next, NEW p
    PROVE  \A n \in Nat : \E f : Steps(next, p, n, f)
<1> DEFINE T == {n \in Nat : \E f : Steps(next, p, n, f)}
<1>1. 0 \in T
  <2>1. Steps(next, p, 0, [k \in 0 .. 0 |-> p])
    BY DEF Steps
  <2> QED BY <2>1
<1>2. ASSUME NEW n \in Nat, n \in T PROVE n + 1 \in T
  <2>1. PICK f : Steps(next, p, n, f)
    BY <1>2
  <2> DEFINE g == [k \in 0 .. n + 1 |-> IF k = n + 1 THEN next[f[n]] ELSE f[k]]
  <2>2. DOMAIN g = 0 .. n + 1 /\ g[0] = p
    BY <2>1 DEF Steps
  <2>3. ASSUME NEW k \in 0 .. (n + 1) - 1 PROVE g[k + 1] = next[g[k]]
    <3>1. CASE k = n
      BY <3>1
    <3>2. CASE k # n
      BY <2>1, <3>2 DEF Steps
    <3> QED BY <3>1, <3>2
  <2>4. Steps(next, p, n + 1, g)
    BY <2>2, <2>3 DEF Steps
  <2> QED BY <2>4
<1> QED
  <2> HIDE DEF T
  <2>1. \A n \in Nat : n \in T
    BY <1>1, <1>2, Induction
  <2> QED BY <2>1 DEF T

\* at is the unending one: what a definition by recursion along next defines.
Iteration(next, p, at) ==
    /\ at = [n \in Nat |-> at[n]]
    /\ at[0] = p
    /\ \A n \in Nat : at[n + 1] = next[at[n]]

LEMMA Iterates ==
    ASSUME NEW next, NEW p
    PROVE  \E at : Iteration(next, p, at)
<1> DEFINE last(n) == CHOOSE f : Steps(next, p, n, f)
           at == [n \in Nat |-> last(n)[n]]
<1>1. \A n \in Nat : Steps(next, p, n, last(n))
  BY StepsExist, Zenon
<1> HIDE DEF last
<1>2. at[0] = p
  BY <1>1 DEF Steps
<1>3. ASSUME NEW n \in Nat PROVE at[n + 1] = next[at[n]]
  <2>1. n <= n + 1 /\ n <= n /\ n \in 0 .. (n + 1) - 1 /\ n + 1 \in Nat
    OBVIOUS
  <2>2. last(n + 1)[n] = last(n)[n]
    BY <1>1, <2>1, StepsAgree
  <2>3. last(n + 1)[n + 1] = next[last(n + 1)[n]]
    BY <1>1, <2>1 DEF Steps
  <2> QED BY <2>1, <2>2, <2>3
<1>4. at = [n \in Nat |-> at[n]]
  OBVIOUS
<1> HIDE DEF at
<1>5. Iteration(next, p, at)
  BY <1>2, <1>3, <1>4 DEF Iteration
<1> QED BY <1>5

\* at is what it is defined to be, by recursion along next.
Recurs(next, p, at) == at = [n \in Nat |-> IF n = 0 THEN p ELSE next[at[n - 1]]]

\* There is such a function.
LEMMA Recursion ==
    ASSUME NEW next, NEW p
    PROVE  \E at : Recurs(next, p, at)
<1>1. PICK g : Iteration(next, p, g)
  BY Iterates
<1>2. ASSUME NEW n \in Nat \ {0} PROVE g[n] = next[g[n - 1]]
  <2>1. n - 1 \in Nat /\ (n - 1) + 1 = n
    OBVIOUS
  <2> QED BY <1>1, <2>1 DEF Iteration
<1> DEFINE h == [n \in Nat |-> IF n = 0 THEN p ELSE next[g[n - 1]]]
<1>3. ASSUME NEW n \in Nat PROVE g[n] = h[n]
  BY <1>1, <1>2 DEF Iteration
<1>4. g = [n \in Nat |-> g[n]] /\ h = [n \in Nat |-> h[n]]
  BY <1>1 DEF Iteration
<1> HIDE DEF h
<1>5. g = h
  BY <1>3, <1>4
<1> QED BY <1>5 DEF h, Recurs

----------------------------------------------------------------------------
(* Linked lists.                                                           *)

\* Following next from first one meets the elements of q, which are in S, and then
\* something that is not.
Chain(next, first, S, q) ==
    /\ IsQueue(q, S)
    /\ IF q = <<>> THEN first \notin S
       ELSE /\ first = q[1] /\ next[q[Len(q)]] \notin S
            /\ \A i \in 1 .. Len(q) - 1 : next[q[i]] = q[i + 1]

\* The steps at which one is outside of S.
Outs(at, S) == {n \in 0 .. Cardinality(S) : at[n] \notin S}

\* at follows next from first.
Follows(at, next, first) == at[0] = first /\ \A n \in Nat : at[n + 1] = next[at[n]]

\* at meets q before it leads out of S.
Meets(at, S, q) ==
    /\ Outs(at, S) # {} /\ Min(Outs(at, S)) = Len(q)
    /\ \A i \in 1 .. Len(q) : at[i - 1] = q[i]

\* The first time outside comes after the last element of the list.
LEMMA ChainWalk ==
    ASSUME NEW S, IsFiniteSet(S), NEW next, NEW first, NEW q, Chain(next, first, S, q),
           NEW at, Follows(at, next, first)
    PROVE  Meets(at, S, q)
<1>0. at[0] = first /\ \A n \in Nat : at[n + 1] = next[at[n]]
  BY DEF Follows
<1> DEFINE N == Len(q)
<1>1. N \in Nat /\ q \in Seq(S) /\ (q = <<>> <=> N = 0) /\ N <= Cardinality(S)
  <2>1. IsQueue(q, S)
    BY DEF Chain
  <2>2. /\ ToSet(q) \subseteq S /\ Cardinality(ToSet(q)) = N /\ N \in Nat
        /\ (q = <<>> <=> N = 0)
    BY <2>1, QueueLength, EmptySeq, LenProperties DEF IsQueue
  <2>3. Cardinality(ToSet(q)) <= Cardinality(S)
    BY <2>2, FS_Subset
  <2> QED BY <2>1, <2>2, <2>3 DEF IsQueue
<1>2. Cardinality(S) \in Nat
  BY FS_CardinalityType
<1>3. \A i \in 1 .. N : q[i] \in S
  BY <1>1, ElementOfSeq
<1> HIDE DEF N
<1>4. \A n \in Nat : n < N => at[n] = q[n + 1]
  <2> DEFINE I == {n \in Nat : n < N => at[n] = q[n + 1]}
  <2>1. 0 \in I
    <3>1. 0 < N => q # <<>>
      BY <1>1
    <3>2. 0 < N => first = q[1]
      BY <3>1 DEF Chain
    <3>3. at[0] = first
      BY DEF Follows
    <3> QED BY <3>2, <3>3
  <2>2. ASSUME NEW n \in Nat, n \in I PROVE n + 1 \in I
    <3> SUFFICES ASSUME n + 1 < N PROVE at[n + 1] = q[(n + 1) + 1]
      OBVIOUS
    <3>1. n \in 0 .. Len(q) - 1 /\ n + 1 \in 1 .. Len(q) - 1
      BY <1>1 DEF N
    <3>2. at[n + 1] = next[at[n]] /\ at[n] = q[n + 1]
      <4>1. at[n] = q[n + 1]
        BY <1>1, <2>2, <3>1 DEF N
      <4> QED BY <1>0, <4>1
    <3>3. q # <<>>
      BY <1>1
    <3>4. next[q[n + 1]] = q[(n + 1) + 1]
      BY <3>1, <3>3 DEF Chain
    <3> QED BY <3>2, <3>4
  <2> HIDE DEF I
  <2>3. \A n \in Nat : n \in I
    BY <2>1, <2>2, Induction
  <2> QED BY <2>3 DEF I
<1>5. at[N] \notin S
  <2>1. CASE N = 0
    BY <1>0, <1>1, <2>1 DEF Chain
  <2>2. CASE N # 0
    <3>1. N - 1 \in 0 .. Len(q) - 1 /\ (N - 1) + 1 = N /\ N - 1 < N /\ N - 1 \in Nat
      BY <1>1, <2>2 DEF N
    <3>2. at[N] = next[at[N - 1]] /\ at[N - 1] = q[N]
      BY <1>0, <1>4, <3>1
    <3>3. next[q[N]] \notin S
      BY <1>1, <2>2 DEF Chain, N
    <3> QED BY <3>2, <3>3
  <2> QED BY <2>1, <2>2
<1>6. \A i \in 1 .. N : at[i - 1] = q[i]
  BY <1>1, <1>4
<1>7. \A n \in 0 .. N - 1 : at[n] \in S
  BY <1>1, <1>3, <1>4
<1> DEFINE E == Outs(at, S)
<1>8. N \in E /\ E \subseteq Nat
  BY <1>1, <1>2, <1>5 DEF Outs
<1>9. \A n \in E : N <= n
  BY <1>1, <1>7 DEF Outs
<1> HIDE DEF E
<1>10. Min(E) = N
  <2>1. \A x \in E : (\A y \in E : x <= y) => x = N
    BY <1>1, <1>8, <1>9
  <2>2. \E x \in E : \A y \in E : x <= y
    BY <1>8, <1>9
  <2> HIDE DEF N
  <2>3. Min(E) \in E /\ \A y \in E : Min(E) <= y
    BY <2>2, Zenon DEF Min
  <2> QED BY <2>1, <2>3
<1> QED BY <1>6, <1>8, <1>10 DEF E, N, Meets

\* The list only depends on the links of its elements.
LEMMA ChainFrame ==
    ASSUME NEW S, NEW next, NEW first, NEW q, Chain(next, first, S, q),
           NEW other, \A p \in ToSet(q) : other[p] = next[p]
    PROVE  Chain(other, first, S, q)
<1>1. q \in Seq(S) /\ Len(q) \in Nat /\ (q = <<>> <=> Len(q) = 0)
  BY LenProperties, EmptySeq DEF Chain, IsQueue
<1>2. \A i \in 1 .. Len(q) : other[q[i]] = next[q[i]]
  BY <1>1, Elements
<1> QED BY <1>1, <1>2 DEF Chain

\* A list that is not empty starts with its head.
LEMMA ChainHead ==
    ASSUME NEW S, NEW next, NEW first, NEW q, Chain(next, first, S, q)
    PROVE  /\ first \in S <=> q # <<>>
           /\ q # <<>> => first = Head(q) /\ first = q[1] /\ first \in ToSet(q)
<1>1. q \in Seq(S) /\ Len(q) \in Nat /\ (q = <<>> <=> Len(q) = 0)
  BY LenProperties, EmptySeq DEF Chain, IsQueue
<1>2. q # <<>> => q[1] \in S /\ q[1] = Head(q) /\ q[1] \in ToSet(q)
  BY <1>1, ElementOfSeq, Elements
<1> QED BY <1>1, <1>2 DEF Chain

\* A new first element that leads to the old one.
LEMMA ChainPush ==
    ASSUME NEW S, NEW next, NEW first, NEW q, Chain(next, first, S, q),
           NEW e \in S, e \notin ToSet(q),
           NEW other, other[e] = first, \A p \in ToSet(q) : other[p] = next[p]
    PROVE  /\ Chain(other, e, S, <<e>> \o q)
           /\ ToSet(<<e>> \o q) = ToSet(q) \cup {e}
<1> DEFINE r == <<e>> \o q
<1>1. /\ q \in Seq(S) /\ Len(q) \in Nat /\ (q = <<>> <=> Len(q) = 0) /\ IsQueue(q, S)
      /\ \A i \in 1 .. Len(q) : other[q[i]] = next[q[i]]
  BY LenProperties, EmptySeq, Elements DEF Chain, IsQueue
<1>3. IsQueue(r, S) /\ ToSet(r) = {e} \cup ToSet(q)
  BY <1>1, QueuePrepend
<1>4. Len(r) = Len(q) + 1 /\ r[1] = e /\ \A i \in 2 .. Len(q) + 1 : r[i] = q[i - 1]
  BY <1>1
<1> HIDE DEF r
<1>5. r # <<>>
  BY <1>1, <1>4
<1>6. other[r[Len(r)]] \notin S
  <2>1. CASE q = <<>>
    BY <1>1, <1>4, <2>1 DEF Chain
  <2>2. CASE q # <<>>
    <3>1. Len(r) \in 2 .. Len(q) + 1 /\ Len(r) - 1 = Len(q) /\ Len(q) \in 1 .. Len(q)
      BY <1>1, <1>4, <2>2
    <3>2. r[Len(r)] = q[Len(q)]
      BY <1>4, <3>1
    <3> QED BY <1>1, <2>2, <3>1, <3>2 DEF Chain
  <2> QED BY <2>1, <2>2
<1>7. ASSUME NEW i \in 1 .. Len(r) - 1 PROVE other[r[i]] = r[i + 1]
  <2>1. CASE i = 1
    <3>1. q # <<>> /\ 2 \in 2 .. Len(q) + 1 /\ r[2] = q[1]
      BY <1>1, <1>4, <2>1
    <3> QED BY <1>4, <2>1, <3>1 DEF Chain
  <2>2. CASE i # 1
    <3>1. /\ i \in 2 .. Len(q) + 1 /\ i + 1 \in 2 .. Len(q) + 1
          /\ i - 1 \in 1 .. Len(q) - 1 /\ i - 1 \in 1 .. Len(q)
          /\ (i - 1) + 1 = i /\ (i + 1) - 1 = i
      BY <1>1, <1>4, <2>2
    <3>2. r[i] = q[i - 1] /\ r[i + 1] = q[i] /\ other[q[i - 1]] = next[q[i - 1]]
      BY <1>1, <1>4, <3>1
    <3>3. next[q[i - 1]] = q[(i - 1) + 1]
      <4>1. q # <<>>
        BY <1>1, <3>1
      <4> QED BY <3>1, <4>1 DEF Chain
    <3> QED BY <3>1, <3>2, <3>3
  <2> QED BY <2>1, <2>2
<1>8. Chain(other, e, S, r)
  BY <1>3, <1>4, <1>5, <1>6, <1>7 DEF Chain
<1> QED BY <1>3, <1>8 DEF r

\* Without its first element, a list starts where that one led to.
LEMMA ChainTail ==
    ASSUME NEW S, NEW next, NEW first \in S, NEW q, Chain(next, first, S, q)
    PROVE  /\ Chain(next, next[first], S, Tail(q))
           /\ RemoveFirst(q, first) = Tail(q)
<1>1. q # <<>> /\ first = Head(q) /\ first = q[1] /\ IsQueue(q, S)
  BY ChainHead DEF Chain
<1>2. /\ q \in Seq(S) /\ Len(q) \in Nat \ {0} /\ Tail(q) \in Seq(S)
      /\ Len(Tail(q)) = Len(q) - 1
      /\ \A i \in 1 .. Len(q) - 1 : Tail(q)[i] = q[i + 1]
  BY <1>1, HeadTailProperties, LenProperties, EmptySeq DEF IsQueue
<1>3. IsQueue(Tail(q), S) /\ (Tail(q) = <<>> <=> Len(Tail(q)) = 0)
  BY <1>1, <1>2, QueueTail, EmptySeq
<1> DEFINE t == Tail(q)
<1> HIDE DEF t
<1>4. RemoveFirst(q, first) = Tail(q)
  <2>1. 1 \in 1 .. Len(q) /\ q[1] = first
    BY <1>1, <1>2
  <2>2. RemoveFirst(q, first) = RemoveAt(q, 1)
    BY <1>1, <2>1, QueuePlace
  <2>3. /\ IsQueue(RemoveAt(q, 1), S) /\ Len(RemoveAt(q, 1)) = Len(q) - 1
        /\ \A j \in 1 .. Len(q) - 1 : RemoveAt(q, 1)[j] = IF j < 1 THEN q[j] ELSE q[j + 1]
    BY <1>1, <2>1, QueueRemoveAt
  <2>4. \A j \in 1 .. Len(q) - 1 : RemoveAt(q, 1)[j] = Tail(q)[j]
    BY <1>2, <2>3
  <2>5. RemoveAt(q, 1) \in Seq(S)
    BY <2>3 DEF IsQueue
  <2> QED BY <1>2, <2>2, <2>3, <2>4, <2>5, SeqEqual
<1>5. CASE Len(q) = 1
  <2>1. t = <<>>
    BY <1>2, <1>3, <1>5 DEF t
  <2>2. next[first] \notin S
    BY <1>1, <1>5 DEF Chain
  <2> QED BY <1>3, <2>1, <2>2, <1>4 DEF Chain, t
<1>6. CASE Len(q) # 1
  <2>1. t # <<>> /\ Len(t) = Len(q) - 1 /\ 1 \in 1 .. Len(q) - 1
    BY <1>2, <1>3, <1>6 DEF t
  <2>2. next[first] = t[1]
    BY <1>1, <1>2, <2>1 DEF Chain, t
  <2>3. next[t[Len(t)]] \notin S
    <3>1. Len(t) \in 1 .. Len(q) - 1 /\ Len(t) + 1 = Len(q)
      BY <1>2, <2>1
    <3>2. t[Len(t)] = q[Len(q)]
      BY <1>2, <3>1 DEF t
    <3> QED BY <1>1, <3>2 DEF Chain
  <2>4. ASSUME NEW i \in 1 .. Len(t) - 1 PROVE next[t[i]] = t[i + 1]
    <3>1. i \in 1 .. Len(q) - 1 /\ i + 1 \in 1 .. Len(q) - 1
      BY <1>2, <2>1
    <3>2. t[i] = q[i + 1] /\ t[i + 1] = q[(i + 1) + 1]
      BY <1>2, <3>1 DEF t
    <3> QED BY <1>1, <3>1, <3>2 DEF Chain
  <2>5. Chain(next, next[first], S, t)
    BY <1>3, <2>1, <2>2, <2>3, <2>4 DEF Chain, t
  <2> QED BY <1>4, <2>5 DEF t
<1> QED BY <1>5, <1>6

\* An element that is not the first goes when the one before it leads past it.
LEMMA ChainSkip ==
    ASSUME NEW S, NEW next, NEW first, NEW q, Chain(next, first, S, q),
           NEW i \in 2 .. Len(q), NEW other, other[q[i - 1]] = next[q[i]],
           \A p \in ToSet(q) \ {q[i]} : p # q[i - 1] => other[p] = next[p]
    PROVE  Chain(other, first, S, RemoveFirst(q, q[i]))
<1> DEFINE r == RemoveFirst(q, q[i])
<1>1. /\ q \in Seq(S) /\ Len(q) \in Nat /\ IsQueue(q, S)
      /\ \A j, k \in 1 .. Len(q) : q[j] = q[k] => j = k
      /\ i \in 1 .. Len(q) /\ i - 1 \in 1 .. Len(q) /\ q # <<>>
  BY LenProperties, EmptySeq DEF Chain, IsQueue, IsInjective
<1>2. /\ IsQueue(r, S) /\ Len(r) = Len(q) - 1
      /\ \A j \in 1 .. Len(q) - 1 : r[j] = IF j < i THEN q[j] ELSE q[j + 1]
  <2>1. r = RemoveAt(q, i)
    BY <1>1, QueuePlace
  <2> QED BY <1>1, <2>1, QueueRemoveAt
<1> HIDE DEF r
<1>3. r # <<>> /\ r[1] = first
  <2>1. 1 \in 1 .. Len(q) - 1 /\ 1 < i
    BY <1>1
  <2>2. Len(r) # 0
    BY <1>1, <1>2
  <2> QED BY <1>1, <1>2, <2>1, <2>2, EmptySeq DEF Chain
<1>4. \A j \in 1 .. Len(q) : j # i /\ j # i - 1 => other[q[j]] = next[q[j]]
  <2>1. \A j \in 1 .. Len(q) : q[j] \in ToSet(q)
    BY <1>1, Elements
  <2> QED BY <1>1, <2>1
<1>5. \A j \in 1 .. Len(q) - 1 : next[q[j]] = q[j + 1]
  BY <1>1 DEF Chain
<1>6. next[q[Len(q)]] \notin S
  BY <1>1 DEF Chain
<1>7. other[r[Len(r)]] \notin S
  <2>0. Len(r) \in 1 .. Len(q) - 1 /\ Len(r) + 1 = Len(q)
    BY <1>1, <1>2
  <2>1. CASE i = Len(q)
    <3>1. r[Len(r)] = q[i - 1]
      BY <1>1, <1>2, <2>0, <2>1
    <3> QED BY <1>6, <2>1, <3>1
  <2>2. CASE i # Len(q)
    <3>1. r[Len(r)] = q[Len(q)] /\ Len(q) \in 1 .. Len(q) /\ Len(q) # i - 1 /\ Len(q) # i
      BY <1>1, <1>2, <2>0, <2>2
    <3> QED BY <1>4, <1>6, <3>1
  <2> QED BY <2>1, <2>2
<1>8. ASSUME NEW j \in 1 .. Len(r) - 1 PROVE other[r[j]] = r[j + 1]
  <2>0. /\ j \in 1 .. Len(q) - 1 /\ j + 1 \in 1 .. Len(q) - 1
        /\ j \in 1 .. Len(q) /\ j + 1 \in 1 .. Len(q) /\ i \in Int /\ Len(q) \in Nat
    BY <1>1, <1>2
  <2>1. CASE j + 1 < i
    <3>1. j < i /\ j # i /\ j # i - 1
      BY <2>0, <2>1
    <3>2. r[j] = q[j] /\ r[j + 1] = q[j + 1]
      BY <1>2, <2>0, <2>1, <3>1
    <3>3. other[q[j]] = next[q[j]] /\ next[q[j]] = q[j + 1]
      BY <1>4, <1>5, <2>0, <3>1
    <3> QED BY <3>2, <3>3
  <2>2. CASE j + 1 = i
    <3>1. j < i /\ j = i - 1 /\ ~(j + 1 < i) /\ i \in 1 .. Len(q) - 1
      BY <2>0, <2>2
    <3>2. r[j] = q[i - 1] /\ r[j + 1] = q[i + 1]
      BY <1>2, <2>0, <2>2, <3>1
    <3> QED BY <1>5, <3>1, <3>2
  <2>3. CASE j + 1 > i
    <3>1. ~(j < i) /\ ~(j + 1 < i) /\ j + 1 # i - 1 /\ j + 1 # i
      BY <2>0, <2>3
    <3>2. r[j] = q[j + 1] /\ r[j + 1] = q[(j + 1) + 1]
      BY <1>2, <2>0, <3>1
    <3>3. other[q[j + 1]] = next[q[j + 1]] /\ next[q[j + 1]] = q[(j + 1) + 1]
      BY <1>4, <1>5, <2>0, <3>1
    <3> QED BY <3>2, <3>3
  <2> QED BY <2>0, <2>1, <2>2, <2>3
<1>9. Chain(other, first, S, r)
  BY <1>2, <1>3, <1>7, <1>8 DEF Chain
<1> QED BY <1>9 DEF r

\* An element comes in between two others.
LEMMA ChainInsert ==
    ASSUME NEW S, NEW next, NEW first, NEW q, Chain(next, first, S, q),
           NEW i \in 2 .. Len(q), NEW e \in S, e \notin ToSet(q),
           NEW other, other[e] = q[i], other[q[i - 1]] = e,
           \A p \in ToSet(q) : p # q[i - 1] => other[p] = next[p]
    PROVE  Chain(other, first, S, InsertAt(q, i, e))
<1> DEFINE r == InsertAt(q, i, e)
<1>1. /\ q \in Seq(S) /\ Len(q) \in Nat /\ IsQueue(q, S)
      /\ \A j, k \in 1 .. Len(q) : q[j] = q[k] => j = k
      /\ i \in 1 .. Len(q) /\ i - 1 \in 1 .. Len(q) /\ q # <<>>
  BY LenProperties, EmptySeq DEF Chain, IsQueue, IsInjective
<1>2. /\ IsQueue(r, S) /\ Len(r) = Len(q) + 1
      /\ \A j \in 1 .. Len(q) + 1 :
            r[j] = IF j < i THEN q[j] ELSE IF j = i THEN e ELSE q[j - 1]
  BY <1>1, QueueInsertAt
<1> HIDE DEF r
<1>3. r # <<>> /\ r[1] = first
  <2>1. 1 \in 1 .. Len(q) + 1 /\ 1 < i
    BY <1>1
  <2>2. Len(r) # 0
    BY <1>1, <1>2
  <2> QED BY <1>1, <1>2, <2>1, <2>2, EmptySeq DEF Chain
<1>4. \A j \in 1 .. Len(q) : j # i - 1 => other[q[j]] = next[q[j]]
  <2>1. \A j \in 1 .. Len(q) : q[j] \in ToSet(q)
    BY <1>1, Elements
  <2> QED BY <1>1, <2>1
<1>5. \A j \in 1 .. Len(q) - 1 : next[q[j]] = q[j + 1]
  BY <1>1 DEF Chain
<1>6. next[q[Len(q)]] \notin S
  BY <1>1 DEF Chain
<1>7. other[r[Len(r)]] \notin S
  <2>1. /\ Len(r) \in 1 .. Len(q) + 1 /\ ~(Len(r) < i) /\ Len(r) # i /\ Len(r) - 1 = Len(q)
        /\ Len(q) \in 1 .. Len(q) /\ Len(q) # i - 1
    BY <1>1, <1>2
  <2> QED BY <1>2, <1>4, <1>6, <2>1
<1>8. ASSUME NEW j \in 1 .. Len(r) - 1 PROVE other[r[j]] = r[j + 1]
  <2>0. j \in 1 .. Len(q) /\ j \in 1 .. Len(q) + 1 /\ j + 1 \in 1 .. Len(q) + 1 /\ i \in Nat
    BY <1>1, <1>2
  <2>1. CASE j + 1 < i
    <3>1. j < i /\ j # i - 1 /\ j \in 1 .. Len(q) - 1
      BY <1>1, <2>0, <2>1
    <3> QED BY <1>2, <1>4, <1>5, <2>0, <2>1, <3>1
  <2>2. CASE j + 1 = i
    <3>1. j < i /\ j = i - 1
      BY <2>0, <2>2
    <3> QED BY <1>2, <2>0, <2>2, <3>1
  <2>3. CASE j = i
    <3>1. ~(j + 1 < i) /\ j + 1 # i /\ (j + 1) - 1 = i /\ ~(j < i)
      BY <2>0, <2>3
    <3> QED BY <1>2, <2>0, <2>3, <3>1
  <2>4. CASE j > i
    <3>1. /\ ~(j < i) /\ j # i /\ ~(j + 1 < i) /\ j + 1 # i /\ (j + 1) - 1 = (j - 1) + 1
          /\ j - 1 \in 1 .. Len(q) - 1 /\ j - 1 \in 1 .. Len(q) /\ j - 1 # i - 1
      BY <1>1, <2>0, <2>4
    <3>2. r[j] = q[j - 1] /\ r[j + 1] = q[(j - 1) + 1]
      BY <1>2, <2>0, <3>1
    <3>3. other[q[j - 1]] = next[q[j - 1]] /\ next[q[j - 1]] = q[(j - 1) + 1]
      BY <1>4, <1>5, <3>1
    <3> QED BY <3>2, <3>3
  <2> QED BY <2>0, <2>1, <2>2, <2>3, <2>4
<1>9. Chain(other, first, S, r)
  BY <1>2, <1>3, <1>7, <1>8 DEF Chain
<1> QED BY <1>9 DEF r

----------------------------------------------------------------------------
(* Rings.                                                                  *)

\* Following link from one element of q one meets the next, and after the last the
\* first.
Cycle(link, S, q) ==
    /\ IsQueue(q, S) /\ q # <<>>
    /\ link[q[Len(q)]] = q[1]
    /\ \A i \in 1 .. Len(q) - 1 : link[q[i]] = q[i + 1]

\* The steps after which one is where one was.
Rounds(at, S) == {n \in 1 .. Cardinality(S) : at[n] = at[0]}

\* at meets q, and then q again.
Circles(at, S, q) ==
    /\ Rounds(at, S) # {} /\ Min(Rounds(at, S)) = Len(q)
    /\ \A i \in 1 .. Len(q) : at[i] = q[i]

LEMMA CycleIs ==
    ASSUME NEW S, NEW link, NEW q, Cycle(link, S, q)
    PROVE  /\ IsQueue(q, S) /\ q \in Seq(S) /\ Len(q) \in Nat /\ Len(q) >= 1
           /\ \A i \in 1 .. Len(q) : q[i] \in S /\ q[i] \in ToSet(q)
           /\ \A p \in ToSet(q) : \E i \in 1 .. Len(q) : q[i] = p
           /\ \A i, j \in 1 .. Len(q) : q[i] = q[j] => i = j
           /\ link[q[Len(q)]] = q[1]
           /\ \A i \in 1 .. Len(q) - 1 : link[q[i]] = q[i + 1]
<1>1. /\ IsQueue(q, S) /\ q # <<>> /\ link[q[Len(q)]] = q[1]
      /\ \A i \in 1 .. Len(q) - 1 : link[q[i]] = q[i + 1]
  BY DEF Cycle
<1>2. q \in Seq(S) /\ Len(q) \in Nat /\ Len(q) >= 1
  BY <1>1, LenProperties, EmptySeq DEF IsQueue
<1>3. /\ \A i \in 1 .. Len(q) : q[i] \in S /\ q[i] \in ToSet(q)
      /\ \A p \in ToSet(q) : \E i \in 1 .. Len(q) : q[i] = p
  BY <1>2, ElementOfSeq, Elements
<1>4. \A i, j \in 1 .. Len(q) : q[i] = q[j] => i = j
  BY <1>1, LenProperties DEF IsQueue, IsInjective
<1> QED BY <1>1, <1>2, <1>3, <1>4

\* From the last element one is back after as many steps as there are elements.
LEMMA CycleWalk ==
    ASSUME NEW S, IsFiniteSet(S), NEW link, NEW q, Cycle(link, S, q),
           NEW at, Follows(at, link, q[Len(q)])
    PROVE  Circles(at, S, q)
<1> DEFINE N == Len(q)
<1>0. at[0] = q[N] /\ \A n \in Nat : at[n + 1] = link[at[n]]
  BY DEF Follows
<1>1. /\ N \in Nat /\ N >= 1 /\ IsQueue(q, S)
      /\ link[q[N]] = q[1] /\ \A i \in 1 .. N - 1 : link[q[i]] = q[i + 1]
      /\ \A i, j \in 1 .. N : q[i] = q[j] => i = j
  BY CycleIs
<1>2. N <= Cardinality(S) /\ Cardinality(S) \in Nat
  <2>1. ToSet(q) \subseteq S /\ Cardinality(ToSet(q)) = N
    BY <1>1, QueueLength
  <2> QED BY <2>1, FS_Subset, FS_CardinalityType
<1> HIDE DEF N
<1>3. \A n \in Nat : n < N => at[n + 1] = q[n + 1]
  <2> DEFINE I == {n \in Nat : n < N => at[n + 1] = q[n + 1]}
  <2>1. 0 \in I
    <3>1. at[0 + 1] = link[at[0]] /\ 0 + 1 = 1
      <4>1. 0 \in Nat /\ 0 + 1 = 1
        OBVIOUS
      <4> QED BY <1>0, <4>1, Zenon
    <3> QED BY <1>0, <1>1, <3>1
  <2>2. ASSUME NEW n \in Nat, n \in I PROVE n + 1 \in I
    <3> SUFFICES ASSUME n + 1 < N PROVE at[(n + 1) + 1] = q[(n + 1) + 1]
      OBVIOUS
    <3>1. at[n + 1] = q[n + 1] /\ n + 1 \in 1 .. N - 1 /\ n + 1 \in Nat
      BY <1>1, <2>2
    <3>2. at[(n + 1) + 1] = link[at[n + 1]]
      BY <1>0, <3>1
    <3>3. link[q[n + 1]] = q[(n + 1) + 1]
      BY <1>1, <3>1
    <3> QED BY <3>1, <3>2, <3>3
  <2> HIDE DEF I
  <2>3. \A n \in Nat : n \in I
    BY <2>1, <2>2, Induction
  <2> QED BY <2>3 DEF I
<1>4. ASSUME NEW i \in 1 .. N PROVE at[i] = q[i]
  <2>1. i - 1 \in Nat /\ i - 1 < N /\ (i - 1) + 1 = i
    BY <1>1
  <2> QED BY <1>3, <2>1
<1> DEFINE E == Rounds(at, S)
<1>5. N \in E /\ E \subseteq Nat
  BY <1>0, <1>1, <1>2, <1>4 DEF Rounds
<1>6. ASSUME NEW n \in E PROVE N <= n
  <2> SUFFICES ASSUME n < N PROVE FALSE
    BY <1>1, <1>5
  <2>1. n \in 1 .. N /\ N \in 1 .. N /\ at[n] = at[0]
    BY <1>1, <1>2 DEF Rounds
  <2>2. q[n] = q[N]
    BY <1>0, <1>4, <2>1
  <2> QED BY <1>1, <2>1, <2>2
<1> HIDE DEF E
<1>7. Min(E) = N
  <2>1. \A x \in E : (\A y \in E : x <= y) => x = N
    BY <1>1, <1>5, <1>6
  <2>2. \E x \in E : \A y \in E : x <= y
    BY <1>5, <1>6
  <2>3. Min(E) \in E /\ \A y \in E : Min(E) <= y
    BY <2>2, Zenon DEF Min
  <2> QED BY <2>1, <2>3
<1> QED BY <1>4, <1>5, <1>7 DEF E, N, Circles

\* A ring through ahead, with the last element t, and behind leads back.
Ring(ahead, behind, S, t, q) ==
    /\ Cycle(ahead, S, q) /\ t = q[Len(q)]
    /\ \A p \in ToSet(q) : behind[ahead[p]] = p

LEMMA RingIs ==
    ASSUME NEW S, NEW ahead, NEW behind, NEW t, NEW q, Ring(ahead, behind, S, t, q)
    PROVE  /\ IsQueue(q, S) /\ q # <<>> /\ t \in ToSet(q) /\ t \in S
           /\ ahead[t] = Head(q) /\ ahead[t] = q[1]
           /\ \A p \in ToSet(q) : /\ p \in S /\ ahead[p] \in ToSet(q) /\ behind[p] \in ToSet(q)
                                  /\ behind[ahead[p]] = p /\ ahead[behind[p]] = p
           /\ Len(q) = 1 <=> ahead[t] = t
           /\ Len(q) = 1 <=> behind[t] = t
           /\ \A i \in 2 .. Len(q) : behind[q[i]] = q[i - 1]
           /\ behind[q[1]] = t
<1> DEFINE N == Len(q)
<1>1. /\ IsQueue(q, S) /\ q \in Seq(S) /\ N \in Nat /\ N >= 1
      /\ \A i \in 1 .. N : q[i] \in S /\ q[i] \in ToSet(q)
      /\ \A p \in ToSet(q) : \E i \in 1 .. N : q[i] = p
      /\ \A i, j \in 1 .. N : q[i] = q[j] => i = j
      /\ ahead[q[N]] = q[1]
      /\ \A i \in 1 .. N - 1 : ahead[q[i]] = q[i + 1]
  BY CycleIs DEF Ring
<1>2. t = q[N] /\ \A p \in ToSet(q) : behind[ahead[p]] = p
  BY DEF Ring
<1> HIDE DEF N
<1>3. q # <<>> /\ Head(q) = q[1] /\ t \in ToSet(q) /\ t \in S /\ behind[q[1]] = t
  <2>1. q # <<>>
    BY DEF Ring, Cycle
  <2>2. N \in 1 .. N
    BY <1>1
  <2> QED BY <1>1, <1>2, <2>1, <2>2
<1>4. \A i \in 2 .. N : behind[q[i]] = q[i - 1]
  <2> TAKE i \in 2 .. N
  <2>1. i - 1 \in 1 .. N - 1 /\ i - 1 \in 1 .. N /\ (i - 1) + 1 = i
    BY <1>1
  <2>2. ahead[q[i - 1]] = q[(i - 1) + 1] /\ q[i - 1] \in ToSet(q)
    BY <1>1, <2>1, Zenon
  <2>3. behind[ahead[q[i - 1]]] = q[i - 1]
    BY <1>2, <2>2
  <2> QED BY <2>1, <2>2, <2>3
<1>5. ASSUME NEW p \in ToSet(q)
      PROVE  /\ p \in S /\ ahead[p] \in ToSet(q) /\ behind[p] \in ToSet(q)
             /\ behind[ahead[p]] = p /\ ahead[behind[p]] = p
  <2>1. PICK i \in 1 .. N : q[i] = p
    BY <1>1
  <2>2. ahead[p] \in ToSet(q)
    <3>1. CASE i = N
      <4>1. 1 \in 1 .. N
        BY <1>1
      <4> QED BY <1>1, <2>1, <3>1, <4>1
    <3>2. CASE i # N
      <4>1. i \in 1 .. N - 1 /\ i + 1 \in 1 .. N
        BY <1>1, <3>2
      <4> QED BY <1>1, <2>1, <4>1
    <3> QED BY <3>1, <3>2
  <2>3. behind[p] \in ToSet(q) /\ ahead[behind[p]] = p
    <3>1. CASE i = 1
      BY <1>1, <1>2, <1>3, <2>1, <3>1
    <3>2. CASE i # 1
      <4>1. /\ i \in 2 .. N /\ i - 1 \in 1 .. N - 1 /\ i - 1 \in 1 .. N
            /\ (i - 1) + 1 = i
        <5>1. N \in Nat /\ N >= 1
          BY <1>1
        <5> QED BY <3>2, <5>1
      <4>2. behind[p] = q[i - 1] /\ ahead[q[i - 1]] = p
        BY <1>1, <1>4, <2>1, <4>1
      <4> QED BY <1>1, <4>1, <4>2
    <3> QED BY <3>1, <3>2
  <2> QED BY <1>1, <1>2, <2>1, <2>2, <2>3
<1>6. N = 1 <=> ahead[t] = t
  <2>1. 1 \in 1 .. N /\ N \in 1 .. N
    BY <1>1
  <2> QED BY <1>1, <1>2, <2>1
<1>7. N = 1 <=> behind[t] = t
  BY <1>3, <1>5, <1>6
<1> QED BY <1>1, <1>2, <1>3, <1>4, <1>5, <1>6, <1>7 DEF N

\* The links of the elements outside of X stay.
Agree(link, other, X) == \A p \in X : other[p] = link[p]

\* A ring only depends on the links of its elements.
LEMMA RingFrame ==
    ASSUME NEW S, NEW ahead, NEW behind, NEW t, NEW q, Ring(ahead, behind, S, t, q),
           NEW ahead1, NEW behind1,
           Agree(ahead, ahead1, ToSet(q)), Agree(behind, behind1, ToSet(q))
    PROVE  Ring(ahead1, behind1, S, t, q)
<1>1. /\ Len(q) \in Nat /\ Len(q) >= 1
      /\ \A i \in 1 .. Len(q) : q[i] \in ToSet(q)
  BY CycleIs DEF Ring
<1>2. Cycle(ahead1, S, q)
  <2>1. ahead1[q[Len(q)]] = q[1]
    <3>1. q[Len(q)] \in ToSet(q)
      BY <1>1
    <3> QED BY <3>1 DEF Ring, Cycle, Agree
  <2>2. ASSUME NEW i \in 1 .. Len(q) - 1 PROVE ahead1[q[i]] = q[i + 1]
    <3>1. q[i] \in ToSet(q)
      BY <1>1
    <3> QED BY <3>1 DEF Ring, Cycle, Agree
  <2> QED BY <2>1, <2>2 DEF Ring, Cycle
<1>3. \A p \in ToSet(q) : behind1[ahead1[p]] = p
  BY RingIs DEF Agree
<1> QED BY <1>2, <1>3 DEF Ring

\* insertProcQ into an empty queue.
LEMMA RingOne ==
    ASSUME NEW S, NEW e \in S, NEW ahead, NEW behind, ahead[e] = e, behind[e] = e
    PROVE  Ring(ahead, behind, S, e, <<e>>)
<1>1. /\ IsQueue(<<e>>, S) /\ ToSet(<<e>>) = {e} /\ <<e>> # <<>>
      /\ Len(<<e>>) = 1 /\ <<e>>[1] = e
  BY DEF IsQueue, IsInjective, ToSet
<1> QED BY <1>1 DEF Ring, Cycle

\* e goes between the tail t and the head.
Appends(ahead, behind, ahead1, behind1, t, e, X) ==
    /\ ahead1[e] = ahead[t] /\ ahead1[t] = e
    /\ \A p \in X \ {t} : ahead1[p] = ahead[p]
    /\ behind1[e] = t /\ behind1[ahead[t]] = e
    /\ \A p \in X \ {ahead[t]} : behind1[p] = behind[p]

LEMMA RingAppend ==
    ASSUME NEW S, NEW ahead, NEW behind, NEW t, NEW q, Ring(ahead, behind, S, t, q),
           NEW e \in S, e \notin ToSet(q), NEW ahead1, NEW behind1,
           Appends(ahead, behind, ahead1, behind1, t, e, ToSet(q))
    PROVE  Ring(ahead1, behind1, S, e, Append(q, e))
<1> DEFINE N == Len(q)
           r == Append(q, e)
<1>1. /\ IsQueue(q, S) /\ q \in Seq(S) /\ N \in Nat /\ N >= 1
      /\ \A i \in 1 .. N : q[i] \in ToSet(q)
      /\ \A i, j \in 1 .. N : q[i] = q[j] => i = j
      /\ \A i \in 1 .. N - 1 : ahead[q[i]] = q[i + 1]
      /\ t = q[N] /\ ahead[t] = q[1]
  BY CycleIs, RingIs DEF Ring
<1>2. /\ ahead1[e] = ahead[t] /\ ahead1[t] = e
      /\ \A p \in ToSet(q) \ {t} : ahead1[p] = ahead[p]
      /\ behind1[e] = t /\ behind1[ahead[t]] = e
      /\ \A p \in ToSet(q) \ {ahead[t]} : behind1[p] = behind[p]
  BY DEF Appends
<1>3. /\ IsQueue(r, S) /\ ToSet(r) = ToSet(q) \cup {e} /\ r # <<>> /\ Len(r) = N + 1
  BY <1>1, QueueAppend
<1>4. r[N + 1] = e /\ \A i \in 1 .. N : r[i] = q[i]
  BY <1>1
<1> HIDE DEF N, r
<1>5. Cycle(ahead1, S, r)
  <2>1. ahead1[r[Len(r)]] = r[1]
    BY <1>1, <1>2, <1>3, <1>4
  <2>2. ASSUME NEW i \in 1 .. N PROVE ahead1[r[i]] = r[i + 1]
    <3>1. CASE i = N
      BY <1>1, <1>2, <1>4, <3>1
    <3>2. CASE i # N
      <4>1. i \in 1 .. N - 1 /\ i + 1 \in 1 .. N /\ N \in 1 .. N
        BY <1>1, <3>2
      <4>2. q[i] \in ToSet(q) \ {t} /\ ahead[q[i]] = q[i + 1]
        BY <1>1, <3>2, <4>1
      <4>3. r[i] = q[i] /\ r[i + 1] = q[i + 1]
        BY <1>4, <4>1
      <4> QED BY <1>2, <4>2, <4>3
    <3> QED BY <3>1, <3>2
  <2>3. Len(r) - 1 = N
    BY <1>1, <1>3
  <2> QED BY <1>3, <2>1, <2>2, <2>3 DEF Cycle
<1>6. ASSUME NEW p \in ToSet(r) PROVE behind1[ahead1[p]] = p
  <2>1. CASE p = e
    BY <1>2, <2>1
  <2>2. CASE p = t
    BY <1>2, <2>2
  <2>3. CASE p # e /\ p # t
    <3>1. p \in ToSet(q) \ {t} /\ t \in ToSet(q)
      BY <1>1, <1>3, <2>3, RingIs
    <3>2. /\ ahead1[p] = ahead[p] /\ ahead[p] \in ToSet(q) /\ behind[ahead[p]] = p
          /\ behind[ahead[t]] = t
      BY <1>2, <3>1, RingIs
    <3>3. ahead[p] # ahead[t]
      BY <2>3, <3>2
    <3> QED BY <1>2, <3>2, <3>3
  <2> QED BY <2>1, <2>2, <2>3
<1> QED BY <1>3, <1>4, <1>5, <1>6 DEF Ring, r

\* p leaves its ring and its neighbours close up; its own links may be anything.
Drops(ahead, behind, ahead1, behind1, p, X) ==
    /\ \A x \in X \ {p} : ahead1[x] = IF x = behind[p] THEN ahead[p] ELSE ahead[x]
    /\ \A x \in X \ {p} : behind1[x] = IF x = ahead[p] THEN behind[p] ELSE behind[x]

LEMMA RingDrop ==
    ASSUME NEW S, NEW ahead, NEW behind, NEW t, NEW q, Ring(ahead, behind, S, t, q),
           NEW p \in ToSet(q), Len(q) # 1, NEW ahead1, NEW behind1,
           Drops(ahead, behind, ahead1, behind1, p, ToSet(q))
    PROVE  Ring(ahead1, behind1, S, IF p = t THEN behind[p] ELSE t, RemoveFirst(q, p))
<1> DEFINE N == Len(q)
           r == RemoveFirst(q, p)
<1>1. /\ IsQueue(q, S) /\ q \in Seq(S) /\ N \in Nat /\ N >= 2
      /\ \A i \in 1 .. N : q[i] \in ToSet(q)
      /\ \A i, j \in 1 .. N : q[i] = q[j] => i = j
      /\ \A i \in 1 .. N - 1 : ahead[q[i]] = q[i + 1]
      /\ t = q[N] /\ ahead[t] = q[1]
      /\ \A i \in 2 .. N : behind[q[i]] = q[i - 1]
      /\ behind[q[1]] = t
  <2>1. Cycle(ahead, S, q) /\ t = q[N]
    BY DEF Ring
  <2>2. /\ IsQueue(q, S) /\ q \in Seq(S) /\ N \in Nat /\ N >= 1
        /\ \A i \in 1 .. N : q[i] \in ToSet(q)
        /\ \A i, j \in 1 .. N : q[i] = q[j] => i = j
        /\ \A i \in 1 .. N - 1 : ahead[q[i]] = q[i + 1]
    BY <2>1, CycleIs
  <2>3. /\ ahead[t] = q[1] /\ behind[q[1]] = t
        /\ \A i \in 2 .. N : behind[q[i]] = q[i - 1]
    BY RingIs
  <2>4. N # 1
    OBVIOUS
  <2> HIDE DEF N
  <2>5. N >= 2
    BY <2>2, <2>4
  <2> QED BY <2>1, <2>2, <2>3, <2>5
<1>2. PICK i \in 1 .. N : q[i] = p
  BY CycleIs DEF Ring
<1>3. /\ IsQueue(r, S) /\ ToSet(r) = ToSet(q) \ {p} /\ Len(r) = N - 1
      /\ \A j \in 1 .. N - 1 : r[j] = IF j < i THEN q[j] ELSE q[j + 1]
  <2>1. r = RemoveAt(q, i)
    BY <1>1, <1>2, QueuePlace
  <2> HIDE DEF r
  <2>2. /\ IsQueue(RemoveAt(q, i), S) /\ ToSet(RemoveAt(q, i)) = ToSet(q) \ {q[i]}
        /\ Len(RemoveAt(q, i)) = N - 1
        /\ \A j \in 1 .. N - 1 : RemoveAt(q, i)[j] = IF j < i THEN q[j] ELSE q[j + 1]
    BY <1>1, QueueRemoveAt
  <2> QED BY <1>2, <2>1, <2>2
<1> HIDE DEF N, r
<1>4. r # <<>>
  BY <1>1, <1>3, EmptySeq
<1>5. /\ \A x \in ToSet(q) \ {p} : ahead1[x] = IF x = behind[p] THEN ahead[p] ELSE ahead[x]
      /\ \A x \in ToSet(q) \ {p} : behind1[x] = IF x = ahead[p] THEN behind[p] ELSE behind[x]
  BY DEF Drops
<1>6. /\ p \in ToSet(q) /\ behind[p] \in ToSet(q) /\ behind[p] # p
  <2>1. behind[p] \in ToSet(q)
    BY RingIs
  <2>2. behind[p] # p
    <3>1. CASE i = 1
      <4>1. 1 \in 1 .. N /\ N \in 1 .. N /\ N # 1
        BY <1>1
      <4> QED BY <1>1, <1>2, <3>1, <4>1
    <3>2. CASE i # 1
      <4>1. i \in 2 .. N /\ i - 1 \in 1 .. N /\ i - 1 # i
        BY <1>1, <3>2
      <4> QED BY <1>1, <1>2, <4>1
    <3> QED BY <3>1, <3>2
  <2> QED BY <2>1, <2>2
<1>7. (IF p = t THEN behind[p] ELSE t) = r[Len(r)]
  <2>0. N \in 1 .. N /\ N - 1 \in 1 .. N - 1 /\ N \in 2 .. N /\ (N - 1) + 1 = N
    BY <1>1
  <2>1. CASE i = N
    <3>1. p = t /\ behind[p] = q[N - 1] /\ N - 1 < i
      BY <1>1, <1>2, <2>0, <2>1
    <3> QED BY <1>3, <2>0, <3>1
  <2>2. CASE i # N
    <3>1. p # t /\ ~(N - 1 < i)
      BY <1>1, <1>2, <2>0, <2>2
    <3> QED BY <1>1, <1>3, <2>0, <3>1
  <2> QED BY <2>1, <2>2
<1>8. ahead1[r[Len(r)]] = r[1]
  <2>0. /\ N \in 1 .. N /\ N - 1 \in 1 .. N - 1 /\ N \in 2 .. N /\ (N - 1) + 1 = N
        /\ 1 \in 1 .. N - 1 /\ 1 \in 1 .. N /\ 1 + 1 = 2 /\ 2 \in 1 .. N
    BY <1>1
  <2>1. CASE i = N
    <3>1. p = t /\ 1 < i
      BY <1>1, <1>2, <2>1
    <3>2. r[Len(r)] = behind[p] /\ r[1] = q[1]
      BY <1>3, <1>7, <2>0, <3>1
    <3> QED BY <1>1, <1>5, <1>6, <3>1, <3>2
  <2>2. CASE i # N /\ i = 1
    <3>1. p # t /\ behind[p] = t /\ ahead[p] = q[2] /\ r[1] = q[2]
      BY <1>1, <1>2, <1>3, <2>0, <2>2
    <3> QED BY <1>5, <1>6, <1>7, <3>1
  <2>3. CASE i # N /\ i # 1
    <3>1. /\ i \in 2 .. N /\ i - 1 \in 1 .. N /\ i - 1 # N /\ 1 < i
      BY <1>1, <2>3
    <3>2. p # t /\ behind[p] # t /\ r[1] = q[1] /\ t \in ToSet(q)
      <4>1. q[i] # q[N] /\ q[i - 1] # q[N] /\ q[N] \in ToSet(q)
        BY <1>1, <2>0, <2>3, <3>1
      <4>2. behind[q[i]] = q[i - 1]
        BY <1>1, <3>1
      <4>3. r[1] = q[1]
        BY <1>3, <2>0, <3>1
      <4> QED BY <1>1, <1>2, <4>1, <4>2, <4>3
    <3> QED BY <1>1, <1>5, <1>7, <3>2
  <2> QED BY <2>1, <2>2, <2>3
<1>9. ASSUME NEW j \in 1 .. Len(r) - 1 PROVE ahead1[r[j]] = r[j + 1]
  <2>0. /\ j \in 1 .. N /\ j \in 1 .. N - 1 /\ j + 1 \in 1 .. N - 1 /\ j + 1 \in 1 .. N
        /\ (j + 1) + 1 \in 1 .. N /\ N \in 1 .. N
    <3>1. N \in Nat /\ N >= 2 /\ j \in 1 .. (N - 1) - 1
      BY <1>1, <1>3
    <3> QED BY <3>1
  <2>1. CASE j + 1 < i
    <3>1. r[j] = q[j] /\ r[j + 1] = q[j + 1]
      <4>1. j < i
        BY <2>0, <2>1
      <4>2. r[j] = IF j < i THEN q[j] ELSE q[j + 1]
        BY <1>3, <2>0
      <4>3. r[j + 1] = IF j + 1 < i THEN q[j + 1] ELSE q[(j + 1) + 1]
        BY <1>3, <2>0, Zenon
      <4> QED BY <2>1, <4>1, <4>2, <4>3
    <3>2. i \in 2 .. N /\ i - 1 \in 1 .. N /\ j # i - 1 /\ j # i
      BY <1>1, <2>0, <2>1
    <3>3. q[j] # p /\ q[j] # behind[p]
      <4>1. behind[q[i]] = q[i - 1]
        BY <1>1, <3>2
      <4>2. q[j] # q[i] /\ q[j] # q[i - 1]
        BY <1>1, <2>0, <3>2
      <4> QED BY <1>2, <4>1, <4>2
    <3>4. ahead[q[j]] = q[j + 1] /\ q[j] \in ToSet(q)
      BY <1>1, <2>0
    <3> QED BY <1>5, <3>1, <3>3, <3>4
  <2>2. CASE j + 1 = i
    <3>1. i \in 2 .. N /\ i - 1 = j /\ i \in 1 .. N - 1 /\ j < i /\ ~(j + 1 < i)
      BY <1>1, <2>0, <2>2
    <3>2. r[j] = q[j] /\ r[j + 1] = q[(j + 1) + 1]
      BY <1>3, <2>0, <3>1
    <3>3. q[j] = behind[p] /\ ahead[p] = q[(j + 1) + 1]
      BY <1>1, <1>2, <2>2, <3>1
    <3> QED BY <1>5, <1>6, <3>2, <3>3
  <2>3. CASE j + 1 > i
    <3>1. r[j] = q[j + 1] /\ r[j + 1] = q[(j + 1) + 1]
      <4>1. ~(j < i) /\ ~(j + 1 < i)
        BY <1>1, <2>0, <2>3
      <4> QED BY <1>3, <2>0, <4>1
    <3>2. q[j + 1] # p
      BY <1>1, <1>2, <2>0, <2>3
    <3>3. q[j + 1] # behind[p]
      <4>1. CASE i = 1
        <5>1. behind[p] = q[N] /\ j + 1 # N
          BY <1>1, <1>2, <2>0, <4>1
        <5> QED BY <1>1, <2>0, <5>1
      <4>2. CASE i # 1
        <5>1. i \in 2 .. N /\ i - 1 \in 1 .. N /\ j + 1 # i - 1
          BY <1>1, <2>0, <2>3, <4>2
        <5>2. behind[p] = q[i - 1]
          BY <1>1, <1>2, <5>1
        <5> QED BY <1>1, <2>0, <5>1, <5>2
      <4> QED BY <4>1, <4>2
    <3>4. ahead[q[j + 1]] = q[(j + 1) + 1] /\ q[j + 1] \in ToSet(q)
      BY <1>1, <2>0
    <3> QED BY <1>5, <3>1, <3>2, <3>3, <3>4
  <2> QED BY <1>1, <2>0, <2>1, <2>2, <2>3
<1>10. ASSUME NEW x \in ToSet(r) PROVE behind1[ahead1[x]] = x
  <2>1. x \in ToSet(q) \ {p}
    BY <1>3
  <2>2. /\ \A y \in ToSet(q) : /\ ahead[y] \in ToSet(q) /\ behind[y] \in ToSet(q)
                               /\ behind[ahead[y]] = y /\ ahead[behind[y]] = y
    BY RingIs
  <2>3. CASE x = behind[p]
    <3>1. ahead1[x] = ahead[p]
      BY <1>5, <2>1, <2>3
    <3>2. ahead[p] # p /\ ahead[p] \in ToSet(q)
      BY <1>6, <2>2
    <3> QED BY <1>5, <2>3, <3>1, <3>2
  <2>4. CASE x # behind[p]
    <3>1. ahead1[x] = ahead[x] /\ ahead[x] \in ToSet(q)
      BY <1>5, <2>1, <2>2, <2>4
    <3>2. ahead[x] # p /\ ahead[x] # ahead[p]
      BY <1>6, <2>1, <2>2, <2>4
    <3> QED BY <1>5, <2>1, <2>2, <3>1, <3>2
  <2> QED BY <2>3, <2>4
<1>11. Cycle(ahead1, S, r)
  BY <1>3, <1>4, <1>8, <1>9 DEF Cycle
<1> QED BY <1>7, <1>10, <1>11 DEF Ring, r

\* behind meets the elements in the opposite order, from the head.
LEMMA RingBack ==
    ASSUME NEW S, NEW ahead, NEW behind, NEW t, NEW q, Ring(ahead, behind, S, t, q)
    PROVE  /\ Cycle(behind, S, Reverse(q))
           /\ Reverse(q)[Len(Reverse(q))] = ahead[t]
<1> DEFINE N == Len(q)
           r == Reverse(q)
<1>1. /\ q \in Seq(S) /\ N \in Nat /\ N >= 1
      /\ \A i \in 1 .. N : q[i] \in S
      /\ \A i, j \in 1 .. N : q[i] = q[j] => i = j
      /\ t = q[N]
  BY CycleIs DEF Ring
<1>2. /\ ahead[t] = q[1] /\ behind[q[1]] = t
      /\ \A i \in 2 .. N : behind[q[i]] = q[i - 1]
  BY RingIs
<1>3. /\ r = [i \in 1 .. N |-> q[(N - i) + 1]]
  BY DEF Reverse
<1> HIDE DEF N, r
<1>4. /\ r \in Seq(S) /\ Len(r) = N /\ DOMAIN r = 1 .. N
      /\ \A i \in 1 .. N : r[i] = q[(N - i) + 1]
  <2>1. \A i \in 1 .. N : (N - i) + 1 \in 1 .. N
    BY <1>1
  <2>2. r \in [1 .. N -> S]
    BY <1>1, <1>3, <2>1
  <2>3. r \in Seq(S) /\ Len(r) = N
    BY <1>1, <2>2
  <2> QED BY <1>3, <2>2, <2>3
<1>5. IsQueue(r, S) /\ r # <<>>
  <2>1. ASSUME NEW i \in 1 .. N, NEW j \in 1 .. N, r[i] = r[j] PROVE i = j
    <3>1. (N - i) + 1 \in 1 .. N /\ (N - j) + 1 \in 1 .. N
      BY <1>1
    <3>2. q[(N - i) + 1] = q[(N - j) + 1]
      BY <1>4, <2>1, Zenon
    <3>3. (N - i) + 1 = (N - j) + 1
      BY <1>1, <3>1, <3>2, Zenon
    <3> QED BY <1>1, <3>3
  <2>2. r # <<>>
    BY <1>1, <1>4, EmptySeq
  <2> QED BY <1>4, <2>1, <2>2 DEF IsQueue, IsInjective
<1>6. r[N] = q[1] /\ r[1] = q[N]
  <2>1. N \in 1 .. N /\ 1 \in 1 .. N /\ (N - N) + 1 = 1 /\ (N - 1) + 1 = N
    BY <1>1
  <2> QED BY <1>4, <2>1
<1>7. ASSUME NEW i \in 1 .. N - 1 PROVE behind[r[i]] = r[i + 1]
  <2>1. /\ i \in 1 .. N /\ i + 1 \in 1 .. N /\ (N - i) + 1 \in 2 .. N
        /\ ((N - i) + 1) - 1 = (N - (i + 1)) + 1
    BY <1>1
  <2> QED BY <1>2, <1>4, <2>1
<1>8. Cycle(behind, S, r)
  BY <1>1, <1>2, <1>4, <1>5, <1>6, <1>7 DEF Cycle
<1> QED BY <1>2, <1>4, <1>6, <1>8 DEF r

\* From the tail it meets them too.
LEMMA RingBackTail ==
    ASSUME NEW S, NEW ahead, NEW behind, NEW t, NEW q, Ring(ahead, behind, S, t, q)
    PROVE  \E r : /\ Cycle(behind, S, r) /\ r[Len(r)] = t
                  /\ ToSet(r) = ToSet(q)
<1> DEFINE N == Len(q)
           r == [i \in 1 .. N |-> IF i = N THEN q[N] ELSE q[N - i]]
<1>1. /\ q \in Seq(S) /\ N \in Nat /\ N >= 1
      /\ \A i \in 1 .. N : q[i] \in S /\ q[i] \in ToSet(q)
      /\ \A p \in ToSet(q) : \E i \in 1 .. N : q[i] = p
      /\ \A i, j \in 1 .. N : q[i] = q[j] => i = j
      /\ t = q[N]
  BY CycleIs DEF Ring
<1>2. behind[q[1]] = t /\ \A i \in 2 .. N : behind[q[i]] = q[i - 1]
  BY RingIs
<1> HIDE DEF N
<1>3. \A i \in 1 .. N : i = N \/ (N - i \in 1 .. N /\ N - i # N)
  BY <1>1
<1>4. /\ r \in Seq(S) /\ Len(r) = N /\ DOMAIN r = 1 .. N
      /\ \A i \in 1 .. N : r[i] = IF i = N THEN q[N] ELSE q[N - i]
  <2>1. r \in [1 .. N -> S]
    BY <1>1, <1>3
  <2>2. r \in Seq(S) /\ Len(r) = N
    BY <1>1, <2>1
  <2> QED BY <2>1, <2>2
<1> HIDE DEF r
<1>5. IsQueue(r, S) /\ r # <<>>
  <2>1. ASSUME NEW i \in 1 .. N, NEW j \in 1 .. N, r[i] = r[j] PROVE i = j
    <3>0. N \in 1 .. N
      BY <1>1
    <3>1. CASE i = N /\ j = N
      BY <3>1
    <3>2. CASE i = N /\ j # N
      BY <1>1, <1>3, <1>4, <2>1, <3>0, <3>2
    <3>3. CASE i # N /\ j = N
      BY <1>1, <1>3, <1>4, <2>1, <3>0, <3>3
    <3>4. CASE i # N /\ j # N
      <4>1. N - i = N - j
        BY <1>1, <1>3, <1>4, <2>1, <3>4
      <4> QED BY <1>1, <4>1
    <3> QED BY <3>1, <3>2, <3>3, <3>4
  <2>2. r # <<>>
    BY <1>1, <1>4, EmptySeq
  <2> QED BY <1>4, <2>1, <2>2 DEF IsQueue, IsInjective
<1>6. r[N] = t
  <2>1. N \in 1 .. N
    BY <1>1
  <2> QED BY <1>1, <1>4, <2>1
<1>7. behind[r[N]] = r[1]
  <2>1. CASE N = 1
    BY <1>1, <1>2, <1>6, <2>1
  <2>2. CASE N # 1
    <3>1. N \in 2 .. N /\ 1 \in 1 .. N
      BY <1>1, <2>2
    <3> QED BY <1>1, <1>2, <1>4, <1>6, <2>2, <3>1
  <2> QED BY <2>1, <2>2
<1>8. ASSUME NEW i \in 1 .. N - 1 PROVE behind[r[i]] = r[i + 1]
  <2>0. i \in 1 .. N /\ i + 1 \in 1 .. N /\ i # N
    BY <1>1
  <2>1. r[i] = q[N - i]
    BY <1>4, <2>0
  <2>2. CASE i + 1 = N
    <3>1. N - i = 1 /\ r[i + 1] = q[N]
      BY <1>1, <1>4, <2>0, <2>2
    <3> QED BY <1>1, <1>2, <2>1, <3>1
  <2>3. CASE i + 1 # N
    <3>1. N - i \in 2 .. N /\ (N - i) - 1 = N - (i + 1)
      BY <1>1, <2>3
    <3>2. r[i + 1] = q[N - (i + 1)]
      BY <1>4, <2>0, <2>3
    <3> QED BY <1>2, <2>1, <3>1, <3>2
  <2> QED BY <2>2, <2>3
<1>9. Cycle(behind, S, r)
  BY <1>4, <1>5, <1>7, <1>8 DEF Cycle
<1>10. ToSet(r) = ToSet(q)
  <2>1. ASSUME NEW p \in ToSet(r) PROVE p \in ToSet(q)
    <3>1. PICK i \in 1 .. N : r[i] = p
      BY <1>4 DEF ToSet
    <3>2. N \in 1 .. N
      BY <1>1
    <3> QED BY <1>1, <1>3, <1>4, <3>1, <3>2
  <2>2. ASSUME NEW p \in ToSet(q) PROVE p \in ToSet(r)
    <3>1. PICK i \in 1 .. N : q[i] = p
      BY <1>1
    <3>2. CASE i = N
      BY <1>4, <3>1, <3>2 DEF ToSet
    <3>3. CASE i # N
      <4>1. N - i \in 1 .. N /\ N - i # N /\ N - (N - i) = i
        BY <1>1, <3>3
      <4> QED BY <1>4, <3>1, <4>1 DEF ToSet
    <3> QED BY <3>2, <3>3
  <2> QED BY <2>1, <2>2
<1> QED BY <1>4, <1>6, <1>9, <1>10

=============================================================================
