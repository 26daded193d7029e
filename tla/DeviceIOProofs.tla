--------------------------- MODULE DeviceIOProofs ---------------------------
(***************************************************************************)
(* Proofs about DeviceIO, for any processes and any devices but those      *)
(* whose numbers interrupts.c exchanges: device semaphores tell what the   *)
(* devices do, SYS5 keeps the promise of Requests, and interrupts run out. *)
(***************************************************************************)
EXTENDS DeviceIO, FiniteSetTheorems, TLAPS

\* No device has a number for which DevNo gives another.
NumbersKept == \A d \in Installed : d[2] \notin {1, 2}

----------------------------------------------------------------------------
(* The inductive invariant.                                                *)

Working(c) == status[c] = BUSY \/ c \in pending

\* A status is that of a finished operation until its interrupt is taken, and
\* one half of a terminal works at a time.
ChannelsTold ==
    /\ \A c \in Channel : status[c] \in IF c \in pending THEN Outcome(c)
                                        ELSE {READY, BUSY}
    /\ \A c \in Channel : c[1] = TERMINAL /\ Working(c) => ~Working(OtherHalf(c))

\* Who waits, waits alone, once, and for a channel that works.
WaitersTold ==
    /\ \A s \in 0..47 : asl[s] # {} => \E c \in Channel : s = SemIndex(c) /\ Working(c)
    /\ \A s \in 0..47 : \A p, q \in asl[s] : p = q
    /\ \A s, t \in 0..47 : asl[s] \cap asl[t] # {} => s = t
    /\ softBlockCount = Cardinality({p \in Proc : Waits(p)})

IInv ==
    /\ TypeOK
    /\ SemaphoresTellActivity
    /\ ChannelsTold
    /\ WaitersTold

----------------------------------------------------------------------------
(* Channels and semaphores.                                                *)

LEMMA ChannelShape ==
    ASSUME NEW c \in Channel
    PROVE  /\ c = <<c[1], c[2], c[3]>>
           /\ c[1] \in 3..7 /\ c[2] \in 0..7 /\ c[3] \in {0, 1}
           /\ c[3] = 1 => c[1] = TERMINAL
           /\ <<c[1], c[2]>> \in Installed
           /\ c \in Register
  BY InstalledAssumption DEF Channel, Register, Line, DISK, TERMINAL

LEMMA HalvesAreChannels ==
    ASSUME NEW c \in Channel, c[1] = TERMINAL
    PROVE  /\ OtherHalf(c) \in Channel
           /\ OtherHalf(c)[1] = TERMINAL
           /\ OtherHalf(OtherHalf(c)) = c
           /\ OtherHalf(c) # c
           /\ c[3] = 1 => OtherHalf(c) = <<c[1], c[2], 0>>
  <1>1. OtherHalf(c) \in Line \X (0..7) \X {0, 1}
    BY ChannelShape DEF OtherHalf, Channel, Register
  <1>2. /\ OtherHalf(c)[1] = TERMINAL /\ OtherHalf(c)[2] = c[2]
        /\ OtherHalf(c)[3] = 1 - c[3]
    BY DEF OtherHalf
  <1>3. OtherHalf(c) \in Channel
    BY <1>1, <1>2, ChannelShape DEF Channel, Register
  <1>4. OtherHalf(OtherHalf(c)) = c
    <2>1. c = <<c[1], c[2], c[3]>> /\ c[3] \in {0, 1}
      BY ChannelShape
    <2>2. 1 - (1 - c[3]) = c[3]
      BY <2>1
    <2> QED
      BY <2>1, <2>2 DEF OtherHalf
  <1>5. OtherHalf(c) # c
    <2>1. c[3] \in {0, 1}
      BY ChannelShape
    <2> QED
      BY <1>2, <2>1
  <1> QED
    BY <1>2, <1>3, <1>4, <1>5, ChannelShape DEF OtherHalf

\* Each channel has a semaphore of its own.
LEMMA SemIndexInjective ==
    /\ \A c \in Channel : SemIndex(c) \in 0..47
    /\ \A c, d \in Channel : SemIndex(c) = SemIndex(d) => c = d
  <1>1. ASSUME NEW l \in 3..7, NEW n \in 0..7, NEW h \in {0, 1}, h = 1 => l = 7
        PROVE  (l - 3) * 8 + n + 8 * h \in 0..47
    BY <1>1
  <1>2. ASSUME NEW l \in 3..7, NEW n \in 0..7, NEW h \in {0, 1}, h = 1 => l = 7,
               NEW k \in 3..7, NEW m \in 0..7, NEW g \in {0, 1}, g = 1 => k = 7,
               (l - 3) * 8 + n + 8 * h = (k - 3) * 8 + m + 8 * g
        PROVE  l = k /\ n = m /\ h = g
    BY <1>2
  <1>3. ASSUME NEW c \in Channel
        PROVE  SemIndex(c) \in 0..47
    <2>1. /\ c[1] \in 3..7 /\ c[2] \in 0..7 /\ c[3] \in {0, 1}
          /\ c[3] = 1 => c[1] = 7
      BY ChannelShape DEF TERMINAL
    <2> QED
      BY <1>1, <2>1 DEF SemIndex
  <1>4. ASSUME NEW c \in Channel, NEW d \in Channel, SemIndex(c) = SemIndex(d)
        PROVE  c = d
    <2>1. /\ c[1] \in 3..7 /\ c[2] \in 0..7 /\ c[3] \in {0, 1}
          /\ c[3] = 1 => c[1] = 7
          /\ d[1] \in 3..7 /\ d[2] \in 0..7 /\ d[3] \in {0, 1}
          /\ d[3] = 1 => d[1] = 7
          /\ c = <<c[1], c[2], c[3]>> /\ d = <<d[1], d[2], d[3]>>
      BY ChannelShape DEF TERMINAL
    <2>2. c[1] = d[1] /\ c[2] = d[2] /\ c[3] = d[3]
      BY <1>2, <1>4, <2>1 DEF SemIndex
    <2> QED
      BY <2>1, <2>2
  <1> QED
    BY <1>3, <1>4

LEMMA InitIInv == Init => IInv
  <1> SUFFICES ASSUME Init PROVE IInv
    OBVIOUS
  <1> USE DEF Init
  <1>1. Channel \subseteq Register
    BY ChannelShape
  <1>2. {p \in Proc : Waits(p)} = {}
    BY DEF Waits
  <1>3. TypeOK
    BY <1>1 DEF TypeOK, Status
  <1>4. SemaphoresTellActivity
    BY <1>1, SemIndexInjective DEF SemaphoresTellActivity, READY, BUSY
  <1>5. ChannelsTold
    BY <1>1, HalvesAreChannels DEF ChannelsTold, Working, READY, BUSY
  <1>6. WaitersTold
    BY <1>2, FS_EmptySet DEF WaitersTold
  <1> QED
    BY <1>3, <1>4, <1>5, <1>6 DEF IInv

----------------------------------------------------------------------------
(* Processes and devices.                                                  *)

LEMMA StartIOIInv ==
    ASSUME IInv, NEW p \in Proc, NEW c \in Channel, StartIO(p, c)
    PROVE  /\ IInv'
           /\ asl' = [asl EXCEPT ![SemIndex(c)] = {p}]
           /\ asl[SemIndex(c)] = {}
  <1> DEFINE s == SemIndex(c)
  <1>1. /\ pending = {} /\ pending' = {} /\ ~Waits(p) /\ v0' = v0
        /\ status[c] = READY /\ status' = [status EXCEPT ![c] = BUSY]
        /\ c[1] = TERMINAL => status[OtherHalf(c)] = READY
        /\ deviceSema4s' = [deviceSema4s EXCEPT ![s] = @ - 1]
    BY DEF StartIO, Runs, Free
  <1>2. s \in 0..47 /\ \A d \in Channel : SemIndex(d) = s => d = c
    BY SemIndexInjective
  <1>3. ~Working(c) /\ deviceSema4s[s] = 0
    BY <1>1 DEF Working, READY, BUSY, IInv, SemaphoresTellActivity
  <1>4. deviceSema4s'[s] = -1
    BY <1>1, <1>2, <1>3 DEF IInv, TypeOK
  <1>5. asl[s] = {}
    <2>1. asl[s] # {} => \E d \in Channel : s = SemIndex(d) /\ Working(d)
      BY <1>2 DEF IInv, WaitersTold
    <2> QED
      BY <1>2, <1>3, <2>1
  <1>6. asl' = [asl EXCEPT ![s] = {p}] /\ softBlockCount' = softBlockCount + 1
    BY <1>4, <1>5 DEF StartIO, IInv, TypeOK
  <1>7. \A d \in Channel : status'[d] = IF d = c THEN BUSY ELSE status[d]
    BY <1>1, ChannelShape DEF IInv, TypeOK
  <1>8. SemaphoresTellActivity'
    <2>1. \A d \in Channel : SemIndex(d) \in 0..47
      BY SemIndexInjective
    <2>2. \A d \in Channel : deviceSema4s'[SemIndex(d)] =
             IF d = c THEN -1 ELSE deviceSema4s[SemIndex(d)]
      BY <1>1, <1>2, <1>4, <2>1 DEF IInv, TypeOK
    <2> QED
      BY <1>1, <1>7, <2>2 DEF IInv, SemaphoresTellActivity
  <1>9. \A d \in Channel : Working(d)' <=> d = c \/ Working(d)
    BY <1>1, <1>7 DEF Working
  <1>10. ChannelsTold'
    <2>1. c[1] = TERMINAL => OtherHalf(c) \in Channel /\ ~Working(OtherHalf(c))
      BY <1>1, HalvesAreChannels DEF Working, READY, BUSY
    <2>2. ASSUME NEW d \in Channel, d[1] = TERMINAL, Working(d)'
          PROVE  ~Working(OtherHalf(d))'
      BY <1>9, <2>1, <2>2, HalvesAreChannels DEF IInv, ChannelsTold
    <2>3. \A d \in Channel : status'[d] \in {READY, BUSY}
      BY <1>1, <1>7 DEF IInv, ChannelsTold
    <2> QED
      BY <1>1, <2>2, <2>3 DEF ChannelsTold
  <1>11. /\ \A q \in Proc : Waits(q)' <=> q = p \/ Waits(q)
         /\ \A t \in 0..47 : asl'[t] = IF t = s THEN {p} ELSE asl[t]
    BY <1>2, <1>5, <1>6 DEF Waits, IInv, TypeOK
  <1>12. WaitersTold' /\ softBlockCount' \in Nat
    <2> DEFINE W == {q \in Proc : Waits(q)}
               V1 == {q \in Proc : Waits(q)'}
    <2>1. V1 = W \cup {p} /\ p \notin W
      BY <1>1, <1>11
    <2>2. IsFiniteSet(W)
      BY ProcAssumption, FS_Subset
    <2>3. Cardinality(V1) = Cardinality(W) + 1 /\ Cardinality(W) \in Nat
      BY <2>1, <2>2, FS_AddElement, FS_CardinalityType
    <2>4. softBlockCount' = Cardinality(V1)
      BY <1>6, <2>3 DEF IInv, WaitersTold
    <2>5. \A t \in 0..47 : asl'[t] # {} => \E d \in Channel : t = SemIndex(d) /\ Working(d)'
      BY <1>9, <1>11 DEF IInv, WaitersTold
    <2>6. \A t \in 0..47 : p \notin asl[t]
      BY <1>1 DEF Waits
    <2>7. ASSUME NEW t \in 0..47, NEW x \in 0..47, asl'[t] \cap asl'[x] # {}
          PROVE  t = x
      <3>1. CASE t # s /\ x # s
        BY <1>11, <2>7, <3>1 DEF IInv, WaitersTold
      <3>2. CASE t = s /\ x # s
        BY <1>11, <2>6, <2>7, <3>2
      <3>3. CASE t # s /\ x = s
        BY <1>11, <2>6, <2>7, <3>3
      <3> QED
        BY <3>1, <3>2, <3>3
    <2>8. \A t \in 0..47 : \A q, r \in asl'[t] : q = r
      BY <1>11 DEF IInv, WaitersTold
    <2>9. softBlockCount' \in Nat
      BY <2>3, <2>4
    <2>10. WaitersTold'
      BY <2>4, <2>5, <2>7, <2>8 DEF WaitersTold
    <2> QED
      BY <2>9, <2>10
  <1>13. TypeOK'
    <2>1. status' \in [Register -> Status]
      BY <1>1 DEF IInv, TypeOK, Status
    <2>2. deviceSema4s' \in [0..47 -> Int]
      BY <1>1, <1>2 DEF IInv, TypeOK
    <2>3. asl' \in [0..47 -> SUBSET Proc]
      BY <1>6 DEF IInv, TypeOK
    <2> QED
      BY <1>1, <1>12, <2>1, <2>2, <2>3 DEF IInv, TypeOK
  <1> QED
    BY <1>5, <1>6, <1>8, <1>10, <1>12, <1>13 DEF IInv

\* One process less waits.
LEMMA OneLess ==
    ASSUME IInv, NEW p \in Proc, Waits(p),
           asl' = [t \in 0..47 |-> asl[t] \ {p}],
           softBlockCount' = softBlockCount - 1
    PROVE  /\ softBlockCount' = Cardinality({q \in Proc : Waits(q)'})
           /\ softBlockCount' \in Nat
  <1> DEFINE W == {q \in Proc : Waits(q)}
             V1 == {q \in Proc : Waits(q)'}
  <1>1. V1 = W \ {p} /\ p \in W
    BY DEF Waits
  <1>2. IsFiniteSet(W)
    BY ProcAssumption, FS_Subset
  <1>3. Cardinality(V1) = Cardinality(W) - 1 /\ Cardinality(V1) \in Nat
    BY <1>1, <1>2, FS_RemoveElement, FS_CardinalityType
  <1>4. softBlockCount = Cardinality(W)
    BY DEF IInv, WaitersTold
  <1> QED
    BY <1>3, <1>4

LEMMA KillIInv ==
    ASSUME IInv, NEW p \in Proc, Kill(p)
    PROVE  IInv'
  <1> USE DEF Kill
  <1>1. softBlockCount' = Cardinality({q \in Proc : Waits(q)'}) /\ softBlockCount' \in Nat
    BY OneLess
  <1>2. TypeOK'
    BY <1>1 DEF IInv, TypeOK
  <1>3. SemaphoresTellActivity' /\ ChannelsTold'
    BY DEF IInv, SemaphoresTellActivity, ChannelsTold, Working
  <1>4. \A t \in 0..47 : asl'[t] \subseteq asl[t]
    OBVIOUS
  <1>5. WaitersTold'
    <2>1. \A c \in Channel : Working(c)' <=> Working(c)
      BY DEF Working
    <2>2. \A t \in 0..47 : asl'[t] # {} => \E c \in Channel : t = SemIndex(c) /\ Working(c)'
      BY <1>4, <2>1 DEF IInv, WaitersTold
    <2>3. \A t \in 0..47 : \A q, r \in asl'[t] : q = r
      BY <1>4 DEF IInv, WaitersTold
    <2>4. \A t, x \in 0..47 : asl'[t] \cap asl'[x] # {} => t = x
      BY <1>4 DEF IInv, WaitersTold
    <2> QED
      BY <1>1, <2>2, <2>3, <2>4 DEF WaitersTold
  <1> QED
    BY <1>2, <1>3, <1>5 DEF IInv

LEMMA FinishIInv ==
    ASSUME IInv, NEW c \in Channel, Finish(c)
    PROVE  IInv'
  <1>1. /\ status[c] = BUSY /\ pending' = pending \cup {c}
        /\ UNCHANGED <<deviceSema4s, asl, softBlockCount, v0>>
    BY DEF Finish
  <1>2. PICK s \in Outcome(c) : status' = [status EXCEPT ![c] = s]
    BY DEF Finish
  <1>3. s \in Status /\ s # BUSY
    BY DEF Outcome, Status, READY, BUSY, FAILED, CHARRECV
  <1>4. \A d \in Channel : status'[d] = IF d = c THEN s ELSE status[d]
    BY <1>2, ChannelShape DEF IInv, TypeOK
  <1>5. TypeOK'
    BY <1>1, <1>2, <1>3 DEF IInv, TypeOK
  <1>6. \A d \in Channel : Working(d)' <=> Working(d)
    BY <1>1, <1>4 DEF Working
  <1>7. SemaphoresTellActivity'
    BY <1>1, <1>6 DEF IInv, SemaphoresTellActivity, Working
  <1>8. ChannelsTold'
    <2>1. \A d \in Channel : status'[d] \in IF d \in pending' THEN Outcome(d) ELSE {READY, BUSY}
      BY <1>1, <1>2, <1>4 DEF IInv, ChannelsTold
    <2>2. \A d \in Channel : d[1] = TERMINAL /\ Working(d)' => ~Working(OtherHalf(d))'
      BY <1>6, HalvesAreChannels DEF IInv, ChannelsTold
    <2> QED
      BY <2>1, <2>2 DEF ChannelsTold
  <1>9. WaitersTold'
    BY <1>1, <1>6 DEF IInv, WaitersTold, Waits
  <1> QED
    BY <1>5, <1>7, <1>8, <1>9 DEF IInv

----------------------------------------------------------------------------
(* The interrupt handler.                                                  *)

\* The register an interrupt is taken for is the one that interrupts.
LEMMA TakenForItself ==
    ASSUME IInv, NumbersKept, NEW c \in pending
    PROVE  <<c[1], DevNo(c[2]), HalfOf(c[1], DevNo(c[2]))>> = c
  <1>1. c \in Channel
    BY DEF IInv, TypeOK
  <1>2. /\ c = <<c[1], c[2], c[3]>> /\ c[3] \in {0, 1}
        /\ c[3] = 1 => c[1] = TERMINAL
        /\ <<c[1], c[2]>> \in Installed
    BY <1>1, ChannelShape
  <1>3. c[2] \notin {1, 2}
    BY <1>2 DEF NumbersKept
  <1>4. DevNo(c[2]) = c[2]
    BY <1>3 DEF DevNo
  <1>5. HalfOf(c[1], c[2]) = c[3]
    <2>1. CASE c[1] # TERMINAL
      BY <1>2, <2>1 DEF HalfOf
    <2>2. CASE c[1] = TERMINAL /\ c[3] = 0
      <3>1. status[c] # READY
        BY <1>1, <2>2 DEF IInv, ChannelsTold, Outcome, READY, CHARRECV, FAILED
      <3>2. c = <<c[1], c[2], 0>>
        BY <1>2, <2>2
      <3> QED
        BY <2>2, <3>1, <3>2 DEF HalfOf
    <2>3. CASE c[1] = TERMINAL /\ c[3] = 1
      <3>1. OtherHalf(c) \in Channel /\ OtherHalf(c) = <<c[1], c[2], 0>>
        BY <1>1, <2>3, HalvesAreChannels
      <3>2. ~Working(OtherHalf(c))
        BY <1>1, <2>3 DEF IInv, ChannelsTold, Working
      <3>3. status[OtherHalf(c)] = READY
        BY <3>1, <3>2 DEF IInv, ChannelsTold, Working
      <3> QED
        BY <2>3, <3>1, <3>3 DEF HalfOf
    <2> QED
      BY <1>2, <2>1, <2>2, <2>3
  <1> QED
    BY <1>2, <1>4, <1>5

LEMMA InterruptDelivers ==
    ASSUME IInv, NumbersKept, Interrupt
    PROVE  \E c \in pending : Ack(c) /\ V(SemIndex(c), status[c])
  <1>1. PICK d \in Interrupting : nonTimerInterrupt(d[1], d[2])
    BY DEF Interrupt
  <1>2. PICK c \in pending : d = <<c[1], c[2]>>
    BY DEF Interrupting
  <1>3. nonTimerInterrupt(c[1], c[2])
    BY <1>1, <1>2
  <1> QED
    BY <1>3, TakenForItself DEF nonTimerInterrupt

\* What an interrupt does: the one that waits, if any, gets the status of c.
LEMMA Delivery ==
    ASSUME IInv, NEW c \in pending, Ack(c), V(SemIndex(c), status[c])
    PROVE  /\ c \in Channel /\ SemIndex(c) \in 0..47
           /\ pending' = pending \ {c}
           /\ status' = [status EXCEPT ![c] = READY]
           /\ deviceSema4s' = [deviceSema4s EXCEPT ![SemIndex(c)] = 0]
           /\ \/ /\ asl[SemIndex(c)] = {}
                 /\ UNCHANGED <<asl, softBlockCount, v0>>
              \/ \E p \in Proc :
                    /\ asl[SemIndex(c)] = {p}
                    /\ asl' = [t \in 0..47 |-> asl[t] \ {p}]
                    /\ softBlockCount' = softBlockCount - 1
                    /\ v0' = [v0 EXCEPT ![p] = status[c]]
  <1> DEFINE s == SemIndex(c)
  <1>1. c \in Channel /\ c \in Register
    BY ChannelShape DEF IInv, TypeOK
  <1>2. s \in 0..47
    BY <1>1, SemIndexInjective
  <1>3. pending' = pending \ {c} /\ status' = [status EXCEPT ![c] = READY]
    BY <1>1 DEF Ack, IInv, TypeOK
  <1>4. deviceSema4s[s] = -1
    BY <1>1 DEF IInv, SemaphoresTellActivity
  <1>5. deviceSema4s' = [deviceSema4s EXCEPT ![s] = 0]
    BY <1>2, <1>4 DEF V, IInv, TypeOK
  <1>6. Wakes(s) <=> asl[s] # {}
    BY <1>4 DEF Wakes
  <1>7. CASE asl[s] = {}
    <2>1. Woken(s) = 0 /\ softBlockCount - 0 = softBlockCount
      BY <1>6, <1>7 DEF Woken, IInv, TypeOK
    <2>2. UNCHANGED <<asl, softBlockCount, v0>>
      BY <1>6, <1>7, <2>1 DEF V
    <2> QED
      BY <1>1, <1>2, <1>3, <1>5, <1>7, <2>2
  <1>8. CASE asl[s] # {}
    <2>1. PICK p \in asl[s] : /\ asl' = [asl EXCEPT ![s] = @ \ {p}]
                              /\ v0' = [v0 EXCEPT ![p] = status[c]]
      BY <1>6, <1>8 DEF V
    <2>2. p \in Proc /\ asl[s] = {p}
      <3>1. \A q \in asl[s] : q = p
        BY <1>2, <2>1 DEF IInv, WaitersTold
      <3>2. p \in Proc
        BY <1>2, <2>1 DEF IInv, TypeOK
      <3> QED
        BY <3>1, <3>2
    <2>3. \A t \in 0..47 : t # s => p \notin asl[t]
      BY <1>2, <2>1 DEF IInv, WaitersTold
    <2>4. asl' = [t \in 0..47 |-> asl[t] \ {p}]
      BY <1>2, <2>1, <2>3 DEF IInv, TypeOK
    <2>5. softBlockCount' = softBlockCount - 1
      BY <1>6, <1>8 DEF V, Woken
    <2> QED
      BY <1>1, <1>2, <1>3, <1>5, <2>1, <2>2, <2>4, <2>5
  <1> QED
    BY <1>7, <1>8

LEMMA InterruptIInv ==
    ASSUME IInv, NumbersKept, Interrupt
    PROVE  IInv'
  <1>1. PICK c \in pending : Ack(c) /\ V(SemIndex(c), status[c])
    BY InterruptDelivers
  <1> DEFINE s == SemIndex(c)
  <1>2. /\ c \in Channel /\ s \in 0..47
        /\ pending' = pending \ {c}
        /\ status' = [status EXCEPT ![c] = READY]
        /\ deviceSema4s' = [deviceSema4s EXCEPT ![s] = 0]
    BY <1>1, Delivery
  <1>3. \A d \in Channel : SemIndex(d) \in 0..47 /\ (SemIndex(d) = s => d = c)
    BY <1>2, SemIndexInjective
  <1>4. \A d \in Channel : status'[d] = IF d = c THEN READY ELSE status[d]
    BY <1>2, ChannelShape DEF IInv, TypeOK
  <1>5. \A d \in Channel : Working(d)' <=> d # c /\ Working(d)
    BY <1>2, <1>4 DEF Working, READY, BUSY
  <1>6. SemaphoresTellActivity'
    <2>1. \A d \in Channel : deviceSema4s'[SemIndex(d)] =
             IF d = c THEN 0 ELSE deviceSema4s[SemIndex(d)]
      BY <1>2, <1>3 DEF IInv, TypeOK
    <2> QED
      BY <1>5, <2>1 DEF IInv, SemaphoresTellActivity, Working
  <1>7. ChannelsTold'
    <2>1. \A d \in Channel : status'[d] \in IF d \in pending' THEN Outcome(d) ELSE {READY, BUSY}
      BY <1>2, <1>4 DEF IInv, ChannelsTold
    <2>2. \A d \in Channel : d[1] = TERMINAL /\ Working(d)' => ~Working(OtherHalf(d))'
      BY <1>5, HalvesAreChannels DEF IInv, ChannelsTold
    <2> QED
      BY <2>1, <2>2 DEF ChannelsTold
  <1>8. /\ softBlockCount' = Cardinality({q \in Proc : Waits(q)'})
        /\ softBlockCount' \in Nat
        /\ asl'[s] = {} /\ \A t \in 0..47 : asl'[t] \subseteq asl[t]
        /\ asl' \in [0..47 -> SUBSET Proc]
        /\ v0' \in [Proc -> Status \cup {NULL}]
    <2>1. CASE asl[s] = {} /\ UNCHANGED <<asl, softBlockCount, v0>>
      <3>1. \A q \in Proc : Waits(q)' <=> Waits(q)
        BY <2>1 DEF Waits
      <3> QED
        BY <2>1, <3>1 DEF IInv, TypeOK, WaitersTold
    <2>2. ASSUME NEW p \in Proc, asl[s] = {p},
                 asl' = [t \in 0..47 |-> asl[t] \ {p}],
                 softBlockCount' = softBlockCount - 1,
                 v0' = [v0 EXCEPT ![p] = status[c]]
          PROVE  /\ softBlockCount' = Cardinality({q \in Proc : Waits(q)'})
                 /\ softBlockCount' \in Nat
                 /\ asl'[s] = {} /\ \A t \in 0..47 : asl'[t] \subseteq asl[t]
                 /\ asl' \in [0..47 -> SUBSET Proc]
                 /\ v0' \in [Proc -> Status \cup {NULL}]
      <3>1. Waits(p)
        BY <1>2, <2>2 DEF Waits
      <3>2. softBlockCount' = Cardinality({q \in Proc : Waits(q)'}) /\ softBlockCount' \in Nat
        BY <2>2, <3>1, OneLess
      <3>3. status[c] \in Status
        BY <1>2, ChannelShape DEF IInv, TypeOK
      <3>4. asl'[s] = {} /\ \A t \in 0..47 : asl'[t] \subseteq asl[t]
        BY <1>2, <2>2
      <3> QED
        BY <2>2, <3>2, <3>3, <3>4 DEF IInv, TypeOK
    <2> QED
      BY <1>1, <2>1, <2>2, Delivery
  <1>9. TypeOK'
    <2>1. status' \in [Register -> Status]
      BY <1>2 DEF IInv, TypeOK, Status
    <2>2. deviceSema4s' \in [0..47 -> Int]
      <3>1. 0 \in Int
        OBVIOUS
      <3> QED
        BY <1>2, <3>1 DEF IInv, TypeOK
    <2> QED
      BY <1>2, <1>8, <2>1, <2>2 DEF IInv, TypeOK
  <1>10. WaitersTold'
    <2>1. ASSUME NEW t \in 0..47, asl'[t] # {}
          PROVE  \E d \in Channel : t = SemIndex(d) /\ Working(d)'
      <3>1. t # s /\ asl[t] # {}
        BY <1>8, <2>1
      <3> QED
        BY <1>5, <3>1 DEF IInv, WaitersTold
    <2>2. \A t \in 0..47 : asl'[t] \subseteq asl[t]
      BY <1>8
    <2>3. \A t \in 0..47 : \A q, r \in asl'[t] : q = r
      <3>1. \A t \in 0..47 : \A q, r \in asl[t] : q = r
        BY DEF IInv, WaitersTold
      <3> QED
        BY <2>2, <3>1
    <2>4. \A t, x \in 0..47 : asl'[t] \cap asl'[x] # {} => t = x
      <3>1. \A t, x \in 0..47 : asl[t] \cap asl[x] # {} => t = x
        BY DEF IInv, WaitersTold
      <3>2. \A t, x \in 0..47 : asl'[t] \cap asl'[x] \subseteq asl[t] \cap asl[x]
        BY <2>2
      <3> QED
        BY <3>1, <3>2
    <2> QED
      BY <1>8, <2>1, <2>3, <2>4 DEF WaitersTold
  <1> QED
    BY <1>6, <1>7, <1>9, <1>10 DEF IInv

LEMMA NextIInv ==
    ASSUME NumbersKept
    PROVE  IInv /\ [Next]_vars => IInv'
  <1> SUFFICES ASSUME IInv, [Next]_vars PROVE IInv'
    OBVIOUS
  <1>1. ASSUME NEW p \in Proc, NEW c \in Channel, StartIO(p, c) PROVE IInv'
    BY <1>1, StartIOIInv
  <1>2. ASSUME NEW p \in Proc, Kill(p) PROVE IInv'
    BY <1>2, KillIInv
  <1>3. ASSUME NEW c \in Channel, Finish(c) PROVE IInv'
    BY <1>3, FinishIInv
  <1>4. CASE Interrupt
    BY <1>4, InterruptIInv
  <1>5. CASE UNCHANGED vars
    BY <1>5 DEF vars, IInv, TypeOK, SemaphoresTellActivity, ChannelsTold, WaitersTold,
                Working, Waits
  <1> QED
    BY <1>1, <1>2, <1>3, <1>4, <1>5 DEF Next

----------------------------------------------------------------------------
(* Theorems.                                                               *)

\* The invariant holds in every state, whatever processes and devices there are.
THEOREM DeviceInvariance == NumbersKept => (Spec => []IInv)
  <1> SUFFICES ASSUME NumbersKept PROVE Spec => []IInv
    OBVIOUS
  <1>1. IInv /\ [Next]_vars => IInv'
    BY NextIInv
  <1> QED
    BY <1>1, InitIInv, PTL DEF Spec

\* softBlockCount never goes below zero, and v0 is always a status.
THEOREM DeviceTypeCorrect == NumbersKept => (Spec => []TypeOK)
  <1>1. IInv => TypeOK
    BY DEF IInv
  <1> QED
    BY <1>1, DeviceInvariance, PTL

\* A device semaphore is -1 from the command to the ACK, also when the process
\* that gave the command is killed, and 0 otherwise: every SYS5 blocks.
THEOREM SemaphoresTell == NumbersKept => (Spec => []SemaphoresTellActivity)
  <1>1. IInv => SemaphoresTellActivity
    BY DEF IInv
  <1> QED
    BY <1>1, DeviceInvariance, PTL

----------------------------------------------------------------------------
(* The refinement.                                                         *)

\* Who waits has asked for the channel it waits for, and nobody else has asked.
AskedTold ==
    /\ \A p \in Proc, c \in Channel : Asked(p) = c <=> p \in asl[SemIndex(c)]
    /\ \A p \in Proc : ~Waits(p) => Asked(p) = NULL
    /\ \A p \in Proc : Asked(p) \in Channel \cup {NULL}

LEMMA AskedIs == IInv => AskedTold
  <1> SUFFICES ASSUME IInv PROVE AskedTold
    OBVIOUS
  <1>1. ASSUME NEW p \in Proc, NEW c \in Channel, p \in asl[SemIndex(c)]
        PROVE  Asked(p) = c
    <2>1. \A d \in Channel : p \in asl[SemIndex(d)] => d = c
      BY <1>1, SemIndexInjective DEF IInv, WaitersTold
    <2> QED
      BY <1>1, <2>1 DEF Asked
  <1>2. ASSUME NEW p \in Proc, ~ \E c \in Channel : p \in asl[SemIndex(c)]
        PROVE  Asked(p) = NULL
    BY <1>2 DEF Asked
  <1>3. \A p \in Proc : ~Waits(p) => ~ \E c \in Channel : p \in asl[SemIndex(c)]
    BY SemIndexInjective DEF Waits
  <1> QED
    BY <1>1, <1>2, <1>3, NullAssumption DEF AskedTold

LEMMA InitRefines == Init => Promise!RInit
  <1> SUFFICES ASSUME Init PROVE Promise!RInit
    OBVIOUS
  <1>1. \A p \in Proc : Asked(p) = NULL
    BY InitIInv, AskedIs DEF Init, AskedTold, Waits
  <1>2. \A c \in Channel : OutcomeOf(c) = "idle"
    BY ChannelShape DEF Init, OutcomeOf, READY, BUSY
  <1> QED
    BY <1>1, <1>2 DEF Promise!RInit, Init

LEMMA StepRefines ==
    ASSUME IInv, AskedTold, AskedTold', NumbersKept, [Next]_vars
    PROVE  [Promise!RNext]_(Promise!rvars)
  <1>1. ASSUME NEW p \in Proc, NEW c \in Channel, StartIO(p, c)
        PROVE  Promise!Ask(p, c)
    <2>1. /\ asl' = [asl EXCEPT ![SemIndex(c)] = {p}] /\ asl[SemIndex(c)] = {}
          /\ pending = {} /\ pending' = {} /\ ~Waits(p) /\ v0' = v0
          /\ status[c] = READY /\ status' = [status EXCEPT ![c] = BUSY]
      BY <1>1, StartIOIInv DEF StartIO, Runs, Free
    <2>2. \A d \in Channel : asl'[SemIndex(d)] = IF d = c THEN {p} ELSE asl[SemIndex(d)]
      BY <2>1, SemIndexInjective DEF IInv, TypeOK
    <2>3. \A q \in Proc : Asked(q)' = IF q = p THEN c ELSE Asked(q)
      BY <2>1, <2>2 DEF AskedTold
    <2>4. \A d \in Channel : OutcomeOf(d)' = IF d = c THEN "busy" ELSE OutcomeOf(d)
      BY <2>1, ChannelShape DEF OutcomeOf, IInv, TypeOK
    <2>5. Asked(p) = NULL /\ OutcomeOf(c) = "idle"
      BY <2>1 DEF AskedTold, OutcomeOf, READY, BUSY
    <2> QED
      BY <2>1, <2>3, <2>4, <2>5 DEF Promise!Ask
  <1>2. ASSUME NEW p \in Proc, Kill(p)
        PROVE  Promise!GiveUp(p)
    <2>1. /\ asl' = [t \in 0..47 |-> asl[t] \ {p}] /\ UNCHANGED <<status, pending>>
          /\ v0' = [v0 EXCEPT ![p] = NULL]
      BY <1>2 DEF Kill
    <2>2. \A q \in Proc, d \in Channel :
             q \in asl'[SemIndex(d)] <=> q # p /\ q \in asl[SemIndex(d)]
      BY <2>1, SemIndexInjective
    <2>3. \A q \in Proc : Asked(q)' = IF q = p THEN NULL ELSE Asked(q)
      <3>1. Asked(p)' = NULL
        BY <2>2 DEF AskedTold
      <3>2. \A q \in Proc : q # p => Asked(q)' = Asked(q)
        BY <2>2 DEF AskedTold
      <3> QED
        BY <3>1, <3>2
    <2>4. \A d \in Channel : OutcomeOf(d)' = OutcomeOf(d)
      BY <2>1 DEF OutcomeOf
    <2> QED
      BY <2>1, <2>3, <2>4 DEF Promise!GiveUp
  <1>3. ASSUME NEW c \in Channel, Finish(c)
        PROVE  \E s \in UNION {Outcome(d) : d \in Channel} : Promise!End(c, s)
    <2>1. /\ status[c] = BUSY /\ pending' = pending \cup {c} /\ UNCHANGED <<asl, v0>>
      BY <1>3 DEF Finish
    <2>2. PICK s \in Outcome(c) : status' = [status EXCEPT ![c] = s]
      BY <1>3 DEF Finish
    <2>3. s \in UNION {Outcome(d) : d \in Channel}
      OBVIOUS
    <2>4. \A q \in Proc : Asked(q)' = Asked(q)
      BY <2>1 DEF AskedTold
    <2>5. \A d \in Channel : OutcomeOf(d)' = IF d = c THEN s ELSE OutcomeOf(d)
      BY <2>1, <2>2, ChannelShape DEF OutcomeOf, IInv, TypeOK
    <2>6. c \notin pending
      BY <2>1 DEF IInv, ChannelsTold, Outcome, READY, BUSY, FAILED, CHARRECV
    <2>7. OutcomeOf(c) = "busy"
      BY <2>1, <2>6 DEF OutcomeOf
    <2> QED
      BY <2>1, <2>3, <2>4, <2>5, <2>7 DEF Promise!End
  <1>4. ASSUME Interrupt
        PROVE  \E c \in Channel : Promise!Deliver(c)
    <2>1. PICK c \in pending : Ack(c) /\ V(SemIndex(c), status[c])
      BY <1>4, InterruptDelivers
    <2> DEFINE s == SemIndex(c)
    <2>2. /\ c \in Channel /\ s \in 0..47 /\ pending' = pending \ {c}
          /\ status' = [status EXCEPT ![c] = READY]
      BY <2>1, Delivery
    <2>3. \A d \in Channel : OutcomeOf(d)' = IF d = c THEN "idle" ELSE OutcomeOf(d)
      BY <2>2, ChannelShape DEF OutcomeOf, IInv, TypeOK, READY, BUSY
    <2>4. OutcomeOf(c) = status[c] /\ status[c] \in UNION {Outcome(d) : d \in Channel}
      BY <2>1, <2>2 DEF OutcomeOf, IInv, ChannelsTold
    <2>5. \A q \in Proc : Asked(q) = c <=> q \in asl[s]
      BY <2>2 DEF AskedTold
    <2>6. /\ \A q \in Proc : Asked(q)' = IF Asked(q) = c THEN NULL ELSE Asked(q)
          /\ v0' = [q \in Proc |-> IF Asked(q) = c THEN OutcomeOf(c) ELSE v0[q]]
      <3>1. CASE asl[s] = {} /\ UNCHANGED <<asl, v0>>
        BY <2>5, <3>1 DEF AskedTold, IInv, TypeOK
      <3>2. ASSUME NEW p \in Proc, asl[s] = {p},
                   asl' = [t \in 0..47 |-> asl[t] \ {p}],
                   v0' = [v0 EXCEPT ![p] = status[c]]
            PROVE  /\ \A q \in Proc : Asked(q)' = IF Asked(q) = c THEN NULL ELSE Asked(q)
                   /\ v0' = [q \in Proc |-> IF Asked(q) = c THEN OutcomeOf(c) ELSE v0[q]]
        <4>1. \A q \in Proc : Asked(q) = c <=> q = p
          BY <2>5, <3>2
        <4>2. \A q \in Proc, d \in Channel :
                 q \in asl'[SemIndex(d)] <=> q # p /\ q \in asl[SemIndex(d)]
          BY <3>2, SemIndexInjective
        <4>3. Asked(p)' = NULL
          BY <4>2 DEF AskedTold
        <4>4. \A q \in Proc : q # p => Asked(q)' = Asked(q)
          BY <4>2 DEF AskedTold
        <4>5. v0' = [q \in Proc |-> IF Asked(q) = c THEN OutcomeOf(c) ELSE v0[q]]
          BY <2>4, <3>2, <4>1 DEF IInv, TypeOK
        <4> QED
          BY <4>1, <4>3, <4>4, <4>5
      <3> QED
        BY <2>1, <3>1, <3>2, Delivery
    <2> QED
      BY <2>2, <2>3, <2>4, <2>6 DEF Promise!Deliver
  <1>5. CASE UNCHANGED vars
    BY <1>5 DEF vars, Promise!rvars, Asked, OutcomeOf
  <1> QED
    BY <1>1, <1>2, <1>3, <1>4, <1>5 DEF Next, Promise!RNext

\* Whoever waits for a device is given the status its own operation ended with, and
\* nobody else is: nonTimerInterrupt and waitForDevice implement Requests.
THEOREM RequestsAnswered == NumbersKept => (Spec => ImplementsRequests)
  <1> SUFFICES ASSUME NumbersKept PROVE Spec => ImplementsRequests
    OBVIOUS
  <1>1. IInv /\ AskedTold /\ AskedTold' /\ [Next]_vars => [Promise!RNext]_(Promise!rvars)
    BY StepRefines
  <1> QED
    BY <1>1, InitRefines, AskedIs, DeviceInvariance, PTL
       DEF Spec, ImplementsRequests, Promise!RSpec

----------------------------------------------------------------------------
(* Interrupts end, and those who wait are answered.                        *)

BusyOnes == {c \in Channel : status[c] = BUSY}

\* What the devices can still do while nobody gets to run: an operation ends and
\* is then taken.
WorkLeft == 2 * Cardinality(BusyOnes) + Cardinality(pending)

WorkBounded == WorkLeft \in 0..(2 * Cardinality(Channel))

\* While interrupts are pending, every step there is leaves less of it.
InterruptsEnd == [][pending # {} => WorkLeft' = WorkLeft - 1]_vars

\* Who waits for c goes on waiting for c, while it works and then interrupts, until
\* it waits no more.
WaitsHold ==
    [][\A c \in Channel : \A p \in asl[SemIndex(c)] :
          /\ Working(c)
          /\ \/ ~Waits(p)'
             \/ /\ p \in asl'[SemIndex(c)]
                /\ IF c \in pending THEN c \in pending'
                   ELSE status'[c] = BUSY \/ c \in pending']_vars

LEMMA WorkFinite ==
    ASSUME IInv
    PROVE  /\ IsFiniteSet(Channel) /\ Cardinality(Channel) \in Nat
           /\ IsFiniteSet(BusyOnes) /\ Cardinality(BusyOnes) \in Nat
           /\ IsFiniteSet(pending) /\ Cardinality(pending) \in Nat
           /\ BusyOnes \cap pending = {}
           /\ WorkLeft <= 2 * Cardinality(Channel)
  <1>1. IsFiniteSet(Channel)
    <2>0. \A m, n \in Int : IsFiniteSet(m..n)
      BY FS_Interval
    <2>1. IsFiniteSet(3..7) /\ IsFiniteSet(0..7) /\ IsFiniteSet(0..1)
      <3>1. 0 \in Int /\ 1 \in Int /\ 3 \in Int /\ 7 \in Int
        OBVIOUS
      <3> QED
        BY <2>0, <3>1, Zenon
    <2>2. IsFiniteSet((3..7) \X ((0..7) \X (0..1)))
      BY <2>1, FS_Product
    <2> DEFINE pair(c) == <<c[1], <<c[2], c[3]>>>>
    <2>3. \A c \in Channel : pair(c) \in (3..7) \X ((0..7) \X (0..1))
      <3>1. \A c \in Channel : c[1] \in 3..7 /\ c[2] \in 0..7 /\ c[3] \in 0..1
        <4>1. 0..1 = {0, 1}
          OBVIOUS
        <4> QED
          BY <4>1, ChannelShape
      <3> QED
        BY <3>1
    <2>4. \A c, d \in Channel : pair(c) = pair(d) => c = d
      BY ChannelShape
    <2>5. [c \in Channel |-> pair(c)] \in
             Injection(Channel, (3..7) \X ((0..7) \X (0..1)))
      BY <2>3, <2>4 DEF Injection, IsInjective
    <2> QED
      BY <2>2, <2>5, FS_Injection
  <1>2. pending \subseteq Channel /\ BusyOnes \subseteq Channel
    BY DEF IInv, TypeOK, BusyOnes
  <1>3. BusyOnes \cap pending = {}
    BY <1>2 DEF IInv, ChannelsTold, BusyOnes, Outcome, READY, BUSY, FAILED, CHARRECV
  <1>4. /\ IsFiniteSet(BusyOnes) /\ IsFiniteSet(pending)
        /\ Cardinality(Channel) \in Nat /\ Cardinality(BusyOnes) \in Nat
        /\ Cardinality(pending) \in Nat
    BY <1>1, <1>2, FS_Subset, FS_CardinalityType
  <1>5. Cardinality(BusyOnes) + Cardinality(pending) <= Cardinality(Channel)
    <2>1. Cardinality(BusyOnes \cup pending) =
             Cardinality(BusyOnes) + Cardinality(pending) - Cardinality(BusyOnes \cap pending)
      BY <1>4, FS_Union
    <2>2. Cardinality(BusyOnes \cap pending) = 0
      BY <1>3, FS_EmptySet
    <2>3. Cardinality(BusyOnes \cup pending) <= Cardinality(Channel)
      BY <1>1, <1>2, FS_Subset
    <2> QED
      BY <1>4, <2>1, <2>2, <2>3
  <1>6. WorkLeft <= 2 * Cardinality(Channel)
    BY <1>4, <1>5 DEF WorkLeft
  <1> QED
    BY <1>1, <1>3, <1>4, <1>6

LEMMA FinishShortens ==
    ASSUME IInv, NEW c \in Channel, Finish(c)
    PROVE  WorkLeft' = WorkLeft - 1
  <1>1. /\ status[c] = BUSY /\ pending' = pending \cup {c}
        /\ c \in BusyOnes /\ c \notin pending
    BY WorkFinite DEF Finish, BusyOnes
  <1>2. PICK s \in Outcome(c) : status' = [status EXCEPT ![c] = s]
    BY DEF Finish
  <1>3. BusyOnes' = BusyOnes \ {c}
    <2>1. s # BUSY
      BY DEF Outcome, READY, BUSY, FAILED, CHARRECV
    <2>2. \A d \in Channel : status'[d] = IF d = c THEN s ELSE status[d]
      BY <1>2, ChannelShape DEF IInv, TypeOK
    <2> QED
      BY <2>1, <2>2 DEF BusyOnes
  <1>4. Cardinality(BusyOnes') = Cardinality(BusyOnes) - 1
    BY <1>1, <1>3, WorkFinite, FS_RemoveElement
  <1>5. Cardinality(pending') = Cardinality(pending) + 1
    BY <1>1, WorkFinite, FS_AddElement
  <1> QED
    BY <1>4, <1>5, WorkFinite DEF WorkLeft

LEMMA InterruptShortens ==
    ASSUME IInv, NumbersKept, Interrupt
    PROVE  WorkLeft' = WorkLeft - 1
  <1>1. PICK c \in pending : Ack(c) /\ V(SemIndex(c), status[c])
    BY InterruptDelivers
  <1>2. /\ c \in Channel /\ pending' = pending \ {c}
        /\ status' = [status EXCEPT ![c] = READY]
    BY <1>1, Delivery
  <1>3. BusyOnes' = BusyOnes
    <2>1. c \notin BusyOnes
      BY WorkFinite
    <2>2. \A d \in Channel : status'[d] = IF d = c THEN READY ELSE status[d]
      BY <1>2, ChannelShape DEF IInv, TypeOK
    <2> QED
      BY <2>1, <2>2 DEF BusyOnes, READY, BUSY
  <1>4. Cardinality(pending') = Cardinality(pending) - 1
    BY <1>2, WorkFinite, FS_RemoveElement
  <1> QED
    BY <1>3, <1>4, WorkFinite DEF WorkLeft

\* Every interrupt that is handled is one less pending, as the comment of
\* nonTimerInterrupt means it, where no device has a number it exchanges.
THEOREM InterruptsTaken == NumbersKept => (Spec => InterruptsAreTaken)
  <1> SUFFICES ASSUME NumbersKept PROVE Spec => InterruptsAreTaken
    OBVIOUS
  <1>1. ASSUME IInv, Interrupt PROVE pending' # pending
    <2>1. PICK c \in pending : Ack(c)
      BY <1>1, InterruptDelivers
    <2> QED
      BY <2>1 DEF Ack
  <1>2. IInv /\ [Next]_vars => [Interrupt => pending' # pending]_vars
    BY <1>1
  <1> QED
    BY <1>2, DeviceInvariance, PTL DEF Spec, InterruptsAreTaken

\* However many devices interrupt at once or end while others are served, after at
\* most twice as many steps as there are channels none is pending and a process
\* runs; and nobody is passed over meanwhile.  That is what Answered needs besides
\* fairness: interruptHandler, which takes one device and returns.
THEOREM AnswersCome ==
    NumbersKept => (Spec => []WorkBounded /\ InterruptsEnd /\ WaitsHold)
  <1> SUFFICES ASSUME NumbersKept
               PROVE  Spec => []WorkBounded /\ InterruptsEnd /\ WaitsHold
    OBVIOUS
  <1>1. IInv => WorkBounded
    BY WorkFinite DEF WorkBounded, WorkLeft
  <1>2. ASSUME IInv, Next, pending # {} PROVE WorkLeft' = WorkLeft - 1
    <2>1. ASSUME NEW p \in Proc, NEW c \in Channel, StartIO(p, c) \/ Kill(p) PROVE FALSE
      BY <1>2, <2>1 DEF StartIO, Runs, Kill
    <2>2. ASSUME NEW p \in Proc, Kill(p) PROVE FALSE
      BY <1>2, <2>2 DEF Kill
    <2> QED
      BY <1>2, <2>1, <2>2, FinishShortens, InterruptShortens DEF Next
  <1>3. ASSUME IInv, Next, NEW c \in Channel, NEW p \in asl[SemIndex(c)]
        PROVE  /\ Working(c)
               /\ \/ ~Waits(p)'
                  \/ /\ p \in asl'[SemIndex(c)]
                     /\ IF c \in pending THEN c \in pending'
                        ELSE status'[c] = BUSY \/ c \in pending'
    <2> DEFINE s == SemIndex(c)
               Held == /\ p \in asl'[s]
                       /\ IF c \in pending THEN c \in pending'
                          ELSE status'[c] = BUSY \/ c \in pending'
    <2>0. s \in 0..47 /\ \A d \in Channel : SemIndex(d) \in 0..47 /\ (SemIndex(d) = s => d = c)
      BY SemIndexInjective
    <2>1. Working(c)
      <3>1. PICK d \in Channel : s = SemIndex(d) /\ Working(d)
        BY <1>3, <2>0 DEF IInv, WaitersTold
      <3> QED
        BY <2>0, <3>1
    <2>2. ASSUME NEW q \in Proc, NEW d \in Channel, StartIO(q, d)
          PROVE  Held
      <3>1. /\ pending = {} /\ d # c
            /\ status' = [status EXCEPT ![d] = BUSY]
            /\ asl' = [asl EXCEPT ![SemIndex(d)] = {q}]
        BY <1>3, <2>1, <2>2, StartIOIInv DEF StartIO, Runs, Free, Working, READY, BUSY
      <3>2. asl'[s] = asl[s] /\ status'[c] = status[c]
        BY <1>3, <2>0, <3>1, ChannelShape DEF IInv, TypeOK
      <3> QED
        BY <2>1, <3>1, <3>2 DEF Working
    <2>3. ASSUME NEW q \in Proc, Kill(q)
          PROVE  ~Waits(p)' \/ Held
      <3>1. /\ asl' = [t \in 0..47 |-> asl[t] \ {q}]
            /\ UNCHANGED <<status, pending>>
        BY <2>3 DEF Kill
      <3>2. CASE p = q
        BY <3>1, <3>2 DEF Waits
      <3>3. CASE p # q
        BY <2>0, <2>1, <3>1, <3>3 DEF Working
      <3> QED
        BY <3>2, <3>3
    <2>4. ASSUME NEW d \in Channel, Finish(d)
          PROVE  Held
      <3>1. asl' = asl /\ pending' = pending \cup {d}
        BY <2>4 DEF Finish
      <3>2. d # c => status'[c] = status[c]
        BY <1>3, <2>4, ChannelShape DEF Finish, IInv, TypeOK
      <3> QED
        BY <2>1, <3>1, <3>2 DEF Working
    <2>5. CASE Interrupt
      <3>1. PICK d \in pending : Ack(d) /\ V(SemIndex(d), status[d])
        BY <1>3, <2>5, InterruptDelivers
      <3>2. /\ d \in Channel /\ SemIndex(d) \in 0..47 /\ pending' = pending \ {d}
            /\ status' = [status EXCEPT ![d] = READY]
        BY <1>3, <3>1, Delivery
      <3>3. CASE d = c
        <4>1. PICK q \in Proc : asl[s] = {q} /\ asl' = [t \in 0..47 |-> asl[t] \ {q}]
          BY <1>3, <3>1, <3>3, Delivery
        <4> QED
          BY <1>3, <2>1, <4>1 DEF Waits
      <3>4. CASE d # c
        <4>1. status'[c] = status[c]
          BY <1>3, <3>2, <3>4, ChannelShape DEF IInv, TypeOK
        <4>2. p \notin asl[SemIndex(d)]
          BY <1>3, <2>0, <3>2, <3>4 DEF IInv, WaitersTold
        <4>3. p \in asl'[s]
          <5>1. CASE UNCHANGED asl
            BY <5>1
          <5>2. ASSUME NEW q \in Proc, asl[SemIndex(d)] = {q},
                       asl' = [t \in 0..47 |-> asl[t] \ {q}]
                PROVE  p \in asl'[s]
            BY <2>0, <4>2, <5>2
          <5> QED
            BY <1>3, <3>1, <5>1, <5>2, Delivery
        <4> QED
          BY <2>1, <3>2, <3>4, <4>1, <4>3 DEF Working
      <3> QED
        BY <3>3, <3>4
    <2> QED
      BY <1>3, <2>1, <2>2, <2>3, <2>4, <2>5 DEF Next
  <1>4. IInv /\ [Next]_vars => [pending # {} => WorkLeft' = WorkLeft - 1]_vars
    BY <1>2
  <1>5. IInv /\ [Next]_vars =>
          [\A c \in Channel : \A p \in asl[SemIndex(c)] :
              /\ Working(c)
              /\ \/ ~Waits(p)'
                 \/ /\ p \in asl'[SemIndex(c)]
                    /\ IF c \in pending THEN c \in pending'
                       ELSE status'[c] = BUSY \/ c \in pending']_vars
    BY <1>3
  <1> QED
    BY <1>1, <1>4, <1>5, DeviceInvariance, PTL DEF Spec, InterruptsEnd, WaitsHold

=============================================================================
