--------------------------- MODULE SupportProofs ---------------------------
(***************************************************************************)
(* Proofs about Support, for any number of U-procs, pages, frames and TLB  *)
(* entries: that U-procs run one after the other, which is why the pager   *)
(* may invalidate an entry long before it clears the TLB, and that a page  *)
(* fault and the wait of test() come to an end.                            *)
(***************************************************************************)
EXTENDS Support, FiniteSetTheorems, TLAPS

----------------------------------------------------------------------------
(* The inductive invariant.                                                *)

Gone == {"die", "dead"}
Idle == {"none"} \cup Gone

\* test() is at U-proc i: those before it have done their V, those after it are
\* not there yet; procSem is the V it has not waited for, or its P.
OneAfterTheOther ==
    /\ test \in {"end", "dead"} <=> i = UPROCMAX + 1
    /\ \A u \in UProc : u > i => pc[u] = "none"
    /\ \A u \in UProc : u < i => pc[u] \in Gone
    /\ \A u \in UProc : u = i => (pc[u] = "none" <=> test = "create")
    /\ \A u \in UProc : u = i /\ test = "blocked" => pc[u] \notin Gone
    /\ procSem = IF test = "blocked" THEN -1
                 ELSE IF \E u \in UProc : u = i /\ pc[u] \in Gone THEN 1 ELSE 0

\* The mutexes of a U-proc: readTerminal gets one of them up to 2, and the other
\* down for ever.
MutexesTold ==
    \A u \in UProc :
        /\ devMutex[Mutex(u)] \in -1..1
        /\ devMutex[Mutex(u) + 8] \in 1..2
        /\ devMutex[Mutex(u) + 8] = 2 => devMutex[Mutex(u)] <= 0
        /\ devMutex[Mutex(u)] = -1 => pc[u] \in {"mutexwait", "dead"}

\* swapSem is 0 while a U-proc is in the pager, and nobody waits for it.
OwnerTold ==
    /\ \A u \in UProc : pc[u] # "swapwait"
    /\ \A u \in UProc : InPager(u) => swapSem = 0
    /\ (\A u \in UProc : ~InPager(u)) => swapSem = 1

Transfer == {"writing", "reading"}

\* The page in a frame is valid, unless it is being replaced, and then nobody
\* has the frame.
FramesTold ==
    /\ \A f \in Frame :
          swapPool[f][1] # NONE =>
             \/ pgTbl[swapPool[f][1]][swapPool[f][2]] = f
             \/ \E u \in UProc : pc[u] \in Transfer /\ victim[u] = f
    /\ \A u \in UProc : pc[u] \in Transfer =>
          \A v \in UProc, p \in Page : pgTbl[v][p] # victim[u]
    /\ \A u \in UProc : pc[u] \in Pager \ {"loaded"} => pgTbl[u][missing[u]] = NONE

\* Entries are made by a U-proc that runs; until it replaces a page they are
\* copies of its page table.
EntriesTold ==
    /\ \A e \in tlb : e.asid \in UProc => pc[e.asid] # "none"
    /\ \A u \in UProc, e \in tlb :
          pc[u] \in {"user", "fault", "swap", "loaded"} /\ e.asid = u
              => e.lo = pgTbl[u][e.page]

IInv ==
    /\ TypeOK
    /\ OneAfterTheOther
    /\ MutexesTold
    /\ OwnerTold
    /\ PoolAgrees
    /\ FramesTold
    /\ EntriesTold

----------------------------------------------------------------------------
(* Facts about states in which the invariant holds.                        *)

\* A U-proc that is somewhere is the one test() waits for, and the only one.
LEMMA OnlyOne ==
    ASSUME IInv, NEW u \in UProc, pc[u] \notin Idle
    PROVE  /\ u = i
           /\ \A v \in UProc : v # u => pc[v] \in Idle
           /\ test \in {"wait", "blocked"}
           /\ procSem = IF test = "blocked" THEN -1 ELSE 0
  <1> USE DEF IInv, OneAfterTheOther, Idle, Gone, UProc
  <1>1. UPROCMAX \in Nat /\ i \in Nat
    BY SupportAssumption DEF TypeOK
  <1>2. u = i
    BY <1>1
  <1>3. \A v \in UProc : v # u => v < i \/ v > i
    BY <1>1, <1>2
  <1>4. i # UPROCMAX + 1
    BY <1>1, <1>2
  <1>5. test \in {"wait", "blocked"}
    BY <1>2, <1>4 DEF TypeOK
  <1> QED
    BY <1>2, <1>3, <1>5

\* The next victim is a frame.
LEMMA VictimIsFrame ==
    ASSUME next \in Frame
    PROVE  pickVictim \in Frame
  <1>1. POOLSIZE \in Nat \ {0} /\ next \in Nat
    BY SupportAssumption DEF Frame
  <1>2. (next + 1) % POOLSIZE \in 0..(POOLSIZE - 1)
    BY <1>1
  <1> QED
    BY <1>2 DEF pickVictim, Frame

LEMMA InitIInv == Init => IInv
  <1> SUFFICES ASSUME Init PROVE IInv
    OBVIOUS
  <1> USE DEF Init
  <1>0. /\ UPROCMAX \in 1..8 /\ PGMAX \in Nat \ {0}
        /\ POOLSIZE \in Nat \ {0} /\ TLBSIZE \in Nat \ {0}
    BY SupportAssumption
  <1>1. TypeOK
    <2>1. /\ test \in {"create", "wait", "blocked", "end", "dead"}
          /\ procSem \in -1..1
      OBVIOUS
    <2>2. i \in 1..(UPROCMAX + 1) /\ swapSem \in (1 - UPROCMAX)..1
      BY <1>0
    <2>3. 0 \in Frame /\ 0 \in Page
      BY <1>0 DEF Frame, Page
    <2>4. pc \in [UProc -> Place]
      BY DEF Place
    <2>5. devMutex \in [Mutexes -> -1..2]
      OBVIOUS
    <2>6. missing \in [UProc -> Page] /\ victim \in [UProc -> Frame] /\ next \in Frame
      BY <2>3
    <2>7. swapPool \in [Frame -> (UProc \cup {NONE}) \X Page]
      BY <2>3
    <2>8. pgTbl \in [UProc -> [Page -> Frame \cup {NONE}]]
      OBVIOUS
    <2>9. tlb \subseteq [asid : 0..UPROCMAX, page : Page, lo : Frame \cup {NONE}]
      OBVIOUS
    <2> QED
      BY <2>1, <2>2, <2>4, <2>5, <2>6, <2>7, <2>8, <2>9 DEF TypeOK
  <1>2. OneAfterTheOther
    BY <1>0 DEF OneAfterTheOther, Gone, UProc
  <1>3. MutexesTold
    <2>1. ASSUME NEW u \in UProc PROVE Mutex(u) \in Mutexes /\ Mutex(u) + 8 \in Mutexes
      BY <1>0 DEF Mutexes, Mutex, UProc
    <2>2. \A m \in Mutexes : devMutex[m] = 1
      OBVIOUS
    <2> QED BY <2>1, <2>2 DEF MutexesTold
  <1>4. OwnerTold
    BY DEF OwnerTold, InPager, Pager
  <1>5. PoolAgrees
    BY DEF PoolAgrees, NONE
  <1>6. FramesTold /\ EntriesTold
    BY DEF FramesTold, EntriesTold, Transfer, Pager, NONE
  <1> QED
    BY <1>1, <1>2, <1>3, <1>4, <1>5, <1>6 DEF IInv

----------------------------------------------------------------------------
(* Steps outside the pager.                                                *)

\* The pager's part of the invariant, which steps outside it leave alone.
Paged == OwnerTold /\ PoolAgrees /\ FramesTold /\ EntriesTold

\* U-proc v stays where it is, or goes from one place outside the pager to
\* another; it begins with nothing of its own in the TLB.
Outside(v) ==
    \/ pc'[v] = pc[v]
    \/ /\ pc[v] \notin Pager /\ pc'[v] \notin Pager
       /\ pc'[v] # "none"
       /\ pc'[v] = "user" => \A e \in tlb : e.asid # v

LEMMA StaysPaged ==
    ASSUME IInv, UNCHANGED <<pagerVars, tlb>>,
           pc' \in [UProc -> Place],
           \A v \in UProc : Outside(v)
    PROVE  Paged'
  <1> USE DEF Outside, pagerVars
  <1>1. \A v \in UProc : (InPager(v) <=> InPager(v)') /\ pc'[v] # "swapwait"
    BY DEF IInv, OwnerTold, InPager, Pager
  <1>2. OwnerTold'
    BY <1>1 DEF IInv, OwnerTold
  <1>3. PoolAgrees'
    BY DEF IInv, PoolAgrees
  <1>4. \A v \in UProc : /\ pc'[v] \in Transfer <=> pc[v] \in Transfer
                         /\ pc'[v] \in Pager => pc'[v] = pc[v]
    BY DEF Transfer, Pager
  <1>5. FramesTold'
    BY <1>4 DEF IInv, FramesTold
  <1>6. EntriesTold'
    BY DEF IInv, EntriesTold, Pager
  <1> QED
    BY <1>2, <1>3, <1>5, <1>6 DEF Paged

LEMMA CreateUProcIInv == IInv /\ CreateUProc => IInv'
  <1> SUFFICES ASSUME IInv, CreateUProc PROVE IInv'
    OBVIOUS
  <1> USE DEF CreateUProc, GoTo
  <1>1. /\ i \in UProc /\ pc[i] = "none" /\ procSem = 0 /\ test = "create"
        /\ \A u \in UProc : u # i => u < i \/ u > i
    BY SupportAssumption DEF IInv, TypeOK, OneAfterTheOther, UProc, Gone
  <1>2. TypeOK'
    BY DEF IInv, TypeOK, pagerVars, Place, UProc
  <1>3. OneAfterTheOther'
    BY <1>1 DEF IInv, TypeOK, OneAfterTheOther, UProc, Gone
  <1>4. MutexesTold'
    BY <1>1 DEF IInv, TypeOK, MutexesTold
  <1>5. \A v \in UProc : Outside(v)
    BY <1>1 DEF IInv, TypeOK, EntriesTold, Outside, Pager
  <1>6. Paged'
    BY <1>2, <1>5, StaysPaged DEF TypeOK, pagerVars
  <1> QED
    BY <1>2, <1>3, <1>4, <1>6 DEF IInv, Paged

LEMMA WaitUProcIInv == IInv /\ WaitUProc => IInv'
  <1> SUFFICES ASSUME IInv, WaitUProc PROVE IInv'
    OBVIOUS
  <1> USE DEF WaitUProc, NextUProc
  <1>0. UPROCMAX \in Nat /\ i \in Nat
    BY SupportAssumption DEF IInv, TypeOK
  <1>1. /\ i \in UProc /\ pc[i] # "none"
        /\ procSem = IF pc[i] \in Gone THEN 1 ELSE 0
    BY <1>0 DEF IInv, TypeOK, OneAfterTheOther, UProc, Gone
  <1>2. TypeOK'
    BY <1>0, <1>1 DEF IInv, TypeOK, pagerVars, UProc
  <1>3. OneAfterTheOther'
    BY <1>0, <1>1 DEF IInv, TypeOK, OneAfterTheOther, UProc, Gone
  <1>4. MutexesTold'
    BY DEF IInv, MutexesTold
  <1>5. Paged'
    BY <1>2, StaysPaged DEF TypeOK, pagerVars, Outside
  <1> QED
    BY <1>2, <1>3, <1>4, <1>5 DEF IInv, Paged

LEMMA EndTestIInv == IInv /\ EndTest => IInv'
  <1> SUFFICES ASSUME IInv, EndTest PROVE IInv'
    OBVIOUS
  <1> USE DEF EndTest
  <1>0. UPROCMAX \in Nat /\ i = UPROCMAX + 1
    BY SupportAssumption DEF IInv, OneAfterTheOther
  <1>1. \A u \in UProc : pc[u] \in Gone
    BY <1>0 DEF IInv, OneAfterTheOther, UProc
  <1>2. TypeOK'
    BY DEF IInv, TypeOK, pagerVars, Place
  <1>3. OneAfterTheOther'
    BY <1>0, <1>1 DEF IInv, OneAfterTheOther, UProc, Gone
  <1>4. MutexesTold'
    BY DEF IInv, MutexesTold
  <1>5. Paged'
    BY <1>1, <1>2, StaysPaged DEF TypeOK, pagerVars, Outside, Gone, Pager
  <1> QED
    BY <1>2, <1>3, <1>4, <1>5 DEF IInv, Paged

\* The V of a U-proc that ends, whether test() waits for it or not yet.
LEMMA EndsWithV ==
    ASSUME IInv, NEW u \in UProc, pc[u] \in {"user", "trap"}, VProcSem,
           NEW place \in Gone, GoTo(u, place),
           UNCHANGED <<devMutex, pagerVars, tlb>>
    PROVE  IInv'
  <1> USE DEF VProcSem, NextUProc, GoTo, testVars
  <1>0. UPROCMAX \in Nat /\ i \in Nat
    BY SupportAssumption DEF IInv, TypeOK
  <1>1. /\ u = i
        /\ test \in {"wait", "blocked"}
        /\ procSem = IF test = "blocked" THEN -1 ELSE 0
    BY OnlyOne DEF Idle, Gone
  <1>2. TypeOK'
    BY <1>0, <1>1 DEF IInv, TypeOK, pagerVars, Place, Gone, UProc
  <1>3. OneAfterTheOther'
    <2>1. CASE test = "wait"
      <3>1. procSem' = 1 /\ test' = "wait" /\ i' = i
        BY <1>1, <2>1
      <3> QED
        BY <1>0, <1>1, <2>1, <3>1 DEF IInv, TypeOK, OneAfterTheOther, UProc, Gone
    <2>2. CASE test = "blocked"
      <3>1. /\ procSem' = 0 /\ i' = i + 1
            /\ test' = IF i = UPROCMAX THEN "end" ELSE "create"
        BY <1>1, <2>2
      <3> QED
        BY <1>0, <1>1, <2>2, <3>1 DEF IInv, TypeOK, OneAfterTheOther, UProc, Gone
    <2> QED
      BY <1>1, <2>1, <2>2
  <1>4. MutexesTold'
    BY DEF IInv, TypeOK, MutexesTold
  <1>5. Paged'
    BY <1>2, StaysPaged DEF IInv, TypeOK, pagerVars, Outside, Gone, Pager
  <1> QED
    BY <1>2, <1>3, <1>4, <1>5 DEF IInv, Paged

LEMMA programTrapHandlerIInv ==
    ASSUME IInv, NEW u \in UProc, programTrapHandler(u)
    PROVE  IInv'
  BY EndsWithV DEF programTrapHandler, At, Gone

LEMMA UserModeSyscallIInv ==
    ASSUME IInv, NEW u \in UProc, UserModeSyscall(u)
    PROVE  IInv'
  BY EndsWithV DEF UserModeSyscall, At, Gone

\* A U-proc goes on to another place, and nothing else changes, but its mutexes
\* perhaps.
LEMMA GoesOn ==
    ASSUME IInv, NEW u \in UProc, pc[u] \in {"user", "die"},
           NEW place \in {"trap", "ended", "mutexwait", "hung", "dead"},
           place = "dead" <=> pc[u] = "die",
           GoTo(u, place),
           devMutex' \in [Mutexes -> -1..2],
           MutexesTold',
           UNCHANGED <<testVars, procSem, pagerVars, tlb>>
    PROVE  IInv'
  <1> USE DEF GoTo, testVars
  <1>2. TypeOK'
    BY DEF IInv, TypeOK, pagerVars, Place, UProc
  <1>3. OneAfterTheOther'
    BY SupportAssumption DEF IInv, TypeOK, OneAfterTheOther, UProc, Gone
  <1>4. Paged'
    BY <1>2, StaysPaged DEF IInv, TypeOK, pagerVars, Outside, Gone, Pager
  <1> QED
    BY <1>2, <1>3, <1>4 DEF IInv, Paged

LEMMA TrapIInv ==
    ASSUME IInv, NEW u \in UProc, Trap(u)
    PROVE  IInv'
  <1>1. MutexesTold' /\ devMutex' \in [Mutexes -> -1..2]
    BY DEF Trap, At, GoTo, IInv, TypeOK, MutexesTold
  <1> QED
    BY <1>1, GoesOn DEF Trap, At

LEMMA DieIInv ==
    ASSUME IInv, NEW u \in UProc, Die(u)
    PROVE  IInv'
  <1>1. MutexesTold' /\ devMutex' \in [Mutexes -> -1..2]
    BY DEF Die, At, GoTo, IInv, TypeOK, MutexesTold
  <1> QED
    BY <1>1, GoesOn DEF Die, At

\* SYS11 to SYS13: the mutex that is released is the one that was taken, or the
\* one 8 above it.
LEMMA StringCallIInv ==
    ASSUME IInv, NEW u \in UProc, NEW released \in {Mutex(u), Mutex(u) + 8},
           NEW bad \in BOOLEAN, NEW length \in 0..1, NEW inKuseg \in BOOLEAN,
           StringCall(u, bad, length, inKuseg, released)
    PROVE  IInv'
  <1> DEFINE m == Mutex(u)
  <1>0. /\ u \in 1..8 /\ UPROCMAX \in 1..8
        /\ \A v \in UProc : v \in 1..8 /\ Mutex(v) = 32 + v
    BY SupportAssumption DEF UProc, Mutex
  <1>1. /\ m \in 33..40 /\ m + 8 \in 41..48
        /\ \A v \in UProc : v # u => Mutex(v) # m /\ Mutex(v) + 8 # m + 8
        /\ \A v \in UProc : Mutex(v) # m + 8 /\ Mutex(v) + 8 # m
    BY <1>0 DEF Mutex
  <1>2. /\ pc[u] = "user"
        /\ devMutex \in [Mutexes -> -1..2]
        /\ devMutex[m] \in 0..1 /\ devMutex[m + 8] \in 1..2
        /\ devMutex[m + 8] = 2 => devMutex[m] = 0
        /\ UNCHANGED <<testVars, procSem, pagerVars, tlb>>
    BY DEF StringCall, At, IInv, TypeOK, MutexesTold
  <1>3. CASE GoTo(u, "ended") /\ UNCHANGED devMutex
    <2>1. MutexesTold'
      BY <1>2, <1>3 DEF GoTo, IInv, TypeOK, MutexesTold
    <2> QED
      BY <1>2, <1>3, <2>1, GoesOn
  <1>4. CASE /\ devMutex[m] <= 0
             /\ devMutex' = [devMutex EXCEPT ![m] = @ - 1]
             /\ GoTo(u, "mutexwait")
    <2>1. devMutex' \in [Mutexes -> -1..2]
      BY <1>1, <1>2, <1>4 DEF Mutexes
    <2>2. MutexesTold'
      BY <1>1, <1>2, <1>4 DEF GoTo, IInv, TypeOK, MutexesTold, Mutexes
    <2> QED
      BY <1>2, <1>4, <2>1, <2>2, GoesOn
  <1>5. CASE /\ devMutex[m] > 0
             /\ devMutex' = [devMutex EXCEPT ![m] = @ - 1]
             /\ GoTo(u, "hung")
    <2>1. devMutex' \in [Mutexes -> -1..2]
      BY <1>1, <1>2, <1>5 DEF Mutexes
    <2>2. MutexesTold'
      BY <1>1, <1>2, <1>5 DEF GoTo, IInv, TypeOK, MutexesTold, Mutexes
    <2> QED
      BY <1>2, <1>5, <2>1, <2>2, GoesOn
  <1>6. CASE /\ devMutex[m] > 0
             /\ devMutex' = [[devMutex EXCEPT ![m] = @ - 1] EXCEPT ![released] = @ + 1]
             /\ UNCHANGED pc
    <2>1. devMutex' \in [Mutexes -> -1..2]
      BY <1>1, <1>2, <1>6 DEF Mutexes
    <2>2. MutexesTold'
      <3>1. CASE released = m
        <4>1. \A x \in Mutexes : devMutex'[x] = devMutex[x]
          BY <1>1, <1>2, <1>6, <3>1 DEF Mutexes
        <4> QED
          BY <1>0, <1>2, <1>6, <4>1 DEF IInv, MutexesTold, Mutexes
      <3>2. CASE released = m + 8
        <4>1. /\ devMutex'[m] = 0 /\ devMutex'[m + 8] = 2
              /\ \A x \in Mutexes \ {m, m + 8} : devMutex'[x] = devMutex[x]
          BY <1>1, <1>2, <1>6, <3>2 DEF Mutexes
        <4>2. \A v \in UProc : v # u =>
                 /\ Mutex(v) \in Mutexes \ {m, m + 8}
                 /\ Mutex(v) + 8 \in Mutexes \ {m, m + 8}
          BY <1>0, <1>1 DEF Mutexes
        <4>3. \A v \in UProc : v # u =>
                 /\ devMutex'[Mutex(v)] = devMutex[Mutex(v)]
                 /\ devMutex'[Mutex(v) + 8] = devMutex[Mutex(v) + 8]
          BY <4>1, <4>2
        <4>4. /\ devMutex'[Mutex(u)] = 0 /\ devMutex'[Mutex(u) + 8] = 2
          BY <4>1
        <4>5. pc' = pc
          BY <1>6
        <4> SUFFICES ASSUME NEW v \in UProc
                     PROVE  /\ devMutex'[Mutex(v)] \in -1..1
                            /\ devMutex'[Mutex(v) + 8] \in 1..2
                            /\ devMutex'[Mutex(v) + 8] = 2 => devMutex'[Mutex(v)] <= 0
                            /\ devMutex'[Mutex(v)] = -1 => pc'[v] \in {"mutexwait", "dead"}
          BY DEF MutexesTold
        <4>6. CASE v = u
          BY <4>4, <4>6
        <4>7. CASE v # u
          BY <4>3, <4>5, <4>7 DEF IInv, MutexesTold
        <4> QED
          BY <4>6, <4>7
      <3> QED
        BY <3>1, <3>2
    <2>3. TypeOK' /\ OneAfterTheOther'
      BY <1>2, <1>6, <2>1 DEF IInv, TypeOK, OneAfterTheOther, testVars, pagerVars
    <2>4. Paged'
      BY <1>2, <1>6, <2>3, StaysPaged DEF TypeOK, Outside
    <2> QED
      BY <2>2, <2>3, <2>4 DEF IInv, Paged
  <1> QED
    BY <1>3, <1>4, <1>5, <1>6 DEF StringCall

----------------------------------------------------------------------------
(* The TLB and the pager.                                                  *)

\* The steps in which the U-proc that runs goes on to another place.
LEMMA StaysInTurn ==
    ASSUME IInv, NEW u \in UProc, pc[u] \in {"user"} \cup Pager,
           NEW place \in {"user", "spinning"} \cup Pager, GoTo(u, place),
           UNCHANGED <<testVars, procSem, devMutex>>
    PROVE  /\ OneAfterTheOther' /\ MutexesTold'
           /\ pc' \in [UProc -> Place]
           /\ pc'[u] = place
           /\ \A v \in UProc : v # u => pc[v] \in Idle /\ pc'[v] = pc[v]
  <1> USE DEF GoTo, testVars
  <1>1. \A v \in UProc : v # u => pc[v] \in Idle
    BY OnlyOne DEF Idle, Gone, Pager
  <1>2. /\ pc' \in [UProc -> Place] /\ pc'[u] = place
        /\ \A v \in UProc : v # u => pc'[v] = pc[v]
    BY DEF IInv, TypeOK, Place, Pager
  <1>3. OneAfterTheOther'
    BY <1>2, SupportAssumption DEF IInv, OneAfterTheOther, UProc, Gone, Pager
  <1>4. MutexesTold'
    BY <1>2 DEF IInv, MutexesTold, Pager
  <1> QED
    BY <1>1, <1>2, <1>3, <1>4

LEMMA RefillIInv ==
    ASSUME IInv, NEW u \in UProc, NEW p \in Page, uTLB_RefillHandler(u, p)
    PROVE  IInv'
  <1> DEFINE entry == [asid |-> PageAsid(u, p), page |-> p, lo |-> pgTbl[u][p]]
             place == IF PageAsid(u, p) = u THEN "user" ELSE "spinning"
  <1>1. /\ pc[u] = "user" /\ GoTo(u, place)
        /\ tlb' \subseteq tlb \cup {entry}
        /\ UNCHANGED <<testVars, procSem, devMutex, pagerVars>>
    BY DEF uTLB_RefillHandler, At, GoTo, IInv, TypeOK
  <1>2. /\ OneAfterTheOther' /\ MutexesTold'
        /\ pc' \in [UProc -> Place] /\ pc'[u] = place
        /\ \A v \in UProc : v # u => pc[v] \in Idle /\ pc'[v] = pc[v]
    BY <1>1, StaysInTurn
  <1>3. entry \in [asid : 0..UPROCMAX, page : Page, lo : Frame \cup {NONE}]
    BY SupportAssumption DEF PageAsid, UProc, IInv, TypeOK
  <1>4. TypeOK'
    BY <1>1, <1>2, <1>3 DEF IInv, TypeOK, testVars, pagerVars
  <1>5. OwnerTold' /\ PoolAgrees' /\ FramesTold'
    BY <1>1, <1>2 DEF IInv, OwnerTold, PoolAgrees, FramesTold, InPager, Transfer,
                      Pager, Idle, Gone, pagerVars
  <1>6. PageAsid(u, p) \in UProc => pc[PageAsid(u, p)] # "none"
    <2>1. u = i
      BY <1>1, OnlyOne DEF Idle, Gone
    <2> QED
      BY <1>1, <2>1, SupportAssumption DEF PageAsid, IInv, OneAfterTheOther, UProc, Gone
  <1>7. EntriesTold'
    <2>1. \A v \in UProc : pc[v] # "none" => pc'[v] # "none"
      BY <1>1, <1>2
    <2>2. \A e \in tlb' : e.asid \in UProc => pc'[e.asid] # "none"
      BY <1>1, <1>6, <2>1 DEF IInv, EntriesTold
    <2>3. \A v \in UProc : v # u => pc'[v] \notin {"user", "fault", "swap", "loaded"}
      BY <1>2 DEF Idle, Gone
    <2>4. \A e \in tlb' : pc'[u] = "user" /\ e.asid = u => e.lo = pgTbl'[u][e.page]
      BY <1>1, <1>2 DEF IInv, EntriesTold, pagerVars
    <2>5. pc'[u] \in {"user", "spinning"}
      BY <1>2
    <2> QED
      BY <2>2, <2>3, <2>4, <2>5 DEF EntriesTold
  <1> QED
    BY <1>2, <1>4, <1>5, <1>7 DEF IInv

LEMMA PageFaultIInv ==
    ASSUME IInv, NEW u \in UProc, NEW p \in Page, PageFault(u, p)
    PROVE  IInv'
  <1> USE DEF PageFault, At
  <1>1. /\ OneAfterTheOther' /\ MutexesTold'
        /\ pc' \in [UProc -> Place] /\ pc'[u] = "fault"
        /\ \A v \in UProc : v # u => pc[v] \in Idle /\ pc'[v] = pc[v]
    BY StaysInTurn DEF Pager
  <1>2. TypeOK'
    BY <1>1 DEF IInv, TypeOK, testVars
  <1>3. missing'[u] = p /\ pgTbl[u][p] = NONE
    BY DEF IInv, TypeOK, EntriesTold
  <1>4. OwnerTold' /\ PoolAgrees'
    BY <1>1 DEF IInv, OwnerTold, PoolAgrees, InPager, Pager
  <1>5. FramesTold'
    BY <1>1, <1>3 DEF IInv, TypeOK, FramesTold, Transfer, Idle, Gone, Pager
  <1>6. EntriesTold'
    BY <1>1 DEF IInv, EntriesTold
  <1> QED
    BY <1>1, <1>2, <1>4, <1>5, <1>6 DEF IInv

LEMMA GainSwapPoolIInv ==
    ASSUME IInv, NEW u \in UProc, GainSwapPool(u)
    PROVE  IInv'
  <1> USE DEF GainSwapPool, At
  <1>0. swapSem = 1
    <2>1. \A v \in UProc : ~InPager(v)
      BY OnlyOne DEF InPager, Idle, Gone, Pager
    <2> QED
      BY <2>1 DEF IInv, OwnerTold
  <1>1. swapSem' = 0 /\ GoTo(u, "swap")
    BY <1>0
  <1>2. /\ OneAfterTheOther' /\ MutexesTold'
        /\ pc' \in [UProc -> Place] /\ pc'[u] = "swap"
        /\ \A v \in UProc : v # u => pc[v] \in Idle /\ pc'[v] = pc[v]
    BY <1>1, StaysInTurn DEF Pager
  <1>3. TypeOK'
    BY <1>1, <1>2, SupportAssumption DEF IInv, TypeOK, testVars
  <1>4. OwnerTold' /\ PoolAgrees'
    BY <1>1, <1>2 DEF IInv, OwnerTold, PoolAgrees, InPager, Pager
  <1>5. FramesTold' /\ EntriesTold'
    BY <1>2 DEF IInv, FramesTold, EntriesTold, Transfer, Idle, Gone, Pager
  <1> QED
    BY <1>2, <1>3, <1>4, <1>5 DEF IInv

\* The page in the victim is no longer valid in its page table, and nothing else
\* changes there.
LEMMA EvictionClears ==
    ASSUME TypeOK, PoolAgrees, NEW f \in Frame, swapPool[f][1] # NONE
    PROVE  /\ Invalidated(f) \in [UProc -> [Page -> Frame \cup {NONE}]]
           /\ \A v \in UProc, p \in Page :
                 /\ Invalidated(f)[v][p] = IF swapPool[f] = <<v, p>> THEN NONE
                                           ELSE pgTbl[v][p]
                 /\ Invalidated(f)[v][p] # f
  <1>1. PICK w \in UProc, q \in Page : swapPool[f] = <<w, q>>
    BY DEF TypeOK
  <1>2. Invalidated(f) = [pgTbl EXCEPT ![w][q] = NONE]
    BY <1>1 DEF Invalidated
  <1>3. \A v \in UProc, p \in Page :
           Invalidated(f)[v][p] = IF v = w /\ p = q THEN NONE ELSE pgTbl[v][p]
    BY <1>2 DEF TypeOK
  <1>4. NONE # f
    BY SupportAssumption DEF NONE, Frame
  <1>5. \A v \in UProc, p \in Page : pgTbl[v][p] = f => v = w /\ p = q
    BY <1>1, <1>4 DEF PoolAgrees
  <1> QED
    BY <1>1, <1>2, <1>3, <1>4, <1>5 DEF TypeOK

LEMMA PickFrameIInv ==
    ASSUME IInv, NEW u \in UProc, PickFrame(u)
    PROVE  IInv'
  <1> DEFINE f == pickVictim
             taken == swapPool[f][1] # NONE
             place == IF taken THEN "writing" ELSE "reading"
  <1>0. f \in Frame
    BY VictimIsFrame DEF IInv, TypeOK
  <1>1. /\ pc[u] = "swap" /\ GoTo(u, place) /\ next' = f
        /\ victim' = [victim EXCEPT ![u] = f]
        /\ pgTbl' = IF taken THEN Invalidated(f) ELSE pgTbl
        /\ UNCHANGED <<testVars, procSem, devMutex, missing, swapSem, swapPool, tlb>>
    BY DEF PickFrame, At, flashIO
  <1>2. /\ OneAfterTheOther' /\ MutexesTold'
        /\ pc' \in [UProc -> Place] /\ pc'[u] = place
        /\ \A v \in UProc : v # u => pc[v] \in Idle /\ pc'[v] = pc[v]
    BY <1>1, StaysInTurn DEF Pager
  <1>3. /\ pgTbl' \in [UProc -> [Page -> Frame \cup {NONE}]]
        /\ \A v \in UProc, p \in Page :
              /\ pgTbl'[v][p] # f
              /\ pgTbl'[v][p] = pgTbl[v][p] \/ pgTbl'[v][p] = NONE
              /\ (taken /\ swapPool[f] = <<v, p>>) \/ pgTbl'[v][p] = pgTbl[v][p]
    <2>1. CASE taken
      BY <1>0, <1>1, <2>1, EvictionClears DEF IInv
    <2>2. CASE ~taken
      <3>0. f # NONE /\ \A v \in UProc : v # NONE
        BY <1>0, SupportAssumption DEF NONE, UProc, Frame
      <3>1. \A v \in UProc, p \in Page : pgTbl[v][p] # f
        BY <2>2, <3>0 DEF IInv, PoolAgrees
      <3> QED
        BY <1>1, <2>2, <3>1 DEF IInv, TypeOK
    <2> QED
      BY <2>1, <2>2
  <1>4. TypeOK'
    BY <1>0, <1>1, <1>2, <1>3 DEF IInv, TypeOK, testVars
  <1>5. OwnerTold'
    BY <1>1, <1>2 DEF IInv, OwnerTold, InPager, Pager
  <1>6. PoolAgrees'
    <2>1. swapPool' = swapPool
      BY <1>1
    <2>2. \A v \in UProc, p \in Page :
             pgTbl'[v][p] # NONE => swapPool[pgTbl'[v][p]] = <<v, p>>
      <3>1. \A v \in UProc, p \in Page :
               pgTbl[v][p] # NONE => swapPool[pgTbl[v][p]] = <<v, p>>
        BY DEF IInv, PoolAgrees
      <3>2. \A v \in UProc, p \in Page :
               pgTbl'[v][p] # NONE => pgTbl'[v][p] = pgTbl[v][p]
        BY <1>3
      <3> QED
        BY <3>1, <3>2
    <2> QED
      BY <2>1, <2>2 DEF IInv, PoolAgrees
  <1>7. FramesTold'
    <2>1. victim'[u] = f /\ pc'[u] \in Transfer
      BY <1>1, <1>2 DEF IInv, TypeOK, Transfer
    <2>2. \A v \in UProc : v # u => pc'[v] \notin Pager /\ pc'[v] \notin Transfer
      BY <1>2 DEF Idle, Gone, Pager, Transfer
    <2>3. ASSUME NEW g \in Frame, g # f, swapPool[g][1] # NONE
          PROVE  pgTbl'[swapPool[g][1]][swapPool[g][2]] = g
      <3>1. /\ swapPool[g][1] \in UProc /\ swapPool[g][2] \in Page
            /\ swapPool[g] = <<swapPool[g][1], swapPool[g][2]>>
        BY <2>3 DEF IInv, TypeOK
      <3>2. pgTbl[swapPool[g][1]][swapPool[g][2]] = g
        BY <1>1, <1>2, <2>3 DEF IInv, FramesTold, Transfer, Idle, Gone
      <3>3. swapPool[f] # swapPool[g]
        BY <1>0, <2>3 DEF IInv, PoolAgrees
      <3> QED
        BY <1>3, <3>1, <3>2, <3>3
    <2>4. pgTbl'[u][missing'[u]] = NONE
      <3>1. missing'[u] \in Page /\ pgTbl[u][missing[u]] = NONE /\ missing' = missing
        BY <1>1 DEF IInv, TypeOK, FramesTold, Pager
      <3> QED
        BY <1>3, <3>1
    <2>5. swapPool' = swapPool
      BY <1>1
    <2> QED
      BY <1>3, <2>1, <2>2, <2>3, <2>4, <2>5 DEF FramesTold
  <1>8. EntriesTold'
    BY <1>1, <1>2 DEF IInv, EntriesTold, Idle, Gone
  <1> QED
    BY <1>2, <1>4, <1>5, <1>6, <1>7, <1>8 DEF IInv

LEMMA PageWrittenIInv ==
    ASSUME IInv, NEW u \in UProc, PageWritten(u)
    PROVE  IInv'
  <1> USE DEF PageWritten, At, flashIO, pagerVars
  <1>1. /\ OneAfterTheOther' /\ MutexesTold'
        /\ pc' \in [UProc -> Place] /\ pc'[u] = "reading"
        /\ \A v \in UProc : v # u => pc[v] \in Idle /\ pc'[v] = pc[v]
    BY StaysInTurn DEF Pager
  <1>2. TypeOK'
    BY <1>1 DEF IInv, TypeOK, testVars
  <1>3. OwnerTold' /\ PoolAgrees'
    BY <1>1 DEF IInv, OwnerTold, PoolAgrees, InPager, Pager
  <1>4. \A v \in UProc : /\ pc'[v] \in Transfer <=> pc[v] \in Transfer
                         /\ pc'[v] \in Pager \ {"loaded"} <=> pc[v] \in Pager \ {"loaded"}
    BY <1>1 DEF Transfer, Pager
  <1>5. FramesTold'
    BY <1>4 DEF IInv, FramesTold
  <1>6. EntriesTold'
    BY <1>1 DEF IInv, EntriesTold, Idle, Gone
  <1> QED
    BY <1>1, <1>2, <1>3, <1>5, <1>6 DEF IInv

LEMMA PageReadIInv ==
    ASSUME IInv, NEW u \in UProc, PageRead(u)
    PROVE  IInv'
  <1> DEFINE f == victim[u]
             q == missing[u]
  <1>1. /\ pc[u] = "reading" /\ GoTo(u, "loaded") /\ tlb' = {}
        /\ swapPool' = [swapPool EXCEPT ![f] = <<u, q>>]
        /\ pgTbl' = [pgTbl EXCEPT ![u][q] = f]
        /\ UNCHANGED <<testVars, procSem, devMutex, missing, victim, swapSem, next>>
    BY DEF PageRead, At, TLBCLR
  <1>2. /\ OneAfterTheOther' /\ MutexesTold'
        /\ pc' \in [UProc -> Place] /\ pc'[u] = "loaded"
        /\ \A v \in UProc : v # u => pc[v] \in Idle /\ pc'[v] = pc[v]
    BY <1>1, StaysInTurn DEF Pager
  <1>3. f \in Frame /\ q \in Page /\ f # NONE
    BY SupportAssumption DEF IInv, TypeOK, Frame, NONE
  <1>4. /\ \A v \in UProc, p \in Page : pgTbl[v][p] # f
        /\ pgTbl[u][q] = NONE
    BY <1>1 DEF IInv, FramesTold, Transfer, Pager
  <1>5. /\ \A v \in UProc, p \in Page :
              pgTbl'[v][p] = IF v = u /\ p = q THEN f ELSE pgTbl[v][p]
        /\ \A g \in Frame : swapPool'[g] = IF g = f THEN <<u, q>> ELSE swapPool[g]
    BY <1>1, <1>3 DEF IInv, TypeOK
  <1>6. \A g \in Frame : g # f /\ swapPool[g][1] # NONE =>
           /\ pgTbl[swapPool[g][1]][swapPool[g][2]] = g
           /\ swapPool[g] # <<u, q>>
    <2> SUFFICES ASSUME NEW g \in Frame, g # f, swapPool[g][1] # NONE
                 PROVE  /\ pgTbl[swapPool[g][1]][swapPool[g][2]] = g
                        /\ swapPool[g] # <<u, q>>
      OBVIOUS
    <2>1. pgTbl[swapPool[g][1]][swapPool[g][2]] = g
      BY <1>1, <1>2 DEF IInv, FramesTold, Transfer, Idle, Gone
    <2>2. g # NONE
      BY SupportAssumption DEF Frame, NONE
    <2> QED
      BY <1>4, <2>1, <2>2
  <1>7. TypeOK'
    BY <1>1, <1>2, <1>3 DEF IInv, TypeOK, testVars
  <1>8. OwnerTold'
    BY <1>1, <1>2 DEF IInv, OwnerTold, InPager, Pager
  <1>9. PoolAgrees'
    <2>1. ASSUME NEW v \in UProc, NEW p \in Page, pgTbl'[v][p] # NONE
          PROVE  swapPool'[pgTbl'[v][p]] = <<v, p>>
      <3>1. CASE v = u /\ p = q
        BY <1>3, <1>5, <3>1
      <3>2. CASE ~(v = u /\ p = q)
        BY <1>4, <1>5, <2>1, <3>2 DEF IInv, TypeOK, PoolAgrees
      <3> QED
        BY <3>1, <3>2
    <2>2. ASSUME NEW g \in Frame, NEW h \in Frame,
                 swapPool'[g] = swapPool'[h], swapPool'[g][1] # NONE
          PROVE  g = h
      <3>1. CASE g # f /\ h # f
        BY <1>5, <2>2, <3>1 DEF IInv, PoolAgrees
      <3>2. u # NONE
        BY SupportAssumption DEF UProc, NONE
      <3>3. CASE g = f /\ h # f
        BY <1>5, <1>6, <2>2, <3>2, <3>3
      <3>4. CASE g # f /\ h = f
        BY <1>5, <1>6, <2>2, <3>2, <3>4
      <3> QED
        BY <3>1, <3>3, <3>4
    <2> QED
      BY <2>1, <2>2 DEF PoolAgrees
  <1>10. FramesTold'
    <2>1. \A v \in UProc : pc'[v] \notin Pager \ {"loaded"} /\ pc'[v] \notin Transfer
      BY <1>2 DEF Idle, Gone, Pager, Transfer
    <2>2. ASSUME NEW g \in Frame, swapPool'[g][1] # NONE
          PROVE  pgTbl'[swapPool'[g][1]][swapPool'[g][2]] = g
      <3>1. CASE g = f
        BY <1>3, <1>5, <3>1
      <3>2. CASE g # f
        <4>1. swapPool'[g] = swapPool[g]
          BY <1>5, <3>2
        <4>2. PICK v \in UProc, p \in Page : swapPool[g] = <<v, p>>
          BY <2>2, <4>1 DEF IInv, TypeOK
        <4>3. pgTbl[v][p] = g /\ ~(v = u /\ p = q)
          BY <1>6, <2>2, <3>2, <4>1, <4>2
        <4> QED
          BY <1>5, <4>1, <4>2, <4>3
      <3> QED
        BY <3>1, <3>2
    <2> QED
      BY <2>1, <2>2 DEF FramesTold
  <1>11. EntriesTold'
    BY <1>1 DEF EntriesTold
  <1> QED
    BY <1>2, <1>7, <1>8, <1>9, <1>10, <1>11 DEF IInv

LEMMA ReleaseSwapPoolIInv ==
    ASSUME IInv, NEW u \in UProc, ReleaseSwapPool(u)
    PROVE  IInv'
  <1> USE DEF ReleaseSwapPool, At
  <1>1. swapSem = 0
    BY DEF IInv, OwnerTold, InPager, Pager
  <1>2. swapSem' = 1 /\ GoTo(u, "user")
    BY <1>1
  <1>3. /\ OneAfterTheOther' /\ MutexesTold'
        /\ pc' \in [UProc -> Place] /\ pc'[u] = "user"
        /\ \A v \in UProc : v # u => pc[v] \in Idle /\ pc'[v] = pc[v]
    BY <1>2, StaysInTurn DEF Pager
  <1>4. TypeOK'
    BY <1>2, <1>3, SupportAssumption DEF IInv, TypeOK, testVars
  <1>5. OwnerTold' /\ PoolAgrees'
    BY <1>2, <1>3 DEF IInv, OwnerTold, PoolAgrees, InPager, Pager, Idle, Gone
  <1>6. FramesTold' /\ EntriesTold'
    BY <1>3 DEF IInv, FramesTold, EntriesTold, Transfer, Idle, Gone, Pager
  <1> QED
    BY <1>3, <1>4, <1>5, <1>6 DEF IInv

----------------------------------------------------------------------------
(* Theorems.                                                               *)

LEMMA NextIInv == IInv /\ [Next]_vars => IInv'
  <1> SUFFICES ASSUME IInv, [Next]_vars PROVE IInv'
    OBVIOUS
  <1>1. CASE Test
    BY <1>1, CreateUProcIInv, WaitUProcIInv, EndTestIInv DEF Test
  <1>2. ASSUME NEW u \in UProc, Handler(u) PROVE IInv'
    BY <1>2, programTrapHandlerIInv, DieIInv DEF Handler
  <1>3. ASSUME NEW u \in UProc, Paging(u) PROVE IInv'
    BY <1>3, GainSwapPoolIInv, PickFrameIInv, PageWrittenIInv, PageReadIInv,
       ReleaseSwapPoolIInv DEF Paging
  <1>4. ASSUME NEW u \in UProc, User(u) PROVE IInv'
    <2>1. CASE Trap(u) \/ UserModeSyscall(u)
      BY <2>1, TrapIInv, UserModeSyscallIInv
    <2>2. CASE writeString(u)
      BY <2>2, StringCallIInv DEF writeString
    <2>3. CASE readTerminal(u)
      BY <2>3, StringCallIInv DEF readTerminal
    <2>4. ASSUME NEW p \in Page, uTLB_RefillHandler(u, p) \/ PageFault(u, p)
          PROVE  IInv'
      BY <2>4, RefillIInv, PageFaultIInv
    <2> QED
      BY <1>4, <2>1, <2>2, <2>3, <2>4 DEF User
  <1>5. CASE UNCHANGED vars
    <2> USE <1>5 DEF vars, testVars, pagerVars
    <2>1. TypeOK' /\ OneAfterTheOther' /\ MutexesTold'
      BY DEF IInv, TypeOK, OneAfterTheOther, MutexesTold
    <2>2. Paged'
      BY <2>1, StaysPaged DEF TypeOK, Outside
    <2> QED
      BY <2>1, <2>2 DEF IInv, Paged
  <1> QED
    BY <1>1, <1>2, <1>3, <1>4, <1>5 DEF Next

\* The invariant holds in every state of the support level.
THEOREM SupportInvariance == Spec => []IInv
  <1> QED
    BY InitIInv, NextIInv, PTL DEF Spec

\* Semaphores, mutexes and places stay in the ranges they are meant for.
THEOREM SupportTypeCorrect == Spec => []TypeOK
  <1>1. IInv => TypeOK
    BY DEF IInv
  <1> QED
    BY <1>1, SupportInvariance, PTL

\* The swap pool and the page tables tell the same, whatever pages of running and
\* of ended U-procs are replaced: tlbExceptionHandler.
THEOREM PoolCorrect == Spec => []PoolAgrees
  <1>1. IInv => PoolAgrees
    BY DEF IInv
  <1> QED
    BY <1>1, SupportInvariance, PTL

\* A U-proc that runs finds in the TLB what its page table says, though the pager
\* clears the TLB only when the new page is there.
THEOREM TLBCorrect == Spec => []TLBAgrees
  <1>1. IInv => TLBAgrees
    BY DEF IInv, EntriesTold, TLBAgrees
  <1> QED
    BY <1>1, SupportInvariance, PTL

\* At most one U-proc is in the swap pool, and swapSem says whether one is.
THEOREM SwapPoolExclusive == Spec => []SwapPoolOwned
  <1>1. ASSUME IInv PROVE SwapPoolOwned
    <2> DEFINE Owners == {u \in UProc : InPager(u) \/ pc[u] = "swapwait"}
    <2>1. \A u \in UProc : pc[u] # "swapwait"
      BY <1>1 DEF IInv, OwnerTold
    <2>2. \A u, v \in UProc : InPager(u) /\ InPager(v) => u = v
      BY <1>1, OnlyOne DEF InPager, Pager, Idle, Gone
    <2>3. CASE \E u \in UProc : InPager(u)
      <3>1. PICK u \in UProc : InPager(u)
        BY <2>3
      <3>2. Owners = {u}
        BY <2>1, <2>2, <3>1
      <3>3. Cardinality(Owners) = 1
        BY <3>2, FS_Singleton
      <3>4. swapSem = 0
        BY <1>1, <3>1 DEF IInv, OwnerTold
      <3> QED
        BY <2>2, <3>3, <3>4 DEF SwapPoolOwned
    <2>4. CASE \A u \in UProc : ~InPager(u)
      <3>1. Owners = {}
        BY <2>1, <2>4
      <3>2. Cardinality(Owners) = 0
        BY <3>1, FS_EmptySet
      <3>3. swapSem = 1
        BY <1>1, <2>4 DEF IInv, OwnerTold
      <3> QED
        BY <2>2, <3>2, <3>3 DEF SwapPoolOwned
    <2> QED
      BY <2>3, <2>4
  <1> QED
    BY <1>1, SupportInvariance, PTL

\* When nothing can go on any more, the U-proc test() waits for was ended or
\* blocked by SYS11 to SYS13: every other way of ending does the V on procSem.
THEOREM OnlyStringCallsPanic == Spec => []PanicExplained
  <1>1. ASSUME IInv, Panicked PROVE \E u \in UProc : pc[u] \in {"ended", "mutexwait"}
    <2>1. i \in UProc
      BY <1>1, SupportAssumption DEF Panicked, IInv, TypeOK, OneAfterTheOther, UProc
    <2>2. pc[i] \notin Idle /\ pc[i] # "swapwait"
      BY <1>1, <2>1 DEF Panicked, IInv, OneAfterTheOther, OwnerTold, Idle
    <2> QED
      BY <1>1, <2>1, <2>2 DEF Panicked, Idle, Gone
  <1>2. IInv => PanicExplained
    BY <1>1 DEF PanicExplained
  <1> QED
    BY <1>2, SupportInvariance, PTL

----------------------------------------------------------------------------
(* A fault ends, and so does the wait of test().                           *)

Dying == {u \in UProc : pc[u] = "die"}

\* The places a U-proc in the pager still has to go through.
PlacesLeft(u) ==
    CASE pc[u] = "fault"   -> 5
      [] pc[u] = "swap"    -> 4
      [] pc[u] = "writing" -> 3
      [] pc[u] = "reading" -> 2
      [] pc[u] = "loaded"  -> 1
      [] OTHER             -> 0

\* The steps of all processes together that a U-proc in the pager has before it:
\* its own, the P of test(), and the SYS2 of U-procs that did their V.
FaultLeft(u) ==
    PlacesLeft(u) + (IF test = "wait" THEN 1 ELSE 0) + Cardinality(Dying)

FaultBounded ==
    \A u \in UProc : pc[u] \in Pager =>
        ~Hung /\ pc[u] # "swapwait" /\ FaultLeft(u) \in 1..(UPROCMAX + 5)

FaultShortens ==
    [][\A u \in UProc : pc[u] \in Pager =>
          /\ pc'[u] \in Pager \cup {"user"}
          /\ FaultLeft(u)' < FaultLeft(u)]_vars

\* What a U-proc faulted on is valid before it goes on, and no older entry of the
\* TLB hides that.
Cured ==
    \A u \in UProc : pc[u] = "loaded" =>
        pgTbl[u][missing[u]] = victim[u] /\ tlb = {}

\* The V of a U-proc is in procSem until test() has gone past it.
EndCounted ==
    \A u \in UProc : pc[u] \in Gone => i > u \/ (i = u /\ test = "wait" /\ procSem = 1)

\* Between that V and test() going on come only SYS2s of U-procs that are through.
EndShortens ==
    [][\A u \in UProc : pc[u] \in Gone /\ i = u =>
          \/ i' = u + 1
          \/ i' = i /\ Cardinality(Dying)' < Cardinality(Dying)]_vars

\* The V of a U-proc is never lost, in whatever order it, its SYS2 and the P of
\* test() come: programTrapHandler and test().
THEOREM EndIsCounted == Spec => []EndCounted
  <1>1. ASSUME IInv PROVE EndCounted
    <2>1. UPROCMAX \in Nat /\ i \in Nat
      BY <1>1, SupportAssumption DEF IInv, TypeOK
    <2>2. ASSUME NEW u \in UProc, pc[u] \in Gone, ~(i > u)
          PROVE  i = u /\ test = "wait" /\ procSem = 1
      <3>1. i = u
        BY <1>1, <2>1, <2>2 DEF IInv, OneAfterTheOther, UProc, Gone
      <3> QED
        BY <1>1, <2>1, <2>2, <3>1 DEF IInv, TypeOK, OneAfterTheOther, UProc, Gone
    <2> QED
      BY <2>2 DEF EndCounted
  <1> QED
    BY <1>1, SupportInvariance, PTL

\* There is a finite number of U-procs between their V and their SYS2.
LEMMA DyingFinite ==
    /\ IsFiniteSet(Dying) /\ Cardinality(Dying) \in 0..UPROCMAX
    /\ \A u \in UProc : pc[u] \notin Gone => Cardinality(Dying) <= UPROCMAX - 1
  <1>1. UPROCMAX \in Nat /\ IsFiniteSet(UProc) /\ Cardinality(UProc) = UPROCMAX
    <2>1. UPROCMAX \in Nat /\ UPROCMAX >= 1 /\ 1 \in Int
      BY SupportAssumption
    <2> QED
      BY <2>1, FS_Interval DEF UProc
  <1>2. /\ IsFiniteSet(Dying) /\ Cardinality(Dying) <= UPROCMAX
        /\ Cardinality(Dying) \in Nat
    BY <1>1, FS_Subset, FS_CardinalityType DEF Dying
  <1>3. ASSUME NEW u \in UProc, pc[u] \notin Gone
        PROVE  Cardinality(Dying) <= UPROCMAX - 1
    <2>1. Dying \subseteq UProc \ {u}
      BY <1>3 DEF Dying, Gone
    <2>2. IsFiniteSet(UProc \ {u}) /\ Cardinality(UProc \ {u}) = UPROCMAX - 1
      BY <1>1, FS_RemoveElement
    <2> QED
      BY <2>1, <2>2, FS_Subset
  <1> QED
    BY <1>1, <1>2, <1>3

\* A SYS2 takes its caller out of them.
LEMMA DieLessDying ==
    ASSUME IInv, NEW v \in UProc, Die(v)
    PROVE  Cardinality(Dying)' = Cardinality(Dying) - 1
  <1>1. Dying' = Dying \ {v} /\ v \in Dying
    BY DEF Die, At, GoTo, Dying, IInv, TypeOK
  <1> QED
    BY <1>1, DyingFinite, FS_RemoveElement

\* While a U-proc is in the pager nothing else happens than that.
LEMMA PagerAlone ==
    ASSUME IInv, Next, NEW u \in UProc, pc[u] \in Pager
    PROVE  \/ Paging(u)
           \/ WaitUProc
           \/ \E v \in UProc : v # u /\ Die(v)
  <1>0. /\ test \in {"wait", "blocked"}
        /\ \A v \in UProc : v # u => pc[v] \in Idle
    BY OnlyOne DEF Idle, Gone, Pager
  <1>1. CASE Test
    BY <1>0, <1>1 DEF Test, CreateUProc, EndTest
  <1>2. ASSUME NEW v \in UProc, Handler(v)
        PROVE  v # u /\ Die(v)
    <2>1. pc[v] \in {"trap", "die"}
      BY <1>2 DEF Handler, programTrapHandler, Die, At
    <2>2. v # u
      BY <2>1 DEF Pager
    <2> QED
      BY <1>0, <1>2, <2>2 DEF Handler, programTrapHandler, At, Idle, Gone
  <1>3. ASSUME NEW v \in UProc, Paging(v)
        PROVE  v = u
    <2>1. pc[v] \in Pager
      BY <1>3 DEF Paging, GainSwapPool, PickFrame, PageWritten, PageRead,
                  ReleaseSwapPool, At, Pager
    <2> QED
      BY <1>0, <2>1 DEF Idle, Gone, Pager
  <1>4. ASSUME NEW v \in UProc, User(v)
        PROVE  FALSE
    <2>1. pc[v] = "user"
      BY <1>4 DEF User, Trap, UserModeSyscall, writeString, readTerminal, StringCall,
                  uTLB_RefillHandler, PageFault, At
    <2> QED
      BY <1>0, <2>1 DEF Idle, Gone, Pager
  <1> QED
    BY <1>1, <1>2, <1>3, <1>4 DEF Next

\* The pager never waits for its pool nor for a machine that hangs, and every step
\* the system can take brings the U-proc in it nearer to the instruction it faulted
\* on: at most UPROCMAX + 5 of them, whatever is written first.  That is what
\* FaultServed needs besides fairness: tlbExceptionHandler.
THEOREM FaultEnds == Spec => []FaultBounded /\ FaultShortens
  <1>1. ASSUME IInv PROVE FaultBounded
    <2> SUFFICES ASSUME NEW u \in UProc, pc[u] \in Pager
                 PROVE  /\ ~Hung /\ pc[u] # "swapwait"
                        /\ FaultLeft(u) \in 1..(UPROCMAX + 5)
      BY DEF FaultBounded
    <2>1. \A v \in UProc : pc[v] # "hung"
      BY <1>1, OnlyOne DEF Idle, Gone, Pager
    <2>2. pc[u] # "swapwait"
      BY <1>1 DEF IInv, OwnerTold
    <2>3. PlacesLeft(u) \in 1..5
      BY <2>2 DEF PlacesLeft, Pager
    <2>4. Cardinality(Dying) \in 0..(UPROCMAX - 1) /\ UPROCMAX \in Nat
      BY DyingFinite, SupportAssumption DEF Pager, Gone
    <2> QED
      BY <2>1, <2>2, <2>3, <2>4 DEF FaultLeft, Hung
  <1>2. ASSUME IInv, Next, NEW u \in UProc, pc[u] \in Pager
        PROVE  /\ pc'[u] \in Pager \cup {"user"}
               /\ FaultLeft(u)' < FaultLeft(u)
    <2>0. /\ PlacesLeft(u) \in 0..5 /\ PlacesLeft(u)' \in 0..5
          /\ Cardinality(Dying) \in Nat
      BY DyingFinite DEF PlacesLeft
    <2>1. CASE Paging(u)
      <3>1. /\ \A v \in UProc : v # u => pc'[v] = pc[v]
            /\ pc'[u] \in Pager \cup {"user"} /\ PlacesLeft(u)' < PlacesLeft(u)
        <4>1. pc \in [UProc -> Place]
          BY <1>2 DEF IInv, TypeOK
        <4>2. CASE GainSwapPool(u)
          <5>1. swapSem = 1
            <6>1. \A v \in UProc : ~InPager(v)
              BY <1>2, <4>2, OnlyOne DEF GainSwapPool, At, InPager, Idle, Gone, Pager
            <6> QED
              BY <1>2, <6>1 DEF IInv, OwnerTold
          <5> QED
            BY <4>1, <4>2, <5>1 DEF GainSwapPool, At, GoTo, PlacesLeft, Pager
        <4>3. CASE PickFrame(u)
          BY <4>1, <4>3 DEF PickFrame, flashIO, At, GoTo, PlacesLeft, Pager
        <4>4. CASE PageWritten(u)
          BY <4>1, <4>4 DEF PageWritten, flashIO, At, GoTo, PlacesLeft, Pager
        <4>5. CASE PageRead(u)
          BY <4>1, <4>5 DEF PageRead, At, GoTo, PlacesLeft, Pager
        <4>6. CASE ReleaseSwapPool(u)
          <5>1. swapSem = 0
            BY <1>2, <4>6 DEF ReleaseSwapPool, At, IInv, OwnerTold, InPager, Pager
          <5> QED
            BY <4>1, <4>6, <5>1 DEF ReleaseSwapPool, At, GoTo, PlacesLeft, Pager
        <4> QED
          BY <2>1, <4>2, <4>3, <4>4, <4>5, <4>6 DEF Paging
      <3>2. test' = test
        BY <2>1 DEF Paging, GainSwapPool, PickFrame, PageWritten, PageRead,
                    ReleaseSwapPool, testVars
      <3>3. Dying' = Dying
        BY <1>2, <3>1 DEF Dying, Pager
      <3> QED
        BY <2>0, <3>1, <3>2, <3>3 DEF FaultLeft
    <2>2. CASE WaitUProc
      <3>1. test = "wait" /\ pc' = pc /\ test' # "wait"
        <4>1. procSem = 0
          BY <1>2, <2>2, OnlyOne DEF WaitUProc, Idle, Gone, Pager
        <4> QED
          BY <2>2, <4>1 DEF WaitUProc
      <3>2. PlacesLeft(u)' = PlacesLeft(u) /\ Dying' = Dying
        BY <3>1 DEF PlacesLeft, Dying
      <3> QED
        BY <1>2, <2>0, <3>1, <3>2 DEF FaultLeft
    <2>3. ASSUME NEW v \in UProc, v # u, Die(v)
          PROVE  /\ pc'[u] \in Pager \cup {"user"}
                 /\ FaultLeft(u)' < FaultLeft(u)
      <3>1. Cardinality(Dying)' = Cardinality(Dying) - 1
        BY <1>2, <2>3, DieLessDying
      <3>2. pc'[u] = pc[u] /\ test' = test
        BY <2>3 DEF Die, GoTo, testVars
      <3>3. PlacesLeft(u)' = PlacesLeft(u)
        BY <3>2 DEF PlacesLeft
      <3> QED
        BY <1>2, <2>0, <3>1, <3>2, <3>3 DEF FaultLeft
    <2> QED
      BY <1>2, <2>1, <2>2, <2>3, PagerAlone
  <1>3. IInv /\ [Next]_vars =>
          [\A u \in UProc : pc[u] \in Pager =>
              /\ pc'[u] \in Pager \cup {"user"}
              /\ FaultLeft(u)' < FaultLeft(u)]_vars
    BY <1>2
  <1> QED
    BY <1>1, <1>3, SupportInvariance, PTL DEF Spec, FaultShortens

\* A U-proc goes on to find its page in the frame the pager chose, and no entry of
\* the TLB that says otherwise: tlbExceptionHandler.
THEOREM FaultCured == Spec => []Cured
  <1>1. Init => Cured
    BY DEF Init, Cured
  <1>2. ASSUME IInv, Cured, [Next]_vars PROVE Cured'
    <2> SUFFICES ASSUME NEW u \in UProc, pc'[u] = "loaded"
                 PROVE  pgTbl'[u][missing'[u]] = victim'[u] /\ tlb' = {}
      BY DEF Cured
    <2>0. IInv'
      BY <1>2, NextIInv
    <2>1. CASE UNCHANGED vars
      BY <1>2, <2>1 DEF Cured, vars, pagerVars
    <2>2. CASE Next /\ pc[u] \in Pager
      <3>1. CASE Paging(u)
        <4>1. PageRead(u)
          BY <1>2, <3>1 DEF Paging, GainSwapPool, PickFrame, PageWritten,
             ReleaseSwapPool, flashIO, At, GoTo, IInv, TypeOK, OwnerTold
        <4> QED
          BY <1>2, <4>1 DEF PageRead, TLBCLR, IInv, TypeOK
      <3>2. CASE WaitUProc
        BY <1>2, <3>2 DEF WaitUProc, Cured, pagerVars
      <3>3. ASSUME NEW v \in UProc, v # u, Die(v)
            PROVE  pgTbl'[u][missing'[u]] = victim'[u] /\ tlb' = {}
        BY <1>2, <3>3 DEF Die, GoTo, Cured, pagerVars
      <3> QED
        BY <1>2, <2>2, <3>1, <3>2, <3>3, PagerAlone
    <2>3. CASE Next /\ pc[u] \notin Pager
      <3>1. CASE \E v \in UProc : Paging(v)
        <4>1. PICK v \in UProc : Paging(v)
          BY <3>1
        <4>2. pc[v] \in Pager
          BY <4>1 DEF Paging, GainSwapPool, PickFrame, PageWritten, PageRead,
                      ReleaseSwapPool, At, Pager
        <4>3. pc'[u] = pc[u]
          <5>1. /\ v # u /\ pc \in [UProc -> Place]
                /\ \A w \in UProc : pc[w] # "swapwait"
            BY <1>2, <2>3, <4>2 DEF IInv, TypeOK, OwnerTold
          <5>2. CASE GainSwapPool(v) \/ PickFrame(v) \/ PageWritten(v) \/ PageRead(v)
            BY <5>1, <5>2 DEF GainSwapPool, PickFrame, PageWritten, PageRead, flashIO,
                              GoTo
          <5>3. CASE ReleaseSwapPool(v)
            BY <5>1, <5>3 DEF ReleaseSwapPool, GoTo
          <5> QED
            BY <4>1, <5>2, <5>3 DEF Paging
        <4> QED
          BY <2>3, <4>3 DEF Pager
      <3>2. CASE ~\E v \in UProc : Paging(v)
        <4>1. pc'[u] # "loaded"
          BY <1>2, <2>3, <3>2 DEF Next, Test, CreateUProc, WaitUProc, EndTest, Handler,
             programTrapHandler, Die, User, Trap, UserModeSyscall, writeString,
             readTerminal, StringCall, uTLB_RefillHandler, PageFault, GoTo, Pager,
             IInv, TypeOK
        <4> QED
          BY <4>1
      <3> QED
        BY <3>1, <3>2
    <2> QED
      BY <1>2, <2>1, <2>2, <2>3
  <1> QED
    BY <1>1, <1>2, SupportInvariance, PTL DEF Spec

\* After the V of a U-proc nothing but a bounded number of SYS2s comes before
\* test() goes on to the next one: what EndNoticed needs besides fairness.
THEOREM EndIsNoticed == Spec => EndShortens
  <1>1. ASSUME IInv, Next, NEW u \in UProc, pc[u] \in Gone, i = u
        PROVE  \/ i' = u + 1
               \/ i' = i /\ Cardinality(Dying)' < Cardinality(Dying)
    <2>1. test = "wait" /\ procSem = 1
      BY <1>1, SupportAssumption DEF IInv, TypeOK, OneAfterTheOther, UProc, Gone
    <2>2. \A v \in UProc : pc[v] \in Idle
      BY <1>1, OnlyOne DEF Idle
    <2>3. CASE Test
      BY <1>1, <2>1, <2>3 DEF Test, CreateUProc, EndTest, WaitUProc, NextUProc
    <2>4. ASSUME NEW v \in UProc, Handler(v)
          PROVE  i' = i /\ Cardinality(Dying)' < Cardinality(Dying)
      <3>1. Die(v)
        BY <2>2, <2>4 DEF Handler, programTrapHandler, At, Idle, Gone
      <3>2. i' = i /\ Cardinality(Dying)' = Cardinality(Dying) - 1
        BY <1>1, <3>1, DieLessDying DEF Die, testVars
      <3> QED
        BY <3>2, DyingFinite
    <2>5. ASSUME NEW v \in UProc, Paging(v) \/ User(v)
          PROVE  FALSE
      <3>1. pc[v] \in Pager \cup {"user"}
        BY <2>5 DEF Paging, GainSwapPool, PickFrame, PageWritten, PageRead,
           ReleaseSwapPool, User, Trap, UserModeSyscall, writeString, readTerminal,
           StringCall, uTLB_RefillHandler, PageFault, At, Pager
      <3> QED
        BY <2>2, <3>1 DEF Idle, Gone, Pager
    <2> QED
      BY <1>1, <2>3, <2>4, <2>5 DEF Next
  <1>2. IInv /\ [Next]_vars =>
          [\A u \in UProc : pc[u] \in Gone /\ i = u =>
              \/ i' = u + 1
              \/ i' = i /\ Cardinality(Dying)' < Cardinality(Dying)]_vars
    BY <1>1
  <1> QED
    BY <1>2, SupportInvariance, PTL DEF Spec, EndShortens

=============================================================================
