------------------------------ MODULE Support ------------------------------
(***************************************************************************)
(* The support level of phase 3: the instantiator test() of initProc.c,    *)
(* the pager and the TLB refill of vmSupport.c, SYS9 to SYS13 and the traps *)
(* of sysSupport.c.                                                        *)
(*                                                                         *)
(* Processes interleave wherever interrupts are on, so that what is done   *)
(* with interrupts off is one action.  Of the nucleus this module uses what *)
(* Nucleus and DeviceIO show of it: a P blocks while the semaphore is      *)
(* negative and a V lets a blocked process go on, SYS5 returns when the     *)
(* operation has ended, SYS2 ends the caller and its progeny.              *)
(***************************************************************************)
EXTENDS Integers, FiniteSets

CONSTANTS
    UPROCMAX,   \* U-procs; their ASIDs are 1..UPROCMAX
    PGMAX,      \* pages of a U-proc, the last of which is its stack
    POOLSIZE,   \* frames of the swap pool
    TLBSIZE     \* entries of the TLB

ASSUME SupportAssumption ==
    /\ UPROCMAX \in 1..8
    /\ PGMAX \in Nat \ {0}
    /\ POOLSIZE \in Nat \ {0}
    /\ TLBSIZE \in Nat \ {0}

UProc == 1..UPROCMAX
Page  == 0..(PGMAX - 1)
StackPage == PGMAX - 1
Frame == 0..(POOLSIZE - 1)
NONE == -1      \* of a frame: free; of a page table entry: not valid

VARIABLES
    test,       \* where test() is: "create", "wait", "blocked", "end", "dead"
    i,          \* the U-proc test() is at
    pc,         \* where each U-proc is: see Alive and the actions
    missing,    \* the page a U-proc faulted on
    victim,     \* the frame its page fault replaces
    procSem, swapSem, devMutex,
    next,       \* the static i of vmSupport.c: the last victim
    swapPool,   \* of each frame: <<ASID, page>>, the ASID NONE if it is free
    pgTbl,      \* of each U-proc and page: the frame, or NONE if not valid
    tlb         \* the entries: [asid, page, lo], lo as in pgTbl

testVars == <<test, i>>
pagerVars == <<missing, victim, swapSem, next, swapPool, pgTbl>>
vars == <<testVars, pc, procSem, devMutex, pagerVars, tlb>>

Pager == {"fault", "swapwait", "swap", "writing", "reading", "loaded"}
Place == {"none", "user", "spinning", "hung", "trap", "die", "dead", "ended", "mutexwait"}
         \cup Pager

Mutexes == (33..40) \cup (41..48)   \* those of devMutex[] the handlers use

TypeOK ==
    /\ test \in {"create", "wait", "blocked", "end", "dead"}
    /\ i \in 1..(UPROCMAX + 1)
    /\ pc \in [UProc -> Place]
    /\ missing \in [UProc -> Page]
    /\ victim \in [UProc -> Frame]
    /\ procSem \in -1..1
    /\ swapSem \in (1 - UPROCMAX)..1
    /\ devMutex \in [Mutexes -> -1..2]
    /\ next \in Frame
    /\ swapPool \in [Frame -> (UProc \cup {NONE}) \X Page]
    /\ pgTbl \in [UProc -> [Page -> Frame \cup {NONE}]]
    /\ tlb \subseteq [asid : 0..UPROCMAX, page : Page, lo : Frame \cup {NONE}]

Init ==
    /\ test = "create" /\ i = 1
    /\ pc = [u \in UProc |-> "none"]
    /\ missing = [u \in UProc |-> 0]
    /\ victim = [u \in UProc |-> 0]
    /\ procSem = 0 /\ swapSem = 1
    /\ devMutex = [m \in Mutexes |-> 1]
    /\ next = 0
    /\ swapPool = [f \in Frame |-> <<NONE, 0>>]
    /\ pgTbl = [u \in UProc |-> [p \in Page |-> NONE]]
    /\ tlb = {}

\* The machine loops with interrupts off.
Hung == \E u \in UProc : pc[u] = "hung"

At(u, place) == pc[u] = place /\ ~Hung
GoTo(u, place) == pc' = [pc EXCEPT ![u] = place]

----------------------------------------------------------------------------
(* test().                                                                 *)

\* What test() does once its P on procSem is through.
NextUProc ==
    /\ i' = i + 1
    /\ test' = IF i = UPROCMAX THEN "end" ELSE "create"

\* SYS1 for U-proc i, whose page table has no valid entry.
CreateUProc ==
    /\ test = "create" /\ ~Hung
    /\ GoTo(i, "user")
    /\ test' = "wait"
    /\ UNCHANGED <<i, procSem, devMutex, pagerVars, tlb>>

\* Mutant of WaitUProc: test() creates all the U-procs and then waits.
WaitForAll ==
    /\ test = "wait" /\ ~Hung
    /\ IF i < UPROCMAX
       THEN NextUProc /\ UNCHANGED procSem
       ELSE procSem' = procSem - 1 /\ test' = "blocked" /\ UNCHANGED i
    /\ UNCHANGED <<pc, devMutex, pagerVars, tlb>>

\* P(procSem), inside the loop.
WaitUProc ==
    /\ test = "wait" /\ ~Hung
    /\ procSem' = procSem - 1
    /\ IF procSem' < 0 THEN test' = "blocked" /\ UNCHANGED i ELSE NextUProc
    /\ UNCHANGED <<pc, devMutex, pagerVars, tlb>>

\* SYS2: test() ends, and every U-proc there still is.
EndTest ==
    /\ test = "end" /\ ~Hung
    /\ test' = "dead"
    /\ pc' = [u \in UProc |-> "dead"]
    /\ UNCHANGED <<i, procSem, devMutex, pagerVars, tlb>>

\* Mutant of VProcSem: the test of a V without the process it counts.
VBelowZero ==
    /\ procSem' = procSem + 1
    /\ IF procSem' < 0 THEN NextUProc ELSE UNCHANGED testVars

\* V(procSem); test() is the only one to wait for it.
VProcSem ==
    /\ procSem' = procSem + 1
    /\ IF procSem' <= 0 THEN NextUProc ELSE UNCHANGED testVars

----------------------------------------------------------------------------
(* System calls and traps of a U-proc.                                     *)

\* A trap, SYS9, or a number above 13: supGenExceptionHandler is entered.
Trap(u) ==
    /\ At(u, "user")
    /\ GoTo(u, "trap")
    /\ UNCHANGED <<testVars, procSem, devMutex, pagerVars, tlb>>

\* Mutant of programTrapHandler: no V.
TrapWithoutV(u) ==
    /\ At(u, "trap")
    /\ GoTo(u, "die")
    /\ UNCHANGED <<testVars, procSem, devMutex, pagerVars, tlb>>

\* Its V on procSem; test() may run before the SYS2.
programTrapHandler(u) ==
    /\ At(u, "trap")
    /\ VProcSem
    /\ GoTo(u, "die")
    /\ UNCHANGED <<devMutex, pagerVars, tlb>>

Die(u) ==
    /\ At(u, "die")
    /\ GoTo(u, "dead")
    /\ UNCHANGED <<testVars, procSem, devMutex, pagerVars, tlb>>

\* Mutant of UserModeSyscall: the call is refused, and its caller goes on.
UserModeGoesOn(u) ==
    /\ At(u, "user")
    /\ VProcSem
    /\ UNCHANGED <<pc, devMutex, pagerVars, tlb>>

\* SYS1 to SYS8 in user mode: the nucleus's syscallHandler calls the support
\* level's programTrapHandler, with interrupts off.
UserModeSyscall(u) ==
    /\ At(u, "user")
    /\ VProcSem
    /\ GoTo(u, "dead")
    /\ UNCHANGED <<devMutex, pagerVars, tlb>>

Mutex(u) == (7 - 3) * 8 + u     \* devIndex of the three handlers

\* writePrinter, writeTerminal and readTerminal, with interrupts off up to the
\* LDST.  badLength: not in 0..128.  inKuseg: below 0xC0000000, as the string of
\* any U-proc is; an address above is in no page table, so that the first
\* character is looked for for ever.
StringCall(u, badLength, length, inKuseg, released) ==
    LET m == Mutex(u) IN
    /\ At(u, "user")
    /\ \/ /\ badLength \/ inKuseg
          /\ GoTo(u, "ended")                       \* SYS2 alone
          /\ UNCHANGED devMutex
       \/ /\ ~badLength /\ ~inKuseg
          /\ devMutex[m] <= 0
          /\ devMutex' = [devMutex EXCEPT ![m] = @ - 1]
          /\ GoTo(u, "mutexwait")
       \/ /\ ~badLength /\ ~inKuseg
          /\ devMutex[m] > 0
          /\ length > 0
          /\ devMutex' = [devMutex EXCEPT ![m] = @ - 1]
          /\ GoTo(u, "hung")
       \/ /\ ~badLength /\ ~inKuseg
          /\ devMutex[m] > 0
          /\ length = 0
          /\ devMutex' = [[devMutex EXCEPT ![m] = @ - 1] EXCEPT ![released] = @ + 1]
          /\ UNCHANGED pc
    /\ UNCHANGED <<testVars, procSem, pagerVars, tlb>>

writeString(u) ==
    \E bad, inKuseg \in BOOLEAN, length \in 0..1 :
        StringCall(u, bad, length, inKuseg, Mutex(u))

readTerminal(u) ==
    \E bad, inKuseg \in BOOLEAN, length \in 0..1 :
        StringCall(u, bad, length, inKuseg, Mutex(u) + 8)

----------------------------------------------------------------------------
(* The pager.                                                              *)

\* The ASID in the entryHI of a page table entry: that of the stack page is
\* made from i, the others from i + 1.
PageAsid(u, p) == IF p = StackPage THEN u - 1 ELSE u

InTLB(u, p) == \E e \in tlb : e.asid = u /\ e.page = p

\* TLBWR overwrites an entry at random.  The stack page is never found
\* afterwards: its user goes on with refills for ever.
uTLB_RefillHandler(u, p) ==
    /\ At(u, "user")
    /\ ~InTLB(u, p)
    /\ LET entry == [asid |-> PageAsid(u, p), page |-> p, lo |-> pgTbl[u][p]] IN
       \E lost \in {{}} \cup {{e} : e \in tlb} :
          /\ tlb' = (tlb \ lost) \cup {entry}
          /\ Cardinality(tlb') <= TLBSIZE
    /\ IF PageAsid(u, p) = u THEN UNCHANGED pc ELSE GoTo(u, "spinning")
    /\ UNCHANGED <<testVars, procSem, devMutex, pagerVars>>

\* The TLB has the entry, and it is not valid.
PageFault(u, p) ==
    /\ At(u, "user")
    /\ \E e \in tlb : e.asid = u /\ e.page = p /\ e.lo = NONE
    /\ missing' = [missing EXCEPT ![u] = p]
    /\ GoTo(u, "fault")
    /\ UNCHANGED <<testVars, procSem, devMutex, victim, swapSem, next, swapPool,
                   pgTbl, tlb>>

\* P(swapSem).
GainSwapPool(u) ==
    /\ At(u, "fault")
    /\ swapSem' = swapSem - 1
    /\ GoTo(u, IF swapSem' < 0 THEN "swapwait" ELSE "swap")
    /\ UNCHANGED <<testVars, procSem, devMutex, missing, victim, next, swapPool,
                   pgTbl, tlb>>

pickVictim == (next + 1) % POOLSIZE

\* Mutant of Invalidated: the owner's page table is left as it is.
NotInvalidated(f) == pgTbl

\* The page tables once the page in an occupied frame f is marked not valid.
Invalidated(f) ==
    LET owner == swapPool[f][1] IN
    [pgTbl EXCEPT ![owner][swapPool[f][2]] = NONE]

\* The command and the SYS5, with interrupts off: u is blocked until the end of
\* the transfer.
flashIO(u, transfer) == GoTo(u, transfer)

\* The choice of a frame; the transfer to or from flash is started.
PickFrame(u) ==
    /\ At(u, "swap")
    /\ next' = pickVictim
    /\ victim' = [victim EXCEPT ![u] = pickVictim]
    /\ IF swapPool[pickVictim][1] # NONE
       THEN pgTbl' = Invalidated(pickVictim) /\ flashIO(u, "writing")
       ELSE UNCHANGED pgTbl /\ flashIO(u, "reading")
    /\ UNCHANGED <<testVars, procSem, devMutex, missing, swapSem, swapPool, tlb>>

\* Mutant of PageWritten: any status but the expected one ends the U-proc.
PageWrittenOrTrap(u) ==
    /\ At(u, "writing")
    /\ \E place \in {"reading", "trap"} : GoTo(u, place)
    /\ UNCHANGED <<testVars, procSem, devMutex, pagerVars, tlb>>

\* No status of a device is ERRORCODE, which is -1: the read is started.
PageWritten(u) ==
    /\ At(u, "writing")
    /\ flashIO(u, "reading")
    /\ UNCHANGED <<testVars, procSem, devMutex, pagerVars, tlb>>

TLBCLR == tlb' = {}

\* The page is there, whatever the status.
PageRead(u) ==
    /\ At(u, "reading")
    /\ swapPool' = [swapPool EXCEPT ![victim[u]] = <<u, missing[u]>>]
    /\ pgTbl' = [pgTbl EXCEPT ![u][missing[u]] = victim[u]]
    /\ TLBCLR
    /\ GoTo(u, "loaded")
    /\ UNCHANGED <<testVars, procSem, devMutex, missing, victim, swapSem, next>>

\* Mutant of ReleaseSwapPool: no V.
KeepSwapPool(u) ==
    /\ At(u, "loaded")
    /\ GoTo(u, "user")
    /\ UNCHANGED <<testVars, procSem, devMutex, pagerVars, tlb>>

\* V(swapSem), and back to the instruction that faulted.
ReleaseSwapPool(u) ==
    /\ At(u, "loaded")
    /\ swapSem' = swapSem + 1
    /\ IF swapSem' <= 0
       THEN \E v \in UProc : /\ pc[v] = "swapwait"
                             /\ pc' = [pc EXCEPT ![u] = "user", ![v] = "swap"]
       ELSE GoTo(u, "user")
    /\ UNCHANGED <<testVars, procSem, devMutex, missing, victim, next, swapPool,
                   pgTbl, tlb>>

----------------------------------------------------------------------------
Test == CreateUProc \/ WaitUProc \/ EndTest

Handler(u) == programTrapHandler(u) \/ Die(u)

Paging(u) ==
    \/ GainSwapPool(u) \/ PickFrame(u) \/ PageWritten(u)
    \/ PageRead(u) \/ ReleaseSwapPool(u)

User(u) ==
    \/ Trap(u) \/ UserModeSyscall(u) \/ writeString(u) \/ readTerminal(u)
    \/ \E p \in Page : uTLB_RefillHandler(u, p) \/ PageFault(u, p)

Next == Test \/ \E u \in UProc : Handler(u) \/ Paging(u) \/ User(u)

Spec == Init /\ [][Next]_vars

\* The transfers of u are answered: they use its own flash device, u - 1, and those
\* of U-procs before it, and interrupts.c exchanges devices 1 and 2 (DeviceIO).
FlashAnswers(u) == \A v \in 1..u : v - 1 \notin {1, 2}

\* The ready queue is served in turn and flash operations end where interrupts.c
\* lets them; what a U-proc's program does is its own affair.
FairSpec ==
    /\ Spec
    /\ WF_vars(Test)
    /\ \A u \in UProc : /\ WF_vars(Handler(u))
                        /\ FlashAnswers(u) => WF_vars(Paging(u))

----------------------------------------------------------------------------
(* Correctness.                                                            *)

InPager(u) == pc[u] \in Pager \ {"fault", "swapwait"}

\* A page table and the swap pool agree: a valid entry names the frame that the
\* pool gives to its page, and no page has two frames.
PoolAgrees ==
    /\ \A u \in UProc, p \in Page :
          pgTbl[u][p] # NONE => swapPool[pgTbl[u][p]] = <<u, p>>
    /\ \A f, g \in Frame :
          swapPool[f] = swapPool[g] /\ swapPool[f][1] # NONE => f = g

\* What a running U-proc finds in the TLB is what its page table says, though
\* entries are invalidated long before the TLB is cleared.
TLBAgrees ==
    \A u \in UProc, e \in tlb :
        pc[u] = "user" /\ e.asid = u => e.lo = pgTbl[u][e.page]

\* swapSem counts down for each U-proc in the pager or before it, one at most is
\* in it, and none ends in it.
SwapPoolOwned ==
    /\ swapSem = 1 - Cardinality({u \in UProc : InPager(u) \/ pc[u] = "swapwait"})
    /\ \A u, v \in UProc : InPager(u) /\ InPager(v) => u = v

\* Nobody can run and nobody waits for a device: the scheduler's PANIC.
Panicked ==
    /\ test = "blocked"
    /\ \A u \in UProc : pc[u] \in {"none", "dead", "ended", "mutexwait", "swapwait"}

\* The one way to a PANIC is a U-proc that SYS11 to SYS13 ended or blocked: no
\* other end of a U-proc goes past test().
PanicExplained == Panicked => \E u \in UProc : pc[u] \in {"ended", "mutexwait"}

\* A U-proc that did its V has been waited for: test() gets to the next one.
EndNoticed == \A u \in UProc : pc[u] = "die" ~> i > u

\* A page fault is served, whatever has to be written first.
FaultServed ==
    \A u \in UProc : FlashAnswers(u) => (pc[u] = "fault" ~> pc[u] = "user")

=============================================================================
