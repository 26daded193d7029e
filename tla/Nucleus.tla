------------------------------ MODULE Nucleus ------------------------------
(***************************************************************************)
(* The PandOS nucleus (src/phase2: initial.c, scheduler.c, exceptions.c,   *)
(* interrupts.c): the process tree, the ready queue, the semaphores with   *)
(* the processes blocked on them, SYS1-SYS8, pass up or die, the interrupt *)
(* handlers and the scheduler they all end in.                             *)
(*                                                                         *)
(* One processor.  A handler runs with interrupts off and ends by loading  *)
(* a processor state (LDST), by WAIT, or by HALT/PANIC, so a handler is    *)
(* one action.  terminateProcess is recursive: its activation records are  *)
(* the stack "dying", it takes one action per call, per unlink and per     *)
(* return, and nothing else is enabled until it is done.                   *)
(*                                                                         *)
(* Abstracted: process queues and child lists are sequences (ProcQueue and *)
(* ProcTree have their links), the ASL is a function from semaphore        *)
(* addresses to queues (see ASL), and the free list is a set: its order    *)
(* only says which of equal pcbs is handed out.  It is handed out without  *)
(* children; ProcTree has the one case in which it is not.  Registers, CPU *)
(* time and what running processes compute are left out: a running process *)
(* may make any call at any time, and a device may interrupt at any time.  *)
(***************************************************************************)
EXTENDS Integers, Sequences, FiniteSets, SequencesExt

CONSTANTS
    Pcb,       \* the elements of procTable (MAXPROC of them)
    Sema4,     \* addresses of the semaphores processes use with SYS3 and SYS4
    Device,    \* addresses of deviceSema4s[0 .. SEMCOUNT-2]
    Clock,     \* address of clockSem, which is deviceSema4s[SEMCOUNT-1]
    Support,   \* addresses of support structures
    NULL,
    SemMax     \* bound: SYS4 and device interrupts stop counting up here

SemAdd == Sema4 \cup Device \cup {Clock}

ASSUME PcbAssumption == IsFiniteSet(Pcb) /\ Pcb # {} /\ NULL \notin Pcb
ASSUME SemAddAssumption == /\ Clock \notin Sema4 \cup Device
                           /\ Sema4 \cap Device = {}
                           /\ NULL \notin SemAdd
                           /\ NULL \notin Support
ASSUME SemMaxAssumption == SemMax \in Nat \ {0}

VARIABLES
    pcbFree,          \* the pcbs on the free list
    readyQ,           \* the ready queue, head first
    currentProc,      \* the running process, or NULL
    processCount,     \* processes created and not yet terminated
    softBlockCount,   \* processes waiting for a device or for the clock
    semaphore,        \* the value of every semaphore
    asl,              \* the queue of every semaphore; <<>> has no descriptor
    semdFree,         \* how many semaphore descriptors are on their free list
    p_semAdd,         \* the semaphore a pcb is blocked on, or NULL
    p_child,          \* the children of a pcb, the latest first
    p_supportStruct,  \* the support structure of a pcb, or NULL
    p_s,              \* what the p_s of a pcb holds, see StateOf
    dying,            \* the calls of terminateProcess, the innermost first
    cpu               \* what the processor is doing

procVars == <<pcbFree, p_child, p_supportStruct, processCount>>
semVars  == <<semaphore, asl, semdFree, p_semAdd, softBlockCount>>
vars     == <<procVars, semVars, readyQ, currentProc, p_s, dying, cpu>>

\* "saved": the state its process stopped in; "loaded": the state its process
\* was last resumed from, which was the one it had stopped in; "old": any other.
StateOf == {"saved", "loaded", "old"}

CpuState == {"run", "terminate", "dispose", "wait", "halt", "panic"}

TypeOK ==
    /\ pcbFree \subseteq Pcb
    /\ readyQ \in Seq(Pcb)
    /\ currentProc \in Pcb \cup {NULL}
    /\ processCount \in Nat
    /\ softBlockCount \in Nat
    /\ semaphore \in [SemAdd -> Int]
    /\ asl \in [SemAdd -> Seq(Pcb)]
    /\ semdFree \in Nat
    /\ p_semAdd \in [Pcb -> SemAdd \cup {NULL}]
    /\ p_child \in [Pcb -> Seq(Pcb)]
    /\ p_supportStruct \in [Pcb -> Support \cup {NULL}]
    /\ p_s \in [Pcb -> StateOf]
    /\ dying \in Seq(Pcb)
    /\ cpu \in CpuState

----------------------------------------------------------------------------
(* main() up to the first LDST: one process, made by hand, is running.     *)

Init ==
    \E root \in Pcb :
        /\ pcbFree = Pcb \ {root}
        /\ readyQ = <<>>
        /\ currentProc = root
        /\ processCount = 1
        /\ softBlockCount = 0
        /\ semaphore = [a \in SemAdd |-> 0]
        /\ asl = [a \in SemAdd |-> <<>>]
        /\ semdFree = Cardinality(Pcb)
        /\ p_semAdd = [p \in Pcb |-> NULL]
        /\ p_child = [p \in Pcb |-> <<>>]
        /\ p_supportStruct = [p \in Pcb |-> NULL]
        /\ p_s = [p \in Pcb |-> IF p = root THEN "loaded" ELSE "old"]
        /\ dying = <<>>
        /\ cpu = "run"

----------------------------------------------------------------------------
(* The scheduler and the processor state.                                  *)

\* switchState(&p->p_s): the process goes on from what ps says p_s holds.
Load(ps, p) == [ps EXCEPT ![p] = IF @ = "saved" THEN "loaded" ELSE "old"]

\* Mutant of StateCopy: the copy is forgotten.
NoStateCopy == p_s

\* stateCopy of the exception state into p_s of the current process.
StateCopy == [p_s EXCEPT ![currentProc] = "saved"]

\* The end of a handler that reloads the current process.
Resume(ps) == p_s' = Load(ps, currentProc) /\ UNCHANGED <<currentProc, cpu>>

\* removeProcQ(&readyQ): the head is dispatched.
Dispatch(rq, ps) ==
    /\ readyQ' = Tail(rq)
    /\ currentProc' = Head(rq)
    /\ p_s' = Load(ps, Head(rq))
    /\ cpu' = "run"

\* Mutant of Idle: the last soft-blocked process is not counted.
IdleOffByOne == IF processCount' = 0 THEN "halt"
                ELSE IF softBlockCount' > 1 THEN "wait" ELSE "panic"

\* Nothing is ready.
Idle == IF processCount' = 0 THEN "halt"
        ELSE IF softBlockCount' > 0 THEN "wait" ELSE "panic"

\* Called last by a handler that leaves the ready queue rq, the current process
\* cur and the saved states ps; it reads the two counters the handler leaves.
Scheduler(rq, cur, ps) ==
    IF rq # <<>> THEN Dispatch(rq, ps)
                 ELSE /\ readyQ' = rq
                      /\ currentProc' = cur
                      /\ p_s' = ps
                      /\ cpu' = Idle

----------------------------------------------------------------------------
(* The ASL, as the nucleus uses it.                                        *)

\* Mutant of Dequeue: the descriptor is never given back.
DequeueLeak(a, q) == asl' = [asl EXCEPT ![a] = q] /\ UNCHANGED semdFree

\* The queue of a was not empty and becomes q: an empty queue gives its
\* descriptor back.
Dequeue(a, q) ==
    /\ asl' = [asl EXCEPT ![a] = q]
    /\ semdFree' = IF q = <<>> THEN semdFree + 1 ELSE semdFree

\* insertBlocked: its result, TRUE when no descriptor is left, is ignored by
\* every caller in exceptions.c.
InsertBlocked(a, p) ==
    IF asl[a] = <<>> /\ semdFree = 0
    THEN UNCHANGED <<asl, semdFree, p_semAdd>>
    ELSE /\ asl' = [asl EXCEPT ![a] = Append(@, p)]
         /\ semdFree' = IF asl[a] = <<>> THEN semdFree - 1 ELSE semdFree
         /\ p_semAdd' = [p_semAdd EXCEPT ![p] = a]

\* removeBlocked on a queue that has a waiter.
RemoveBlocked(a) ==
    /\ Dequeue(a, Tail(asl[a]))
    /\ p_semAdd' = [p_semAdd EXCEPT ![Head(asl[a])] = NULL]

\* Mutant of Signals: the test after the increment is strict.
SignalsStrict(a) == semaphore[a] + 1 < 0 /\ asl[a] # <<>>

\* A V finds somebody to wake.
Signals(a) == semaphore[a] + 1 <= 0 /\ asl[a] # <<>>

\* The V of SYS4 and of the interrupt handler, and the ready queue it leaves.
V(a) ==
    /\ semaphore' = [semaphore EXCEPT ![a] = @ + 1]
    /\ IF Signals(a) THEN RemoveBlocked(a) ELSE UNCHANGED <<asl, semdFree, p_semAdd>>

\* Mutant of ReadyAfterV: the process that is woken goes to the front.
ReadyAfterVFront(a) == IF Signals(a) THEN <<Head(asl[a])>> \o readyQ ELSE readyQ

ReadyAfterV(a) == IF Signals(a) THEN Append(readyQ, Head(asl[a])) ELSE readyQ

\* Mutant of IsSoft: the upper end of the range is left out.
IsSoftExclusive(a) == a \in Device

\* The semaphores terminateProcess takes for device semaphores: those between
\* &deviceSema4s[0] and &clockSem.
IsSoft(a) == a \in Device \cup {Clock}

----------------------------------------------------------------------------
(* The system calls of the running process.                                *)

\* Mutant of NewChildren: the new child is not linked to its siblings.
NewChildrenLost(p) ==
    [p_child EXCEPT ![p] = IF pcbFree = {p} THEN @ ELSE <<>>,
                    ![currentProc] = <<p>>]

\* SYS1.  The last pcb of the free list is handed out as freePcb left it
\* (allocPcb clears the links of the others); createProcess sets the rest.
NewChildren(p) ==
    [p_child EXCEPT ![p] = IF pcbFree = {p} THEN @ ELSE <<>>,
                    ![currentProc] = <<p>> \o @]

CreateProcess(sup) ==
    /\ cpu = "run"
    /\ IF pcbFree = {}
       THEN Resume(StateCopy) /\ UNCHANGED <<procVars, semVars, readyQ, dying>>
       ELSE \E p \in pcbFree :
              /\ pcbFree' = pcbFree \ {p}
              /\ processCount' = processCount + 1
              /\ p_supportStruct' = [p_supportStruct EXCEPT ![p] = sup]
              /\ p_semAdd' = [p_semAdd EXCEPT ![p] = NULL]
              /\ p_child' = NewChildren(p)
              /\ readyQ' = Append(readyQ, p)
              /\ Resume([StateCopy EXCEPT ![p] = "saved"])
              /\ UNCHANGED <<semaphore, asl, semdFree, softBlockCount, dying>>

\* terminateProcess(currentProc) begins.
Terminate ==
    /\ cpu' = "terminate"
    /\ dying' = <<currentProc>>
    /\ UNCHANGED <<procVars, semVars, readyQ, currentProc, p_s>>

\* SYS2.
TerminateProcess == cpu = "run" /\ Terminate

\* Any other exception, a SYS number above 8, or a SYS1-SYS8 in user mode:
\* with a support structure the process goes on in its support level, from a
\* context that is not p_s; without one it dies.
PassUpOrDie ==
    /\ cpu = "run"
    /\ p_supportStruct[currentProc] = NULL
    /\ Terminate

\* SYS3.
Passeren(s) ==
    /\ cpu = "run"
    /\ UNCHANGED <<procVars, softBlockCount, dying>>
    /\ semaphore' = [semaphore EXCEPT ![s] = @ - 1]
    /\ IF semaphore'[s] < 0
       THEN /\ InsertBlocked(s, currentProc)
            /\ Scheduler(readyQ, NULL, StateCopy)
       ELSE /\ Resume(StateCopy)
            /\ UNCHANGED <<asl, semdFree, p_semAdd, readyQ>>

\* SYS4.
Verhogen(s) ==
    /\ cpu = "run"
    /\ semaphore[s] < SemMax
    /\ V(s)
    /\ readyQ' = ReadyAfterV(s)
    /\ Resume(StateCopy)
    /\ UNCHANGED <<procVars, softBlockCount, dying>>

\* SYS5.  When the semaphore does not go below 0 nothing is saved, and
\* syscallHandler reloads p_s as it is.
WaitForDevice(d) ==
    /\ cpu = "run"
    /\ UNCHANGED <<procVars, dying>>
    /\ semaphore' = [semaphore EXCEPT ![d] = @ - 1]
    /\ IF semaphore'[d] < 0
       THEN /\ InsertBlocked(d, currentProc)
            /\ softBlockCount' = softBlockCount + 1
            /\ Scheduler(readyQ, NULL, StateCopy)
       ELSE /\ Resume(p_s)
            /\ UNCHANGED <<asl, semdFree, p_semAdd, softBlockCount, readyQ>>

\* SYS6 and SYS8.
GetInfo ==
    /\ cpu = "run"
    /\ Resume(StateCopy)
    /\ UNCHANGED <<procVars, semVars, readyQ, dying>>

\* SYS7.  When the semaphore does not go below 0 nothing is saved, and the
\* scheduler is called with the process still current and in no queue.
WaitForClock ==
    /\ cpu = "run"
    /\ UNCHANGED <<procVars, dying>>
    /\ semaphore' = [semaphore EXCEPT ![Clock] = @ - 1]
    /\ IF semaphore'[Clock] < 0
       THEN /\ InsertBlocked(Clock, currentProc)
            /\ softBlockCount' = softBlockCount + 1
            /\ Scheduler(readyQ, NULL, StateCopy)
       ELSE /\ UNCHANGED <<asl, semdFree, p_semAdd, softBlockCount>>
            /\ Scheduler(readyQ, currentProc, p_s)

----------------------------------------------------------------------------
(* terminateProcess, one call at a time.  The call in progress is the head *)
(* of "dying".                                                             *)

\* Mutant of OtherChildren: the siblings of the first child are forgotten.
NoOtherChildren(p) == <<>>

\* removeChild takes the first child off the list.
OtherChildren(p) == Tail(p_child[p])

\* The while loop: the first child is taken off the list and dies first.
TerminateChild ==
    LET p == Head(dying) IN
    /\ cpu = "terminate"
    /\ p_child[p] # <<>>
    /\ dying' = <<Head(p_child[p])>> \o dying
    /\ p_child' = [p_child EXCEPT ![p] = OtherChildren(p)]
    /\ UNCHANGED <<pcbFree, p_supportStruct, processCount, semVars, readyQ,
                   currentProc, p_s, cpu>>

\* Mutant of Incremented: a killed waiter's P is not undone.
NotIncremented(a) == semaphore

\* The semaphores after the waiter of a counting semaphore is killed.
Incremented(a) == [semaphore EXCEPT ![a] = @ + 1]

\* Mutant of OutBlocked: the first waiter leaves, not p.
OutBlockedHead(a, p) ==
    /\ Dequeue(a, Tail(asl[a]))
    /\ p_semAdd' = [p_semAdd EXCEPT ![p] = NULL]

\* outBlocked: p leaves the queue of a, wherever in it it is.
OutBlocked(a, p) ==
    /\ Dequeue(a, RemoveFirst(asl[a], p))
    /\ p_semAdd' = [p_semAdd EXCEPT ![p] = NULL]

\* The dying pcb is blocked: it leaves its queue, where outBlocked always finds
\* it (OneQueueEach), and is no longer counted.  A waiter of a device or of the
\* clock is taken off softBlockCount; for any other one its P is undone.
UnlinkBlocked ==
    LET p == Head(dying)
        a == p_semAdd[p]
    IN
    /\ cpu = "terminate"
    /\ p_child[p] = <<>>
    /\ a # NULL
    /\ IF IsSoft(a)
       THEN softBlockCount' = softBlockCount - 1 /\ UNCHANGED semaphore
       ELSE semaphore' = Incremented(a) /\ UNCHANGED softBlockCount
    /\ OutBlocked(a, p)
    /\ processCount' = processCount - 1
    /\ cpu' = "dispose"
    /\ UNCHANGED <<pcbFree, p_child, p_supportStruct, readyQ, currentProc, p_s, dying>>

\* Mutant of CountWithout: counted down wherever the pcb was.
CountAlwaysDown(p) == processCount - 1

\* processCount once p, which is not blocked, has been looked for in readyQ.
CountWithout(p) ==
    IF Contains(readyQ, p) THEN processCount - 1 ELSE processCount

\* outProcQ(&readyQ, p): only a pcb that was ready is counted here.
UnlinkReady ==
    LET p == Head(dying) IN
    /\ cpu = "terminate"
    /\ p_child[p] = <<>>
    /\ p_semAdd[p] = NULL
    /\ readyQ' = RemoveFirst(readyQ, p)
    /\ processCount' = CountWithout(p)
    /\ cpu' = "dispose"
    /\ UNCHANGED <<pcbFree, p_child, p_supportStruct, semVars, currentProc, p_s, dying>>

\* The call for a descendant frees its pcb and returns to the caller's loop.
DisposeChild ==
    LET p == Head(dying) IN
    /\ cpu = "dispose"
    /\ p # currentProc
    /\ pcbFree' = pcbFree \cup {p}
    /\ dying' = Tail(dying)
    /\ cpu' = "terminate"
    /\ UNCHANGED <<p_child, p_supportStruct, processCount, semVars, readyQ,
                   currentProc, p_s>>

\* Mutant of DisposeCurrent: the pcb is freed as the call for a child frees it.
DisposeCurrentFrees ==
    /\ cpu = "dispose"
    /\ Head(dying) = currentProc
    /\ processCount' = processCount - 1
    /\ pcbFree' = pcbFree \cup {currentProc}
    /\ dying' = <<>>
    /\ UNCHANGED <<p_child, p_supportStruct, semVars>>
    /\ Scheduler(readyQ, NULL, p_s)

\* The outermost call ends in the scheduler, which does not return: the pcb is
\* neither taken off its parent's list (outChild is only called on a pcb that
\* has children, and this one has none left) nor freed.
DisposeCurrent ==
    /\ cpu = "dispose"
    /\ Head(dying) = currentProc
    /\ processCount' = processCount - 1
    /\ dying' = <<>>
    /\ UNCHANGED <<pcbFree, p_child, p_supportStruct, semVars>>
    /\ Scheduler(readyQ, NULL, p_s)

Terminating == TerminateChild \/ UnlinkBlocked \/ UnlinkReady \/ DisposeChild
               \/ DisposeCurrent

----------------------------------------------------------------------------
(* The interrupts, taken between two instructions of the running process   *)
(* or out of WAIT.                                                         *)

Interruptible == cpu \in {"run", "wait"}

\* Mutant of SoftBlockAfterV: counted down although nobody waited.
SoftBlockAlwaysDown(d) == softBlockCount - 1

SoftBlockAfterV(d) == IF Signals(d) THEN softBlockCount - 1 ELSE softBlockCount

\* A peripheral device (nonTimerInterrupt, after it has chosen the device).
DeviceInterrupt(d) ==
    /\ Interruptible
    /\ semaphore[d] < SemMax
    /\ UNCHANGED <<procVars, dying>>
    /\ V(d)
    /\ softBlockCount' = SoftBlockAfterV(d)
    /\ IF currentProc = NULL
       THEN Scheduler(ReadyAfterV(d), NULL, p_s)
       ELSE readyQ' = ReadyAfterV(d) /\ Resume(StateCopy)

\* Mutant of Preempted: the preempted process keeps its turn.
PreemptedFront(rq) == <<currentProc>> \o rq

\* The current process gives up the processor.
Preempted(rq) == Append(rq, currentProc)

\* The process local timer: the end of a time slice.
PltInterrupt ==
    /\ Interruptible
    /\ UNCHANGED <<procVars, semVars, dying>>
    /\ IF currentProc = NULL
       THEN Scheduler(readyQ, NULL, p_s)
       ELSE Scheduler(Preempted(readyQ), NULL, StateCopy)

\* The interval timer: everybody who waits for the clock becomes ready.
ReleaseClock ==
    /\ IF asl[Clock] = <<>> THEN UNCHANGED <<asl, semdFree>> ELSE Dequeue(Clock, <<>>)
    /\ p_semAdd' = [p \in Pcb |-> IF Contains(asl[Clock], p) THEN NULL ELSE p_semAdd[p]]
    /\ softBlockCount' = softBlockCount - Len(asl[Clock])

ItInterrupt ==
    LET released == readyQ \o asl[Clock] IN
    /\ Interruptible
    /\ UNCHANGED <<procVars, dying>>
    /\ ReleaseClock
    /\ semaphore' = [semaphore EXCEPT ![Clock] = 0]
    /\ IF currentProc = NULL
       THEN Scheduler(released, NULL, p_s)
       ELSE Scheduler(Preempted(released), currentProc, StateCopy)

----------------------------------------------------------------------------
(* HALT and PANIC are for ever.                                            *)
Stopped == cpu \in {"halt", "panic"} /\ UNCHANGED vars

Next ==
    \/ \E sup \in Support \cup {NULL} : CreateProcess(sup)
    \/ TerminateProcess
    \/ PassUpOrDie
    \/ \E s \in Sema4 : Passeren(s) \/ Verhogen(s)
    \/ \E d \in Device : WaitForDevice(d) \/ DeviceInterrupt(d)
    \/ GetInfo
    \/ WaitForClock
    \/ Terminating
    \/ PltInterrupt
    \/ ItInterrupt
    \/ Stopped

Spec == Init /\ [][Next]_vars

(* A handler runs to its end; the process local timer is reloaded by every *)
(* dispatch and the interval timer by every tick, and a pending interrupt  *)
(* is taken as soon as the processor enables interrupts.                   *)
Fairness ==
    /\ WF_vars(Terminating)
    /\ WF_vars(PltInterrupt)
    /\ WF_vars(ItInterrupt)

FairSpec == Spec /\ Fairness

----------------------------------------------------------------------------
(* Correctness.                                                            *)

Ready    == ToSet(readyQ)
Blocked  == {p \in Pcb : p_semAdd[p] # NULL}
Running  == {currentProc} \ {NULL}
Live     == Ready \cup Blocked \cup Running
InKernel == cpu \in {"terminate", "dispose"}

\* A process is counted from its creation to its end, exactly once whichever
\* queue it is found in, at every step of the recursion of terminateProcess.
ProcessAccounting == processCount = Cardinality(Live)

\* softBlockCount, which decides between WAIT and PANIC, counts the processes
\* that an interrupt will wake, through SYS5, SYS7, interrupts and kills.
SoftBlockAccounting ==
    softBlockCount = Cardinality({p \in Pcb : p_semAdd[p] \in Device \cup {Clock}})

\* A counting semaphore says how many wait for it.  A kill does not undo the P
\* of a device or clock waiter, so those may be lower than that, never higher.
SemaphoreAccounting ==
    /\ \A s \in Sema4 : Len(asl[s]) = IF semaphore[s] < 0 THEN -semaphore[s] ELSE 0
    /\ \A a \in Device : asl[a] # <<>> => semaphore[a] <= -Len(asl[a])
    /\ semaphore[Clock] <= -Len(asl[Clock])

\* A pcb is free, running, ready or blocked on the one semaphore it names, never
\* two of these and never twice in a queue: one pair of links serves all queues.
OneQueueEach ==
    /\ IsInjective(readyQ)
    /\ \A a \in SemAdd : /\ IsInjective(asl[a])
                         /\ ToSet(asl[a]) = {p \in Pcb : p_semAdd[p] = a}
    /\ Ready \cap (Blocked \cup Running \cup pcbFree) = {}
    /\ Blocked \cap (Running \cup pcbFree) = {}
    /\ currentProc \notin pcbFree

\* insertBlocked never runs out of descriptors, although they are only as many
\* as there are pcbs, so that ignoring its result loses no process.
DescriptorsSuffice ==
    /\ semdFree = Cardinality(Pcb) - Cardinality({a \in SemAdd : asl[a] # <<>>})
    /\ currentProc # NULL => semdFree > 0

\* The scheduler halts when nobody is left, panics only when no interrupt can
\* ever make a process ready again, and waits only for an interrupt that can.
StopsOnlyWhenStuck ==
    /\ cpu = "halt" => Live = {}
    /\ cpu = "panic" => Live # {} /\ Live = {p \in Pcb : p_semAdd[p] \in Sema4}
    /\ cpu = "wait" => /\ currentProc = NULL /\ readyQ = <<>>
                       /\ \E p \in Live : p_semAdd[p] \notin Sema4

\* Whoever waits in a queue can be resumed where it stopped, whichever of the
\* handlers put it there and whatever it was resumed from before.
QueuedStateSaved == \A p \in Ready \cup Blocked : p_s[p] = "saved"

Children(p) == ToSet(p_child[p])

\* A pcb that is free is in nobody's list of children and has no children of its
\* own, so that the one pcb allocPcb does not clear carries no old links; nobody
\* is in two lists, and no call of terminateProcess works on a free pcb.
NoDangling ==
    /\ \A p \in pcbFree : p_child[p] = <<>> /\ p_semAdd[p] = NULL
    /\ \A p \in Pcb : Children(p) \cap (pcbFree \cup (ToSet(dying) \ Running)) = {}
    /\ \A p, q \in Pcb : Children(p) \cap Children(q) # {} => p = q
    /\ ToSet(dying) \cap pcbFree = {}

\* The processes of S and all that descend from them.
Progeny(S) ==
    LET generation[n \in Nat] ==
            IF n = 0 THEN S
            ELSE generation[n - 1] \cup UNION {Children(p) : p \in generation[n - 1]}
    IN generation[Cardinality(Pcb)]

\* Between two handlers the pcbs in use are those of one live process, the one
\* main made, and of its descendants, no more and no less.  A kill leaves nobody
\* behind whom no other process can end, and a pcb that SYS2 has not freed is still
\* in the tree, so that the end of an ancestor frees it: none is lost for good.
TreeIntact ==
    ~InKernel /\ Live # {} =>
        \E root \in Live : Progeny({root}) = Pcb \ pcbFree

\* p is before q in the queue s.
Before(s, p, q) == \E i, j \in DOMAIN s : i < j /\ s[i] = p /\ s[j] = q

\* From s to t nobody is overtaken: who is in both keeps its turn, newcomers go
\* behind, and (unless somebody is being killed) whoever leaves came first.
FirstComeFirstServed(s, t) ==
    \A p \in ToSet(s) \cap ToSet(t), q \in Pcb :
        /\ Before(s, p, q) /\ q \in ToSet(t) => Before(t, p, q)
        /\ q \in ToSet(t) \ ToSet(s) => Before(t, p, q)
        /\ Before(s, p, q) /\ q \notin ToSet(t) => InKernel

\* The ready queue and the queue of every semaphore are first come, first served,
\* and those the clock releases together become ready in the order they came in.
NoOvertaking ==
    [][/\ FirstComeFirstServed(readyQ, readyQ')
       /\ \A a \in SemAdd : FirstComeFirstServed(asl[a], asl'[a])
       /\ \A p, q \in Pcb :
             Before(asl[Clock], p, q) /\ q \in ToSet(readyQ') =>
                 p = currentProc' \/ Before(readyQ', p, q)]_vars

\* A V on a semaphore somebody waits for makes the first of them ready, whatever
\* kills and early interrupts have done to the value of the semaphore before.
VWakes ==
    [][\A a \in SemAdd :
          semaphore'[a] = semaphore[a] + 1 /\ ~InKernel /\ asl[a] # <<>>
              => /\ asl'[a] = Tail(asl[a])
                 /\ Head(asl[a]) \in ToSet(readyQ') \cup {currentProc'}]_vars

\* SYS5, comment in waitForDevice: "Since the device semaphore is a
\* synchronization semaphore, this will always block".
WaitForDeviceBlocks ==
    [][\A d \in Device : WaitForDevice(d) => Contains(asl'[d], currentProc)]_vars

\* SYS2, comment in terminateProcess: "Orphan current": once its handler is done
\* a process that died is nobody's child.
TerminatedIsOrphaned ==
    ~InKernel => \A p \in Pcb \ Live : \A q \in Pcb : p \notin Children(q)

\* A ready process gets the processor, however busy the others are.
ReadyRuns == \A p \in Pcb : p \in Ready ~> p \notin Ready

\* A process that waits for the clock does not wait for ever.
ClockReleases == \A p \in Pcb : p_semAdd[p] = Clock ~> p_semAdd[p] # Clock

=============================================================================
