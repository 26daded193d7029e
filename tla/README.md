# PandOS: specification, model checking and proofs

PandOS is a small operating system for the uMPS3 machine, written in C in three
phases. `src/phase1` has process queues, process trees and the active semaphore
list (ASL). `src/phase2` adds the nucleus: exceptions, system calls SYS1-SYS8,
interrupts and the scheduler. `src/phase 3` adds a support level: user processes
(U-procs) with virtual memory, SYS9-SYS13 and a pager. `pcb.c`, `asl.c`,
`scheduler.c`, `interrupts.c` and lines 1-333 of `exceptions.c` are the same in
phases 2 and 3; phase 1 has older versions of `pcb.c` and `asl.c`.

## The system: inventory

| component | state | operations | hard behaviour |
|---|---|---|---|
| pcb queues (`pcb.c`) | circular doubly linked lists through `p_next`/`p_prev`, one tail pointer per queue, the free list `pcbList_h` | `allocPcb freePcb insertProcQ removeProcQ outProcQ headProcQ` | one pair of links serves every queue; removing the tail; a pcb that is in another queue than the one it is looked for in; the last free pcb is not cleared |
| pcb trees (`pcb.c`) | `p_prnt p_child p_next_sib p_prev_sib` | `insertChild removeChild outChild emptyChild` | links left over from an earlier life of the pcb |
| ASL (`asl.c`) | sorted list of descriptors between two dummies, free list, `p_semAdd` | `insertBlocked removeBlocked outBlocked headBlocked` | a free list that ends in 0 or in NULL (which is 0xFFFFFFFF); descriptors must suffice; lookups of an address that equals a dummy's |
| nucleus (`exceptions.c`, `initial.c`) | `currentProc processCount softBlockCount readyQ deviceSema4s`, semaphores in the memory of processes | SYS1-SYS8, pass up or die | recursion of `terminateProcess` over ready, blocked and dead descendants; four counters to keep right; SYS5 against an early interrupt |
| scheduler (`scheduler.c`) | the same | dispatch, HALT, WAIT, PANIC | WAIT or PANIC is decided by one counter |
| interrupts (`interrupts.c`) | device registers, pending-interrupt bitmaps, timers | `nonTimerInterrupt pltInterrupt itInterrupt` | which of 40 devices interrupts, two halves of a terminal, acknowledgement |
| support level (`initProc.c`, `sysSupport.c`) | `procSem`, `devMutex`, support structures | SYS9-SYS13, program traps, the instantiator `test` | a U-proc killed while it holds a mutex or before its V on `procSem` |
| pager (`vmSupport.c`) | `swapPool`, `swapSem`, private page tables, TLB | page fault handler, TLB refill, `flashIO` | mutual exclusion over blocking I/O, a failed write, a page stolen while its owner runs |
| test programs (`p1test.c`, `p2test.c`, `testers/`) | their own semaphores | calls of the above | they are the inputs of the system |
| machine and BIOS | TLB, timers, device registers | LDST, LDCXT, WAIT, interrupts | external, modelled from how the code uses it |

How they interact. A process enters the nucleus by a SYSCALL instruction, an
exception or an interrupt. The BIOS saves its state at a fixed address and calls
`genExceptionHandler`, with interrupts off. The handler changes pcb queues, the
ASL and semaphores through `pcb.c` and `asl.c`, and ends in `switchState` (go on
with the current process) or in `scheduler` (go on with another one, WAIT, HALT or
PANIC). Handlers never nest. Processes share semaphores by address. The support
level runs as part of the process that called it: the nucleus copies the exception
state into the support structure (pass up) and loads the context found there, so
that support level code is preempted and blocks like any process.

What makes each component correct:

- queues: each is the FIFO sequence of the pcbs put in it; no pcb is in two;
- tree: a kill reaches the whole progeny and nothing else, no list contains a free pcb;
- ASL: a waiter is found under the address it waits on, whichever others are active;
  a descriptor is always available;
- nucleus: `processCount` and `softBlockCount` equal what they count at every step;
  semaphore values say how many wait; whoever is queued can be resumed where it
  stopped; no lost wakeup; first come, first served;
- scheduler: HALT, PANIC and WAIT only when each is right; no starvation;
- interrupts: the process that waits for a device gets that device's status, once;
- support level: one U-proc at a time uses a device or the swap pool, the swap pool
  agrees with the page tables, and `test` ends when its U-procs have ended.

## Modules

| module | what it is |
|---|---|
| `Nucleus` | the nucleus and scheduler: exceptions, system calls, interrupts, dispatch |
| `Processes` | what the nucleus promises to processes: SYS2 in one step, semaphores as sets of waiters |
| `NucleusRefinement` | the refinement mapping from `Nucleus` to `Processes` |
| `Fifo` | what queues promise: FIFO order, any element can be taken out |
| `ProcQueue`, `ProcQueue1` | the circular lists of `pcb.c`, in phases 2 and 3, and in phase 1 |
| `ProcQueues` | both of them, implementing `Fifo` |
| `ProcTree` | the lists of children, and `allocPcb` |
| `ASL` | the active semaphore list, both versions; implements `Fifo` with one queue for each address |
| `DeviceIO` | device registers, interrupt lines, ACK, SYS5 and the status it returns |
| `Requests` | what SYS5 promises: each waiter is given the status of its own operation |
| `Support` | the instantiator, SYS9-SYS13, traps, the pager and the TLB of phase 3 |
| `P2Test` | the processes of `p2test.c` as sequences of calls; extends `Nucleus` |
| `MC...` | symmetry sets and sets of devices for TLC |
| `QueueLemmas` | lemmas about queues (sequences without repetitions), linked lists and rings |
| `NucleusProofs` | the inductive invariant of `Nucleus`; counters, saved states, lists of children, wakeups and the order of queues from it |
| `TreeProofs` | the process tree under a kill, and that `Nucleus` implements `Processes` |
| `ProcQueueProofs` | the rings of `pcb.c` of all phases are FIFO queues |
| `ProcTreeProofs` | the lists of children stay lists, and end |
| `ASLProofs` | the active semaphore list stays sorted, finds every waiter, and is FIFO |
| `DeviceIOProofs` | the invariant of `DeviceIO`, and that it implements `Requests` |
| `SupportProofs` | the invariant of `Support` and the theorems |

### Nucleus

One processor and handlers that run with interrupts off make every handler one
action, with the scheduler it ends in as part of it: `Scheduler(rq, cur, ps)` is
applied to the ready queue, current process and saved states the handler leaves.
The exception is `terminateProcess`: it is recursive, so its activation records
are the stack `dying` and it takes one action for each call (`TerminateChild`),
unlink (`UnlinkBlocked`, `UnlinkReady`) and return (`DisposeChild`,
`DisposeCurrent`). The counters are thereby checked in the middle of a kill too.

| state | code |
|---|---|
| `pcbFree` | `pcbList_h` (a set; `pcb.c` decides which of equal pcbs is handed out) |
| `readyQ`, `asl` | `readyQ`, the ASL, as sequences; `semdFree` is the length of `semdFree_h` |
| `currentProc processCount softBlockCount` | the same |
| `semaphore` | the integers at the addresses `SemAdd`: those of processes, `deviceSema4s[0..47]` and `clockSem`, which is `deviceSema4s[48]` |
| `p_semAdd p_child p_supportStruct` | the same fields; `p_child` is the list through `p_next_sib` |
| `p_s` | whether the `p_s` field holds the state its process stopped in ("saved"), the one it was last resumed from ("loaded") or an older one ("old") |
| `cpu` | what the processor does: run a process, one of the two parts of `terminateProcess`, WAIT, HALT, PANIC |

A running process may make any call at any time and an interrupt may come between
any two, so the model's behaviours contain those of every program. A pass up with a
support structure changes none of these variables: it loads another context and the
process goes on. CPU time, register contents and device registers are left out.

### Queues, trees and the ASL

These modules are about links. Each operation of `pcb.c` or `asl.c` is an action on
the fields of the pcbs or descriptors, which may hold anything when a pcb is in no
list, and the lists are computed from the links (`Contents`, `Children`, `Path`: functions
on the number of links followed).
Queues and ASL are shown to implement `Fifo`, which is what `Nucleus` takes for granted
when it uses sequences, by a theorem in each case; `OneChildAtATime` says the same of children. The guards that are not the code's are those of its callers,
and theorem `QueuesApart` says that the nucleus keeps to them: a pcb is put in a
queue only when it is in none.

`ProcQueue1` is `ProcQueue` with the two links exchanged (`INSTANCE ... WITH`) and an
`outProcQ` of its own, which unlinks the tail of a longer queue and then looks for it in
the rest (`phase1/pcb.c:113-142`) and returns NULL, although the comment at
`phase1/pcb.c:106` promises p. The run `outprocq_denies` shows it. `Returns` claims for that
`outProcQ` only that a pcb that is not in the queue gives NULL, and everything for the other
operations and phases. `ProcTree` has two null pointers: `NULL` is 0xFFFFFFFF, and
static memory starts out with 0, which the code does not take for NULL. `ASL` has both,
as numbers, because addresses are compared with `<`. `phase` is chosen once, in `Init`;
in `ASL` it says whether `p_semAdd` is cleared. In `ProcTree` a `fault` is a use of
address 0.

Two things the modules show without a run of their own. `outBlocked` may not be called
with a `p_semAdd` of NULL: it would take the last dummy of the list for the semaphore.
`terminateProcess` looks first; `p1test.c:309` calls it twice for one process, which
the `asl.c` of phase 2 would not survive. And `insertChild` sets `p_prnt` only of a first
child (`pcb.c:147-151`), so that `outChild` does not find the others, as the comment at
`pcb.c:167` promises; the nucleus never gets to call it.

### DeviceIO

`Nucleus` has a device interrupt as a V on a given semaphore. Which one that is, is
decided here: `interruptHandler` takes the first line with a pending interrupt (`Rank`),
`nonTimerInterrupt` the lowest bit (`Interrupt`), the number for the bit (`DevNo`), the half
of a terminal (`HalfOf`), sends the ACK (`Ack`), and does the V with the status in v0
(`V`). A channel `<<line, number, half>>` is what works at the same time as others.

| state | code |
|---|---|
| `status`, `pending` | the status fields of the device registers; the words at `IDEVBITMAP` |
| `deviceSema4s`, `asl` | `deviceSema4s[0..47]` and who is blocked on each |
| `softBlockCount`, `v0` | the same, and register v0 of a process as SYS5 returns it |

A command and its SYS5 are one action, for `sysSupport.c` and `vmSupport.c` do both with
interrupts off; the run `sys5_blocks` of `Nucleus` shows what happens otherwise. `Free` is the
discipline of the callers: SYS12 and SYS13 hold one mutex for both halves of a terminal.
Devices end an operation with any status, at any time. A waiter may be killed
(`Kill`): its operation goes on. `Requests` is the promise; the mapping takes `asked` from
the queues and `outcome` from status and pending bits. `DISK` to `TERMINAL`, `PLTIMER` and
`INTERVALTIMER` are the numbers of `const.h`.

The constants for line numbers are used for device numbers: the bit of device 1 is taken
for device `PLTIMER`, 2, and that of device 2 for device `INTERVALTIMER`, 1. Run
`devices_swapped` shows the consequence, and the run `devices` has devices 0 and 3. What is
proved is under the hypothesis that no installed device has the number 1 or 2
(`NumbersKept`). With `UPROCMAX` 1, as in `const.h`, flash device 0 is used and terminals 0
and 1; a second U-proc would have flash device 1.

### Support

The instantiator `test()` and the U-procs, interleaved wherever interrupts are on. `pc[u]`
is where a U-proc is; each action is a stretch of code without preemption: `CreateUProc`,
`WaitUProc`, `EndTest` (`initProc.c`), `Trap`, `programTrapHandler`, `Die`, `UserModeSyscall`,
`writeString`, `readTerminal` (`sysSupport.c`, and `exceptions.c` of phase 3),
`uTLB_RefillHandler`, `PageFault`, `GainSwapPool`, `PickFrame`, `PageWritten`, `PageRead`,
`ReleaseSwapPool` (`vmSupport.c`). Of the nucleus it uses what `Nucleus` and `DeviceIO`
show: a P blocks below zero, a V lets one go, SYS5 returns when its operation has
ended, SYS2 ends the caller and its progeny.

| state | code |
|---|---|
| `test`, `i` | where `test()` is, and its loop variable |
| `procSem swapSem devMutex` | the same |
| `next`, `swapPool`, `victim`, `missing` | the static `i` of `pageFaultHandler`, `swapPool`, the locals of a page fault |
| `pgTbl` | the valid bit and frame of each `sup_privatePgTbl` entry |
| `tlb` | ASID, page and the copied entry of each TLB entry; external |

What a page contains is left out: a U-proc makes any access and any call at any time.

Writing the module down shows what no run is needed for:

- The address check of SYS11 to SYS13 ends a U-proc whose string is below 0xC0000000
  (`sysSupport.c:102`), which is where the string of every U-proc is. It does so by SYS2,
  without the V on `procSem`, and `test()` waits for ever: the scheduler's PANIC. An
  address that passes is in no page table, so that the first character faults for ever,
  with interrupts off (`hung`). The loops over characters are therefore one place.
- `readTerminal` does its P on one mutex and its V on another (`sysSupport.c:206`). Only a
  call with length 0 gets there. The next SYS11 to SYS13 of the U-proc blocks for ever.
- "Releases mutex if held" (`sysSupport.c:65`) has no code under it. It does no harm in
  the pager, which no trap leaves: no status is -1, so that neither transfer is ever
  taken to have failed.
- The page table entry of the stack page gets the ASID `i`, the others `i + 1`
  (`initProc.c:59`): its TLB entry is never found, and the U-proc goes on with refills for
  ever (`spinning`).
- A SYS1-SYS8 in user mode runs `programTrapHandler` of the support level inside the nucleus,
  with interrupts off: V and SYS2 are one step (`UserModeSyscall`).
- The pager marks the page of another U-proc invalid in its page table before the write and
  clears the TLB only after the read. That is right only because `test()` waits
  for each U-proc in the loop that creates them, so that the owner of a replaced page
  has either ended or is the faulting U-proc itself. The mutant `WaitForAll`, which creates
  them all first, violates `TLBAgrees`.

### P2Test

Every process of `p2test.c` is the sequence of its calls (`program`), and each step is the
action of `Nucleus` for the call at hand, so that the nucleus is run with the one
program the repository tests it with, on its 20 pcbs. A print is of one character, waiting
loops are taken once or twice, what is computed is left out. `Passes` says that none of the
error messages is printed, and `Finishes` that p1 ends.

The command of a print and its SYS5 are two steps (`command`, `SYS5`, `p2test.c:129-130`), with
interrupts on in between. `terminal` says whether the terminal works on a command. It is not
done before the very next instruction, but it may be when a time slice or a tick comes between
the two. Then p_s has been saved there, the terminal interrupts before the process goes on, and
SYS5 finds its semaphore at 1, falls through and loads that p_s (`Wait`). It is made
once more, and now waits for an interrupt that has been: print keeps `term_mut`, and p2test
hangs. That is what the run `sys5_blocks` shows of the nucleus. `Finishes` is therefore under the
hypothesis that no terminal interrupt precedes the SYS5 that waits for it. `Passes` holds in
those executions too: nothing wrong is printed, and the scheduler stays in WAIT.

## Runs

| run | instance | question |
|---|---|---|
| `nucleus` | 3 pcbs, 2 semaphores, one device, the clock; timers fair | type invariant, counters, queues apart, HALT/WAIT/PANIC, saved states, process tree, order, semaphore values, descriptors, wakeups; implements `Processes`; a ready process runs, the clock releases |
| `procqueues` | 4 pcbs, the free list and two queues, both versions | rings agree in both directions, are FIFO queues, return the right pcb |
| `asl` | 4 pcbs, 3 addresses, 2 descriptors, both versions | descriptors are on one of two lists, waiters are found, FIFO, only a full list refuses |
| `proctree` | 4 pcbs | lists of children end, contain no free pcb, change by one child at a time, 0 is not used |
| `devices` | 2 processes; devices 0 and 3 of the network line, flash 0, terminal 3 | semaphores tell what devices do, everybody who waits is answered; implements `Requests` |
| `support` | 2 U-procs of 4 pages, 2 frames, 2 TLB entries | swap pool, page tables and TLB agree, one U-proc in the swap pool, what can PANIC, no U-proc is forgotten, page faults are served |
| `p2test` | the 20 pcbs and 13 semaphores of `p2test.c`, 4 time slices | no error is printed; the test ends, unless the terminal interrupts before a SYS5 |
| `sys5_blocks` | | violated: SYS5 does not always block |
| `sys2_orphans` | | violated: a terminated process is not orphaned |
| `outprocq_denies` | as `procqueues` | violated: `outProcQ` of phase 1 returns what it takes out |
| `alloc_initializes` | as `proctree`, `Drained` | violated: `allocPcb` initializes the pcb |
| `devices_swapped` | as `devices`, with devices 1 and 2 | violated: a handled interrupt is one less pending |

Bounds. Three pcbs give a parent with two children or a child and a grandchild, a kill
whose members are in different queues, two waiters in one queue beside a
running process, a process that ended itself and stays in its parent's list, and an exhausted
free list. More pcbs are the proofs' part: all safety properties of this run are proved for any number.
`SemMax` bounds how far a semaphore is counted up: SYS4 and device interrupts stop there. A P
never needs a value above 1 to pass, and with a value of 2 two early interrupts are
pending at once. Semaphores fall as far as there are waiters, and device semaphores one further for
each killed waiter, which the processes still alive bound. `Init` picks any pcb as the first.
There is no symmetry in runs with liveness.

Three pcbs in a ring are the least in which head, middle and tail differ, and the
fourth is in the other queue or free. `asl` has more addresses than descriptors, so that
the list can be full, a descriptor is inserted before and after an active one, and
queues have up to four waiters. Four pcbs in `proctree` are a parent with three children, or a
second generation, each reusing pcbs with the links of an earlier one. `Drained` is
FALSE in the passing runs of `ProcTree`: `allocPcb` does not hand out the last pcb
while it still is as in static memory (the run `alloc_initializes` shows what
happens). It may hand out the last pcb with the links of an earlier life.

`devices` has two devices whose bits are in one word, a line that is served after theirs
although its number is lower, both halves of a terminal, and two processes, so that one
operation ends while another waits, on the same line or another, and a killed waiter's
operation ends while a new one is under way. In `support` a U-proc has more pages
than there are frames, so that it replaces pages of its own and, as the second one, of the
U-proc that has ended; one page is the stack; and the TLB is smaller than a page table.
Strings have length 0 or more, `length \in 0..1`. In `p2test` time slices end at up to four
places (`Slices`), at any instruction, and each interrupt of the terminal and the clock comes at
any time besides: four slices are enough for several prints to lose their interrupt. A tick
that nobody waits for is a time slice, or changes nothing in the scheduler's WAIT.

Deadlock is checked but in `support`, where PANIC, HALT and a U-proc that hangs with interrupts
off stop the system; `PanicExplained` says when.

Fairness, in `Nucleus!FairSpec`: weak fairness of `Terminating` (a handler runs to its end), of
the process local timer and of the interval timer. The PLT is loaded by every dispatch
and runs while a process does, the interval timer is reloaded by every tick, and both
interrupts are unmasked in every state a process is started with and in the WAIT of
the scheduler. No fairness is assumed of processes or devices. (A process may run
with interrupts off; the liveness properties are about those that do not.)

In `DeviceIO!FairSpec` an operation that has been started ends, and the processor takes a pending
interrupt: interrupts are on in every state processes and the scheduler's WAIT run with,
and both P and SYS5 leave the processor to others. Nothing is assumed of processes. That `Answered`
holds although lines have priorities depends on waiting: whoever is served has to
be dispatched and ask again.

In `Support!FairSpec` `test()` and each U-proc in a handler go on when they can, for the ready
queue is served in turn (`ReadyRuns`). A U-proc in the pager does if its transfers
are answered (`Answered`), that is, if they use neither flash device 1 nor 2 (`FlashAnswers`):
of the U-procs only the first, which is the only one with `UPROCMAX` as it is in
`const.h`. The safety properties are about transfers that end or do not. No fairness is assumed of a U-proc's own program. In `P2Test` some step
is taken as long as one is possible; that the time slices are finitely many, and that a tick comes
only when somebody waits for it or the processor does, makes the programs go on.

The runs that are expected to fail each state what a comment or a test of the code
says:

- `WaitForDeviceBlocks`: `exceptions.c:281` says SYS5 "will always block". A device
  that interrupts before the SYS5 leaves its semaphore at 1; SYS5 then falls through
  to `switchState(&currentProc->p_s)` without having saved the exception state, and
  the process is reset to where it was last resumed. By this p2test may hang (see `P2Test`).
- `OutReturnsTaken`: `phase1/pcb.c:106` says "otherwise return p". For the tail of a queue of two or
  more, `outProcQ` of phase 1 takes p out and returns NULL, "not there". `p1test.c:172-181`
  calls it for a head, a middle and a missing pcb.
- `TerminatedIsOrphaned`: `exceptions.c:203` says "Orphan current". `outChild` is only
  called if the process has children, which it no longer has. A process that ends
  by SYS2 stays in its parent's list, its pcb is not freed before the parent dies. The
  other invariants say that this loses nothing else: such a pcb is not counted twice
  and is freed with the parent.
- `AllocInitializes`: `pcb.c:13` says that the pcb is initialized; `pcb.c:21` leaves the
  last one out. If 20 processes are created before one ends, `p_child` of the last is 0,
  `emptyChild` says that it has children, and creating or killing one uses address 0.
  `Nucleus` assumes the cleared pcb.
- `InterruptsAreTaken`: `interrupts.c:59` says "Determine which deviceNo is interrupting". For
  devices 1 and 2 of every line it determines the other one (`interrupts.c:67`,
  `const.h:117-118`): ACK, status and V go to the wrong device, the interrupt stays
  pending and is taken again at once.

## Proofs

### The nucleus

`NucleusProofs` proves, for any finite set of pcbs, any semaphores, devices and
support structures:

| theorem | |
|---|---|
| `Invariance` | the inductive invariant `IInv` |
| `TypeCorrect` | `TypeOK`: no counter goes below zero |
| `ProcessesCounted` | `ProcessAccounting` |
| `SoftBlockedCounted` | `SoftBlockAccounting` |
| `SemaphoresBalanced` | `SemaphoreAccounting` |
| `QueuesApart` | `OneQueueEach` |
| `InsertBlockedSucceeds` | `DescriptorsSuffice` |
| `StopsRightly` | `StopsOnlyWhenStuck` |

Assumptions: the pcbs are a finite set without NULL, the addresses of process
semaphores, device semaphores and the clock are distinct and none is NULL
(`PcbAssumption`, `SemAddAssumption`), `SemMax` is positive.

The invariant. None of the properties is inductive alone: that a kill keeps
`processCount` right needs that the pcb is in one queue only, that it is found there
(`p_semAdd` names the queue it is in), and that the call in progress is for a pcb
that has already left its queue when it is freed. `IInv` is the conjunction of
`TypeOK`; `Consistent` (each queue of the ASL holds, once, the pcbs whose `p_semAdd`
names it, and the free descriptors are those not in use); `Apart` (ready, blocked,
running and free pcbs are disjoint); the two counters; `Balanced` (semaphore values
against queue lengths); and `Mode` (what holds in each value of `cpu`). It says
nothing about the tree: what `terminateProcess` counts depends on the queue a pcb is
found in only.

The argument. `QueueLemmas` has what appending to, taking the head of, removing from
and concatenating queues does to their elements. `QueueGrows`, `QueueShrinks` and
`QueueEmpties` lift that to the ASL: `Consistent` is kept, one pcb joins or leaves
the blocked ones. `Descriptors` shows that each descriptor in use has a waiter of its
own (an injection from descriptors to blocked pcbs), so that a pcb that is not blocked
leaves one free. `Blocks`, `VEffect`, `EndsInScheduler`, `EndsInReturn` and
`EndsInDispose` are the parts handlers have in common; one lemma per action applies
them, and `NextIInv` collects those.

From the same assumptions there are, in the second part of the module,

| theorem | |
|---|---|
| `StatesSaved` | `QueuedStateSaved` |
| `NothingDangles` | `NoDangling` |
| `NoLostWakeup` | `VWakes` |
| `ServedInTurn` | `NoOvertaking` |

`QueuedStateSaved` is inductive on top of `IInv`. A handler ends in the scheduler or in a
return to the current process, and in both cases one pcb is loaded that by `Apart` is in no
queue afterwards (`SavedByScheduler`, `SavedByResume`); what is left is that every pcb a
handler queues was queued before or is the current one, whose state was copied.

`NoDangling` needs `TreeInv`: children are listed once each, a pcb that is about to be freed
has none left, and two calls of `terminateProcess` work on two pcbs (`SingleCalls`). The
last has an exception that the proof has to allow: the process that ends itself is still in its
parent's list, and that it is not among its own descendants is only shown by `RootInv`, below.
`NoDangling` holds without: only the outermost call is for it, and that one frees nothing.

`VWakes` is an action property. In a state of `Balanced` a semaphore with a queue is
negative, so that a V always finds the first waiter; a tick raises the clock's semaphore by
one only when exactly one process waits, and then releases that one.

`NoOvertaking` is one too. A queue `s` changes in two ways.
A handler makes it what is left of `s \o r` when the first elements have gone
(`InTurn`, of which staying as it is, a tail, an append and the empty queue are cases);
or a kill takes one element out, which keeps the order of the others (`TakenOut`, from
what `RemoveFirst` has at each place). That `s \o r` has no pcb twice is read off the state
after the step: its head runs, its tail is the ready queue, and `Apart` keeps the two
disjoint (`SchedulerTakesHead`). By `Apart` again nobody goes from the clock to the ready
queue but by a tick, and that one appends the queue of the clock as it is (`TickInTurn`).

### The tree and what the nucleus promises

`TreeProofs`, from the same assumptions:

| theorem | |
|---|---|
| `TreeKept` | `TreeIntact` |
| `KillEnds` | `terminateProcess` ends: `KillBounded`, `KillShortens` |
| `TurnComes` | nobody starves in the ready queue: `TurnsCome` |
| `BlockingCalls` | when SYS3, SYS5 and SYS7 block: `BlocksExactly` |
| `WakesTheRightOnes` | what ends a wait: `WokenRightly` |
| `Refinement` | `ImplementsProcesses` |

`TreeIntact` says that between two handlers the pcbs in use are exactly one live process and those
below it: the ones that ended by SYS2 and wait in a list for their parent to end included. So no
pcb is out of reach of every kill.

`Progeny` takes the children of a set again and again, as many times as there are pcbs. That
this is enough is `Closure`: as long as something is added there is one more element at each
step. `ProgenyIs` then has it as the least set that contains the pcbs it starts from and the
children of its members, and everything below is said with such sets, never with paths: "everybody
descends from r" is "whoever is alive is in every closed set with r in it" (`DescendFrom`).

`RootInv` is what is inductive about the tree. Between two handlers there is a root that is
nobody's child and from which everybody descends (`Rooted`). While `terminateProcess` runs,
everybody descends from the root or from the pcbs of its calls, and there is a closed set with
the children of the ending process in which that process is not (`KillRooted`), so that no inner
call can come back to it. At the SYS2 that set is the progeny of the children: were the
caller in it, everybody in it would be the child of somebody in it, and what is outside, a
closed set with the root, would have everybody alive. Each further call stays in the set. Whoever
has ended has no children left (`NoOrphans`), and `Spawned` and `StaysLive` say that a pcb that leaves
the free list becomes somebody's child.

`KillMeasure` is three for every pcb in a list of children, two for every call of `terminateProcess`
in progress and one for a call that has yet to unlink its pcb. As no pcb is in two lists,
each step of the recursion takes exactly one from it (`KillStep`), and as the root is in no list it
starts at no more than `3 * Cardinality(Pcb)` (`KillBegins`). So a kill ends, with interrupts off,
after that many steps, whatever the tree looks like.

`TurnsCome` follows `Ahead(p)`, those before p in the ready queue. No step but one of a kill
takes p out of that queue without giving it the processor, none brings anybody in before it
(from `NoOvertaking`, `AheadShrinks`), and each end of a time slice takes one away
(`SliceBringsNearer`). With `KillEnds`, and with the fairness of the process local
timer and of a handler, that is `ReadyRuns`.

`BlocksExactly` says of every semaphore, in every state kills and early interrupts lead to, that
P and SYS5 go on if it is above 0 and otherwise wait for just that semaphore; SYS7 always waits, so that
the else-branch of `waitForClock`, which would call the scheduler with the process in no queue,
is never taken. `WokenRightly` is its counterpart: a blocked process stays so, on the same
semaphore, until a V on it, an interrupt of its device, a tick or a kill, and a tick leaves
nobody waiting for the clock, which with the fairness of the interval timer is `ClockReleases`.

The refinement mapping (`NucleusRefinement`) takes those that the recursion has still to reach,
`Doomed`, for gone from the first step of a SYS2 on, together with their Ps. `DoomedDescend` says that
at the call of SYS2 they are just those whom `Processes` removes, the descendants by `parent` of
the caller; each further step of the recursion takes one of the doomed out of what is hidden
already, and changes nothing that is seen (`UNCHANGED`). A V or a P of the others is compared by
sets: `Chooses`, `BlocksOn`, `Frees` and `Releases` say what a handler does to who is ready, running
and blocked on what.

### Queues, children and the ASL

What these modules compute from links is a recursive function of the number of links
followed. `QueueLemmas` has an induction on naturals from the least counterexample
(`LeastNatural`, `Induction`), and with it that such a function exists and is the only one
(`Recursion`). `Chain(next, first, S, q)` says that q is what one meets from `first` until one leaves
S, and `ChainWalk` that following the links then finds q; `Ring` and `CycleWalk` say the same
of rings, where `behind` undoes `ahead`. After that the recursion is not
mentioned: lemmas say which chain or ring there is once an element has been put in front, at
the end, between two others or has been skipped, and that it stays the same when links of
other elements change (`ChainFrame`, `RingFrame`). These are
where the stale links of pcbs in no list are dealt with: no lemma has a hypothesis about the links
of the element that comes in.

`ProcQueueProofs`, for any finite and non-empty set of pcbs (`procTable` has 20) and any tail pointers:

| theorem | |
|---|---|
| `TypeCorrect` | `TypeOK` |
| `RingsStayIntact` | `RingsIntact` |
| `Refinement` | `ImplementsFifo` |
| `ReturnsHold` | `Returns` |

The invariant is that every queue that is not empty is a ring and that no two share a pcb.
`Ahead` and `Behind` are `p_prev` and `p_next` in phases 2 and 3 and the other way round in
phase 1; `WordsOfOne` and `WordsOfTwo` put the operations of both files in the same words
(`AnInsert`, `ARemove`, `AnAlloc`, `AnOut`), and one lemma for each of these serves both. `Wrap`
is the arithmetic of the first ring, which `initPcbs` makes of all the pcbs.

`ProcTreeProofs`, for any finite set of pcbs:

| theorem | |
|---|---|
| `TypeCorrect` | `TypeOK` |
| `OneChildMoves` | `OneChildAtATime` |
| `ListsEndInNull` | `ListsEnd`, under `~Drained` |

The invariant says that the lists are chains (`Chained`), that they share no pcb and have none that
is free or new, and that free pcbs have no children (`Apart`), without which a stale `p_child` of the
last free pcb would bring a list with it. `ListsEnd` needs `NoZero` besides: once one link of a
pcb has been cleared all have, and `p_child` of a pcb in use is not 0. That is so as long as the last
pcb is not allocated before it was ever cleared, which is the hypothesis `~Drained`; without it the theorem is
false, as the run `alloc_initializes` shows.

`ASLProofs`, for any pcbs, any number of descriptors and any addresses between those of the
dummies, and both versions:

| theorem | |
|---|---|
| `TypeCorrect` | `TypeOK` |
| `ListsStayIntact` | `ListsIntact` |
| `WaitersStayFound` | `WaitersFound` |
| `RefusesOnlyFull` | `RefusesOnlyWhenFull` |
| `Refinement` | `ImplementsFifo` |

The invariant: both lists are chains and partition the descriptors, the active one is sorted
with a dummy at each end (`Sorted`, `Dummies`), its inner elements are just the descriptors with
waiters (`Waiting`), queues are disjoint, and `p_semAdd` tells who waits for what
(`Remembered`). The search is used through `Traversed` only: because the list is sorted,
`traverseASL(a)` is the place before which everything is less than a and after which nothing is
(`StopsAt`), so that a descriptor for a is there if one is active. An operation does one
of two things to the lists (`Opened`, `Closed`) and one to the waiters (`Requeues`); `Requeued`
shows that the queue of one address changes and no other.

### Devices

`DeviceIOProofs`, for any finite set of processes and any devices but those whose numbers are
exchanged (`NumbersKept`):

| theorem | |
|---|---|
| `DeviceInvariance` | the inductive invariant |
| `DeviceTypeCorrect` | `TypeOK` |
| `SemaphoresTell` | `SemaphoresTellActivity` |
| `RequestsAnswered` | `ImplementsRequests`, the refinement |
| `InterruptsTaken` | `InterruptsAreTaken` |
| `AnswersCome` | interrupts run out: `WorkBounded`, `InterruptsEnd`, `WaitsHold` |

The invariant adds to `SemaphoresTellActivity`: `ChannelsTold` (a pending channel has a status
of a finished operation, and one half of a terminal works at a time, by which
`HalfOf` finds the half) and `WaitersTold` (who waits, waits alone and for a channel
that works, and `softBlockCount` is their number). `SemIndexInjective` gives each channel a semaphore
of its own. Each action is then a step of `Requests`: `StartIO` is `Ask`, `Finish` is
`End`, `Kill` is `GiveUp`, and an `Interrupt` is `Deliver` of the channel it was for. Dropping
`NumbersKept` makes the theorems false, as the run `devices_swapped` shows.

`AnswersCome` is what `Answered` rests on. While an interrupt is pending no process runs and no
command is given; an operation that ends, and an interrupt that is taken, both lower `WorkLeft`,
two for each busy channel and one for each pending one. So the processor is back with the processes
after at most `2 * Cardinality(Channel)` steps, although `interruptHandler` serves one
device at a time and lines have priorities. Meanwhile whoever waits for a channel goes on
waiting for it, and the channel is busy or pending (`WaitsHold`); a pending one cannot stay so
while `WorkLeft` falls.

### The support level

`SupportProofs`, for up to eight U-procs and any number of pages, frames and TLB entries
(`SupportAssumption`; eight is the number of terminals and what `devMutex` is indexed by):

| theorem | |
|---|---|
| `SupportInvariance` | the inductive invariant |
| `SupportTypeCorrect` | `TypeOK` |
| `PoolCorrect` | `PoolAgrees` |
| `TLBCorrect` | `TLBAgrees` |
| `SwapPoolExclusive` | `SwapPoolOwned` |
| `OnlyStringCallsPanic` | `PanicExplained` |
| `EndIsCounted` | the V of a U-proc that ends is not lost: `EndCounted` |
| `EndIsNoticed` | `test()` goes on after it: `EndShortens` |
| `FaultEnds` | a page fault ends: `FaultBounded`, `FaultShortens` |
| `FaultCured` | the page is there, and the TLB does not hide it: `Cured` |

What everything rests on is `OneAfterTheOther`: U-procs below `i` have done their V, those
above do not exist, and `procSem` is the difference. So nobody waits for `swapSem`
(`OwnerTold`), the frame that is being replaced is named by no page table (`FramesTold`), and
TLB entries of the running U-proc are copies of its page table until it
replaces a page (`EntriesTold`). `MutexesTold` bounds what `readTerminal` does to the two mutexes.

While a U-proc is in the pager, only three things can happen (`PagerAlone`): its own next step,
the P of `test()`, and the SYS2 of a U-proc that has done its V. Each lowers `FaultLeft`, which is at
most `UPROCMAX + 5`, and the pager never waits for `swapSem` nor is the machine hung: with fairness
that is `FaultServed`. In the same way nothing but such SYS2s comes between the V of a U-proc and
`test()` going on (`EndShortens`), whichever of its V and the P of `test()` comes first
(`EndCounted`), which is `EndNoticed`.

### What is only model-checked

- Liveness under fairness (`ReadyRuns`, `ClockReleases`, `Answered`, `EndNoticed`, `FaultServed`,
  `Finishes`), which the prover does not support: that a fair action is ENABLED, and the induction
  over the steps that are left. What does not need those is proved for all but `Finishes`: that each
  step brings the end nearer and that nothing leads away from it (`KillEnds`, `TurnComes`,
  `WakesTheRightOnes`, `AnswersCome`, `EndIsNoticed`, `FaultEnds`).
- `Passes` of `P2Test`: it is about one program with given numbers, all of whose executions TLC
  goes through; there is no parameter to prove it for.
- The properties that are violated: `WaitForDeviceBlocks`, `TerminatedIsOrphaned`,
  `OutReturnsTaken`, `AllocInitializes`, `InterruptsAreTaken`. The theorems about the same modules say what
  holds all the same: `BlockingCalls` when SYS5 does block, `TreeKept` that the pcb which is
  not freed is not lost, `ReturnsHold` what the other results are, `ListsEndInNull` what cleared links give, and `InterruptsTaken` that
  devices not numbered 1 or 2 are served.

Every other property of a run is a theorem.

## Plan

Done: nucleus, queues, trees and ASL; devices; support level and pager; `p2test.c`; the proofs
above. What is left, in this order.

1. CPU time: a ghost clock against the sum of `p_time`. Time spent before a P that blocks or
   before an interrupt is charged where `startTod` says, which not every path sets.
2. The contents of pages: the frame of the transfer is computed from the block number
   (`vmSupport.c:102`), the PFN of the entry from the frame; a memory of pages for each process as
   the abstract specification.
3. The trees of phase 1, as an instance of `ProcTree` with the older operations.

## Not modelled

- CPU time accounting (`p_time`, `startTod`): nothing but SYS6 reads it.
- The process trees of phase 1, an older version that only `p1test.c` calls.
- `p1test.c`: it calls queue, tree and ASL operations in one order; the modules take every
  order.
- Contents of pages and physical addresses, see the plan.
- Registers and the status word, beyond what enables interrupts. `genExceptionHandler` decodes
  the cause register into the calls that are the disjuncts of `Next`.
- Accesses of a U-proc to addresses outside its page table, other than by a system call: such
  an address is in no entry, so that they would be refilled for ever. No property is about them.
- The user programs in `src/testers`: straight-line callers of SYS9-SYS13, of which `Support`
  takes every order.
- A device interrupt on the receiver of a terminal whose transmitter works
  (`interrupts.c:91`): `Free` excludes it, as the callers do.
- Wraparound of 32-bit integers. `processCount` is bounded by 20 pcbs; a semaphore only by how
  often it is counted up, which the models bound with `SemMax`.
