------------------------------ MODULE DeviceIO ------------------------------
(***************************************************************************)
(* Devices, their interrupts and SYS5 (interruptHandler, nonTimerInterrupt *)
(* of interrupts.c, waitForDevice of exceptions.c): which line and device  *)
(* an interrupt is taken for, which half of a terminal, the ACK, the       *)
(* semaphore, and the status the waiter is given.                          *)
(*                                                                         *)
(* A channel is what can work at the same time as others: a device, or one *)
(* half of a terminal.  A process that does not wait may run; a pending    *)
(* interrupt is taken before it gets to its next instruction, and the      *)
(* support level gives a command and does its SYS5 with interrupts off, so *)
(* that the two are one action (Nucleus has the interrupt in between).     *)
(***************************************************************************)
EXTENDS Integers, FiniteSets

CONSTANTS
    Proc,
    Installed,      \* the devices there are: <<line, number>>
    NULL

INTERVALTIMER == 1
PLTIMER == 2
DISK == 3
FLASH == 4
NETWORK == 5
PRINTER == 6
TERMINAL == 7

\* The status field of a device register.
UNINSTALLED == "uninstalled"
READY == "ready"
BUSY == "busy"
FAILED == "failed"      \* any of the error codes
CHARRECV == "charrecv"  \* what either half of a terminal ends with

ASSUME InstalledAssumption == Installed \subseteq (DISK..TERMINAL) \X (0..7)
ASSUME ProcAssumption == IsFiniteSet(Proc) /\ NULL \notin Proc

\* <<line, device, half>>; half 1, of a terminal only, is the receiver.
Line     == {d[1] : d \in Installed}
Register == {r \in Line \X (0..7) \X {0, 1} : r[3] = 1 => r[1] = TERMINAL}
Channel  == {c \in Register : <<c[1], c[2]>> \in Installed}

ASSUME NullAssumption == NULL \notin Channel

\* What an operation of c can end with.
Outcome(c) == IF c[1] = TERMINAL THEN {CHARRECV, FAILED} ELSE {READY, FAILED}
Status == {UNINSTALLED, READY, BUSY, FAILED, CHARRECV}

VARIABLES
    status,          \* the status field of every register
    pending,         \* the channels that interrupt: the bits of interrupt_dev
    deviceSema4s,    \* the device semaphores, without the clock
    asl,             \* the processes blocked on each of them
    softBlockCount,
    v0               \* the status a process was given last, or NULL

vars == <<status, pending, deviceSema4s, asl, softBlockCount, v0>>

TypeOK ==
    /\ status \in [Register -> Status]
    /\ pending \subseteq Channel
    /\ deviceSema4s \in [0..47 -> Int]
    /\ asl \in [0..47 -> SUBSET Proc]
    /\ softBlockCount \in Nat
    /\ v0 \in [Proc -> Status \cup {NULL}]

Init ==
    /\ status = [r \in Register |-> IF r \in Channel THEN READY ELSE UNINSTALLED]
    /\ pending = {}
    /\ deviceSema4s = [i \in 0..47 |-> 0]
    /\ asl = [i \in 0..47 |-> {}]
    /\ softBlockCount = 0
    /\ v0 = [p \in Proc |-> NULL]

----------------------------------------------------------------------------
(* Processes.                                                              *)

\* Mutant of SemIndex: both halves of a terminal have one semaphore.
SemIndexOfDevice(c) == (c[1] - 3) * 8 + c[2]

SemIndex(c) == (c[1] - 3) * 8 + c[2] + 8 * c[3]

Waits(p) == \E i \in 0..47 : p \in asl[i]

\* A process can execute an instruction.
Runs(p) == ~Waits(p) /\ pending = {}

\* The two halves of one terminal.
OtherHalf(c) == <<c[1], c[2], 1 - c[3]>>

\* A channel nobody uses.  The callers hold a mutex for it, and one mutex for
\* both halves of a terminal: SYS12 and SYS13 do their P on the same one.
Free(c) ==
    /\ status[c] = READY
    /\ c[1] = TERMINAL => status[OtherHalf(c)] = READY

\* A command and its SYS5.
StartIO(p, c) ==
    LET i == SemIndex(c) IN
    /\ Runs(p)
    /\ Free(c)
    /\ status' = [status EXCEPT ![c] = BUSY]
    /\ deviceSema4s' = [deviceSema4s EXCEPT ![i] = @ - 1]
    /\ IF deviceSema4s'[i] < 0
       THEN /\ asl' = [asl EXCEPT ![i] = @ \cup {p}]
            /\ softBlockCount' = softBlockCount + 1
       ELSE UNCHANGED <<asl, softBlockCount>>
    /\ UNCHANGED <<pending, v0>>

\* An ancestor, which is not one of Proc, ends p by a SYS2 while p waits:
\* outBlocked, and the semaphore is not counted up again.
Kill(p) ==
    /\ pending = {}
    /\ Waits(p)
    /\ asl' = [i \in 0..47 |-> asl[i] \ {p}]
    /\ softBlockCount' = softBlockCount - 1
    /\ v0' = [v0 EXCEPT ![p] = NULL]
    /\ UNCHANGED <<status, pending, deviceSema4s>>

----------------------------------------------------------------------------
(* Devices.                                                                *)

Finish(c) ==
    /\ status[c] = BUSY
    /\ \E s \in Outcome(c) : status' = [status EXCEPT ![c] = s]
    /\ pending' = pending \cup {c}
    /\ UNCHANGED <<deviceSema4s, asl, softBlockCount, v0>>

\* Mutant of Ack: the device goes on interrupting.
AckForgotten(r) == UNCHANGED <<pending, status>>

\* An ACK; a register that is busy or not there takes no command.
Ack(r) ==
    /\ pending' = pending \ {r}
    /\ status' = [status EXCEPT ![r] = IF r \in pending THEN READY ELSE @]

----------------------------------------------------------------------------
(* The interrupt handler.                                                  *)

\* The place of a line in interruptHandler.
Rank(l) == CASE l = DISK     -> 1
             [] l = NETWORK  -> 2
             [] l = FLASH    -> 3
             [] l = PRINTER  -> 4
             [] l = TERMINAL -> 5

\* The devices whose bit in interrupt_dev is set.
Interrupting == {<<c[1], c[2]>> : c \in pending}

\* The device taken for the one whose bit is the n-th: the constants for line
\* numbers, PROCESSOR to TERMINAL, are used for device numbers.
DevNo(n) == IF n = 1 THEN PLTIMER ELSE IF n = 2 THEN INTERVALTIMER ELSE n

\* The half taken to interrupt: the transmitter, unless its status is READY.
HalfOf(l, n) == IF l = TERMINAL /\ status[<<l, n, 0>>] = READY THEN 1 ELSE 0

\* Mutant of Wakes: the test of a V without the process it counts.
WakesBelowZero(i) == deviceSema4s[i] + 1 < 0 /\ asl[i] # {}

\* The V on semaphore i makes a process ready.
Wakes(i) == deviceSema4s[i] + 1 <= 0 /\ asl[i] # {}

\* Mutant of Woken: softBlockCount goes down although nobody waited.
WokenAlways(i) == 1

Woken(i) == IF Wakes(i) THEN 1 ELSE 0

V(i, statusCode) ==
    /\ deviceSema4s' = [deviceSema4s EXCEPT ![i] = @ + 1]
    /\ softBlockCount' = softBlockCount - Woken(i)
    /\ IF Wakes(i)
       THEN \E p \in asl[i] : /\ asl' = [asl EXCEPT ![i] = @ \ {p}]
                              /\ v0' = [v0 EXCEPT ![p] = statusCode]
       ELSE UNCHANGED <<asl, v0>>

nonTimerInterrupt(l, n) ==
    LET r == <<l, DevNo(n), HalfOf(l, DevNo(n))>> IN
    /\ Ack(r)
    /\ V(SemIndex(r), status[r])

\* interruptHandler takes the first line that interrupts, nonTimerInterrupt its
\* first device; what else is pending interrupts again.
Interrupt ==
    \E d \in Interrupting :
        /\ \A e \in Interrupting :
              Rank(d[1]) < Rank(e[1]) \/ (d[1] = e[1] /\ d[2] <= e[2])
        /\ nonTimerInterrupt(d[1], d[2])

----------------------------------------------------------------------------
Next ==
    \/ \E p \in Proc, c \in Channel : StartIO(p, c)
    \/ \E p \in Proc : Kill(p)
    \/ \E c \in Channel : Finish(c)
    \/ Interrupt

Spec == Init /\ [][Next]_vars

\* An operation comes to an end; a pending interrupt is taken.
FairSpec == Spec /\ WF_vars(Interrupt) /\ \A c \in Channel : WF_vars(Finish(c))

----------------------------------------------------------------------------
(* Correctness.                                                            *)

\* A device semaphore is -1 while its channel works or waits for its ACK and 0
\* otherwise, whoever was killed meanwhile, so that the next SYS5 blocks.
SemaphoresTellActivity ==
    \A c \in Channel :
        deviceSema4s[SemIndex(c)] = IF status[c] = BUSY \/ c \in pending THEN -1 ELSE 0

\* The channel p waits for.
Asked(p) ==
    IF \E c \in Channel : p \in asl[SemIndex(c)]
    THEN CHOOSE c \in Channel : p \in asl[SemIndex(c)]
    ELSE NULL

OutcomeOf(c) ==
    IF c \in pending THEN status[c] ELSE IF status[c] = BUSY THEN "busy" ELSE "idle"

Promise == INSTANCE Requests WITH
    Asker <- Proc, None <- NULL,
    Status <- UNION {Outcome(c) : c \in Channel},
    asked   <- [p \in Proc |-> Asked(p)],
    outcome <- [c \in Channel |-> OutcomeOf(c)],
    answer  <- v0

\* A process that waits for a device goes on with the status that its own
\* operation ended with, not with one of another device or of an earlier caller.
ImplementsRequests == Promise!RSpec

\* Nobody waits for a device for ever, however busy the lines before its own are.
Answered == \A p \in Proc : Waits(p) ~> ~Waits(p)

\* nonTimerInterrupt: "Determine which deviceNo is interrupting".  Every interrupt
\* that is handled is one less pending.
InterruptsAreTaken == [][Interrupt => pending' # pending]_vars

=============================================================================
