------------------------------ MODULE P2Test ------------------------------
(***************************************************************************)
(* The test program of phase 2 (p2test.c) on the nucleus: p1 to p8 as the  *)
(* sequences of calls they make, one action of Nucleus for each.           *)
(*                                                                         *)
(* A print is of one character, p2 has one semaphore s[], p3 and p5 go     *)
(* round their WAITCLOCK loop once or twice, and the messages, times and   *)
(* processor states are left out.  pcbs are handed out in order.           *)
(*                                                                         *)
(* The terminal works on a command while the processes go on.  It is not   *)
(* done before the next instruction of the process that gave the command,  *)
(* the SYS5, unless a clock or the end of a time slice interrupts that     *)
(* process in between: then it may be.                                     *)
(***************************************************************************)
EXTENDS Nucleus, FiniteSetsExt

CONSTANTS
    Slices   \* bound: how often a process is preempted by the local timer

VARIABLES
    role,        \* the program of a pcb, or NULL
    at,          \* the next instruction of its program
    p1p2synch,
    terminal,    \* whether it works on a command, see TerminalState
    slices       \* how often a time slice may still end

testVars == <<role, at, p1p2synch, terminal, slices>>

\* "started": nothing has happened since the command; "busy": it may be done.
TerminalState == {"idle", "started", "busy"}

Term0 == CHOOSE d \in Device : TRUE

----------------------------------------------------------------------------
(* The programs: sequences of <<call, operand>>.                           *)

P(s) == <<"P", s>>
Vop(s) == <<"V", s>>
create(r) == <<"create", r>>
SYS5 == <<"SYS5", Term0>>
command == <<"command", NULL>>
clock == <<"clock", NULL>>
either == <<"either", NULL>>   \* the next instruction or the one after it
info == <<"info", NULL>>       \* SYS6, SYS8
trap == <<"trap", NULL>>       \* passed up, or the end of the process
exit == <<"exit", NULL>>
error == <<"error", NULL>>     \* what no run should get to

print == <<P("term_mut"), command, SYS5, Vop("term_mut")>>

waitclock == <<clock, either, clock>>

p8round == <<create("p8root"), P("endp8")>>

p1 == <<Vop("testsem")>> \o print
      \o <<create("p2")>> \o print
      \o <<Vop("startp2"), P("endp2"), <<"check", NULL>>, create("p3")>> \o print
      \o <<P("endp3"), create("p4"), create("p5"), create("p6"), create("p7"),
           P("endp5")>> \o print
      \o <<P("blkp4")>>
      \o p8round \o p8round \o p8round \o p8round
      \o print \o <<trap, error>>

p2 == <<P("startp2")>> \o print \o <<Vop("s"), P("s")>> \o print \o <<info, info>>
      \o print \o <<<<"synch", NULL>>, Vop("endp2"), exit, error>>

p3 == waitclock \o print \o <<info, clock, info>> \o print
      \o <<Vop("endp3"), exit, error>>

p4 == print \o <<Vop("synp4"), P("blkp4"), P("synp4"), create("p4"), P("synp4")>>
      \o print \o <<Vop("endp4"), exit, error>>

\* p5 and its handlers, in the order in which its traps lead through them:
\* p5gen, then p5a and p5mm, then p5b in user mode, where its SYS9, its SYS3 and
\* its reading of the clock are passed up, then p5b in kernel mode.
p5 == print \o <<trap>> \o print
      \o <<trap>> \o print \o <<info>> \o print
      \o <<trap>> \o print \o <<trap>> \o print \o <<trap>> \o print
      \o <<trap>> \o print \o <<P("endp4")>> \o waitclock
      \o <<Vop("blkp4"), Vop("endp5"), exit, error>>

p6 == print \o <<trap, error>>

p7 == print \o <<trap, error>>

p8root == print \o <<create("child"), create("child")>>
          \o [n \in 1..4 |-> P("endcreate")]
          \o <<Vop("endp8"), exit, error>>

child == print \o <<create("p8leaf"), create("p8leaf"), P("blkp8"), error>>

p8leaf == print \o <<Vop("endcreate"), P("blkp8"), error>>

program == [test |-> p1, p2 |-> p2, p3 |-> p3, p4 |-> p4, p5 |-> p5, p6 |-> p6,
            p7 |-> p7, p8root |-> p8root, child |-> child, p8leaf |-> p8leaf]

\* Only p5 has a support structure.
SupportOf(r) == IF r = "p5" THEN CHOOSE s \in Support : TRUE ELSE NULL

----------------------------------------------------------------------------
TestInit ==
    LET root == Min(Pcb) IN
    /\ pcbFree = Pcb \ {root}
    /\ readyQ = <<>>
    /\ currentProc = root
    /\ processCount = 1
    /\ softBlockCount = 0
    /\ semaphore = [a \in SemAdd |-> IF a \in {"term_mut", "blkp4"} THEN 1 ELSE 0]
    /\ asl = [a \in SemAdd |-> <<>>]
    /\ semdFree = Cardinality(Pcb)
    /\ p_semAdd = [p \in Pcb |-> NULL]
    /\ p_child = [p \in Pcb |-> <<>>]
    /\ p_supportStruct = [p \in Pcb |-> NULL]
    /\ p_s = [p \in Pcb |-> IF p = root THEN "loaded" ELSE "old"]
    /\ dying = <<>>
    /\ cpu = "run"
    /\ role = [p \in Pcb |-> IF p = root THEN "test" ELSE NULL]
    /\ at = [p \in Pcb |-> 1]
    /\ p1p2synch = 0
    /\ terminal = "idle"
    /\ slices = Slices

Instruction == program[role[currentProc]][at[currentProc]]

\* The running process is about to do op.
Doing(op) == cpu = "run" /\ Instruction[1] = op

\* A step that is not the terminal's.
TimePasses == terminal' = IF terminal = "started" THEN "busy" ELSE terminal

Advance(n) ==
    /\ at' = [at EXCEPT ![currentProc] = @ + n]
    /\ TimePasses
    /\ UNCHANGED <<role, p1p2synch, slices>>

Create ==
    /\ Doing("create")
    /\ pcbFree # {}
    /\ CreateProcess(SupportOf(Instruction[2]))
    /\ pcbFree' = pcbFree \ {Min(pcbFree)}
    /\ role' = [role EXCEPT ![Min(pcbFree)] = Instruction[2]]
    /\ at' = [at EXCEPT ![Min(pcbFree)] = 1, ![currentProc] = @ + 1]
    /\ TimePasses
    /\ UNCHANGED <<p1p2synch, slices>>

\* A trap of a process with a support structure goes on in its handler.
PassUp ==
    /\ p_supportStruct[currentProc] # NULL
    /\ UNCHANGED vars

\* The SYS5 of print.  If it does not block, the terminal has interrupted since the
\* command, so that p_s was last saved between the two: p_s is loaded, and the next
\* instruction is the same SYS5.
Wait ==
    /\ Doing("SYS5")
    /\ WaitForDevice(Term0)
    /\ Advance(IF semaphore'[Term0] < 0 THEN 1 ELSE 0)

Call ==
    \/ Doing("V") /\ Verhogen(Instruction[2]) /\ Advance(1)
    \/ Doing("P") /\ Passeren(Instruction[2]) /\ Advance(1)
    \/ Wait
    \/ Doing("info") /\ GetInfo /\ Advance(1)
    \/ Doing("clock") /\ WaitForClock /\ Advance(1)
    \/ Doing("trap") /\ (PassUpOrDie \/ PassUp) /\ Advance(1)
    \/ Doing("exit") /\ TerminateProcess /\ Advance(1)

Compute ==
    /\ UNCHANGED vars
    /\ \/ Doing("either") /\ (Advance(1) \/ Advance(2))
       \/ Doing("check") /\ Advance(1)
       \/ /\ Doing("synch")
          /\ p1p2synch' = 1
          /\ at' = [at EXCEPT ![currentProc] = @ + 1]
          /\ TimePasses
          /\ UNCHANGED <<role, slices>>

\* The process writes the command register.
Command ==
    /\ Doing("command")
    /\ UNCHANGED vars
    /\ terminal' = "started"
    /\ at' = [at EXCEPT ![currentProc] = @ + 1]
    /\ UNCHANGED <<role, p1p2synch, slices>>

\* The terminal interrupts once for each command.
Terminal ==
    /\ terminal = "busy"
    /\ DeviceInterrupt(Term0)
    /\ terminal' = "idle"
    /\ UNCHANGED <<role, at, p1p2synch, slices>>

\* Other ticks nobody waits for are left out: they are time slices.
Tick ==
    /\ asl[Clock] # <<>> \/ cpu = "wait"
    /\ ItInterrupt
    /\ TimePasses
    /\ UNCHANGED <<role, at, p1p2synch, slices>>

\* With nobody else ready it is only time for the terminal.
EndOfSlice ==
    /\ slices > 0
    /\ currentProc # NULL
    /\ readyQ # <<>> \/ terminal = "started"
    /\ PltInterrupt
    /\ slices' = slices - 1
    /\ TimePasses
    /\ UNCHANGED <<role, at, p1p2synch>>

Halted == Stopped /\ UNCHANGED testVars

TestNext ==
    \/ Create \/ Call \/ Compute \/ Command
    \/ Terminating /\ UNCHANGED testVars
    \/ Terminal \/ Tick \/ EndOfSlice
    \/ Halted

testvars == <<vars, testVars>>

TestSpec == TestInit /\ [][TestNext]_testvars /\ WF_testvars(TestNext)

----------------------------------------------------------------------------
(* Correctness.                                                            *)

\* A process is between the P and the V of a print.
Printing(p) == role[p] # NULL /\ LET i == program[role[p]][at[p]] IN
    \/ i \in {command, SYS5}
    \/ at[p] > 1 /\ program[role[p]][at[p] - 1] = SYS5

\* The messages that report an error are never printed, however the processes
\* are preempted: every CREATETHREAD finds a pcb, although a process that ends
\* itself is never freed; p1 was really blocked until p2 was done; nobody goes on
\* after its end; no kill takes the terminal with it; and there is no PANIC.
Passes ==
    /\ cpu # "panic"
    /\ Doing("create") => pcbFree # {}
    /\ Doing("check") => p1p2synch = 1
    /\ ~Doing("error")
    /\ \A p \in Pcb \ Live : ~Printing(p)

\* p1 is terminated, and with it everybody.
Ended == cpu = "halt" /\ Live = {}

\* The test comes to its end, wherever time slices end and whenever the terminal and
\* the clock interrupt, provided that no interrupt of the terminal comes before the
\* SYS5 that waits for it (its semaphore is then above 0).  If one does, that SYS5 is
\* made twice, and print waits with term_mut for an interrupt that has been.
Finishes == [](semaphore[Term0] <= 0) => <>Ended

=============================================================================
