----------------------------- MODULE Processes -----------------------------
(***************************************************************************)
(* What the nucleus promises to processes: a tree of them, sharing one     *)
(* processor, of which SYS2 removes a process and all its progeny at once, *)
(* and semaphores on which a P blocks until somebody's V lets it go.       *)
(*                                                                         *)
(* Nothing here says in which order processes are dispatched or woken, how *)
(* many pcbs or descriptors there are, or what the nucleus counts.         *)
(***************************************************************************)
EXTENDS Integers, FiniteSets

CONSTANTS
    Process,   \* every process there can be
    Counting,  \* the semaphores of SYS3 and SYS4
    Event,     \* what SYS5 and SYS7 wait for: devices and the clock
    Nobody

VARIABLES
    run,       \* the process that has the processor, or Nobody
    ready,     \* the processes that could have it
    waits,     \* the processes waiting for each semaphore and event
    count,     \* the value of every counting semaphore
    parent     \* the parent of a process, or Nobody

pvars == <<run, ready, waits, count, parent>>

Alive == ({run} \ {Nobody}) \cup ready \cup UNION {waits[a] : a \in Counting \cup Event}

PInit ==
    \E root \in Process :
        /\ run = root
        /\ ready = {}
        /\ waits = [a \in Counting \cup Event |-> {}]
        /\ count = [s \in Counting |-> 0]
        /\ parent = [p \in Process |-> Nobody]

\* One of the processes in R gets the processor, the others are ready.
Choose(R) ==
    IF R = {} THEN run' = Nobody /\ ready' = {}
              ELSE \E p \in R : run' = p /\ ready' = R \ {p}

\* SYS1: the new process is ready, and a child of the one that made it.
Spawn ==
    /\ run # Nobody
    /\ \E p \in Process \ Alive :
          ready' = ready \cup {p} /\ parent' = [parent EXCEPT ![p] = run]
    /\ UNCHANGED <<run, waits, count>>

Descends(p) ==
    LET generation[n \in Nat] ==
            IF n = 0 THEN {p}
            ELSE generation[n - 1] \cup {q \in Alive : parent[q] \in generation[n - 1]}
    IN generation[Cardinality(Process)]

\* SYS2: the running process is gone with all its progeny, at once, and nobody
\* else is; the P of those that were waiting for a semaphore is undone.
Kill ==
    LET dead == Descends(run) IN
    /\ run # Nobody
    /\ run' = Nobody
    /\ ready' = ready \ dead
    /\ waits' = [a \in Counting \cup Event |-> waits[a] \ dead]
    /\ count' = [s \in Counting |-> count[s] + Cardinality(waits[s] \cap dead)]
    /\ parent' = [p \in Process |-> IF p \in dead THEN Nobody ELSE parent[p]]

\* The processor goes to another process, or to none when none is ready.
Dispatch ==
    /\ Choose(ready \cup ({run} \ {Nobody}))
    /\ UNCHANGED <<waits, count, parent>>

\* SYS3.
P(s) ==
    /\ run # Nobody
    /\ count' = [count EXCEPT ![s] = @ - 1]
    /\ IF count[s] > 0
       THEN UNCHANGED <<run, ready, waits>>
       ELSE waits' = [waits EXCEPT ![s] = @ \cup {run}] /\ Choose(ready)
    /\ UNCHANGED parent

\* SYS4: if anybody waits, somebody no longer does.
V(s) ==
    /\ run # Nobody
    /\ count' = [count EXCEPT ![s] = @ + 1]
    /\ IF waits[s] = {}
       THEN UNCHANGED <<ready, waits>>
       ELSE \E p \in waits[s] : /\ waits' = [waits EXCEPT ![s] = @ \ {p}]
                                /\ ready' = ready \cup {p}
    /\ UNCHANGED <<run, parent>>

\* SYS5 and SYS7.
Await(e) ==
    /\ run # Nobody
    /\ waits' = [waits EXCEPT ![e] = @ \cup {run}]
    /\ Choose(ready)
    /\ UNCHANGED <<count, parent>>

\* The processes in W stop waiting for e; whoever runs may go on running.
Release(e, W) ==
    /\ waits' = [waits EXCEPT ![e] = @ \ W]
    /\ \/ run # Nobody /\ run' = run /\ ready' = ready \cup W
       \/ Choose(ready \cup W \cup ({run} \ {Nobody}))
    /\ UNCHANGED <<count, parent>>

\* An interrupt: one of the processes that wait goes on, or all of them do.
Happens(e) ==
    \/ \E p \in waits[e] : Release(e, {p})
    \/ Release(e, waits[e])

PNext ==
    \/ Dispatch
    \/ \E s \in Counting : P(s) \/ V(s)
    \/ \E e \in Event : Await(e) \/ Happens(e)
    \/ Spawn
    \/ Kill

PSpec == PInit /\ [][PNext]_pvars

=============================================================================
