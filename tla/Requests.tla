------------------------------ MODULE Requests ------------------------------
(***************************************************************************)
(* What SYS5 promises: a process that starts an operation on a channel of  *)
(* a device is given the status that operation ends with, and no other.    *)
(***************************************************************************)
CONSTANTS
    Asker,     \* the processes
    Channel,   \* what can work at the same time: devices, halves of terminals
    Status,    \* what an operation can end with
    None

VARIABLES
    asked,     \* the channel a process waits for, or None
    outcome,   \* of a channel: "idle", "busy", or the status it has to deliver
    answer     \* the status a process was given last, or None

rvars == <<asked, outcome, answer>>

RInit ==
    /\ asked = [p \in Asker |-> None]
    /\ outcome = [c \in Channel |-> "idle"]
    /\ answer = [p \in Asker |-> None]

Ask(p, c) ==
    /\ asked[p] = None
    /\ outcome[c] = "idle"
    /\ asked' = [asked EXCEPT ![p] = c]
    /\ outcome' = [outcome EXCEPT ![c] = "busy"]
    /\ UNCHANGED answer

End(c, s) ==
    /\ outcome[c] = "busy"
    /\ outcome' = [outcome EXCEPT ![c] = s]
    /\ UNCHANGED <<asked, answer>>

\* Whoever waits for c is given its status; nobody does if it was killed.
Deliver(c) ==
    /\ outcome[c] \in Status
    /\ outcome' = [outcome EXCEPT ![c] = "idle"]
    /\ asked' = [p \in Asker |-> IF asked[p] = c THEN None ELSE asked[p]]
    /\ answer' = [p \in Asker |-> IF asked[p] = c THEN outcome[c] ELSE answer[p]]

\* A process ends while it waits; its operation does not.
GiveUp(p) ==
    /\ asked' = [asked EXCEPT ![p] = None]
    /\ answer' = [answer EXCEPT ![p] = None]
    /\ UNCHANGED outcome

RNext ==
    \/ \E p \in Asker, c \in Channel : Ask(p, c)
    \/ \E c \in Channel, s \in Status : End(c, s)
    \/ \E c \in Channel : Deliver(c)
    \/ \E p \in Asker : GiveUp(p)

RSpec == RInit /\ [][RNext]_rvars

=============================================================================
