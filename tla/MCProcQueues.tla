---------------------------- MODULE MCProcQueues ----------------------------
(***************************************************************************)
(* An instance of the process queues for TLC.                              *)
(***************************************************************************)
EXTENDS ProcQueues

PcbSymmetry == Permutations(Pcb)

=============================================================================
