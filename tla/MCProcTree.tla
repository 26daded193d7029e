----------------------------- MODULE MCProcTree -----------------------------
(***************************************************************************)
(* Instances of the process trees for TLC.                                 *)
(***************************************************************************)
EXTENDS ProcTree

PcbSymmetry == Permutations(Pcb)

=============================================================================
