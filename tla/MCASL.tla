------------------------------- MODULE MCASL -------------------------------
(***************************************************************************)
(* Instances of the active semaphore list for TLC.                         *)
(***************************************************************************)
EXTENDS ASL

PcbSymmetry == Permutations(Pcb)

=============================================================================
