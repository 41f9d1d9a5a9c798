------------------------------ MODULE MCKernel ------------------------------
(* Small instances of Kernel for TLC. *)
EXTENDS KernelProps

MCOffsets == {0, 7}
MCEntry   == {0}
=============================================================================
