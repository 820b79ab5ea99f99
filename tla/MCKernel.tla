------------------------------- MODULE MCKernel -------------------------------
(***************************************************************************)
(* Kernel, its properties and its inductive invariant, for TLC.            *)
(***************************************************************************)
EXTENDS KernelSessions
===============================================================================
