------------------------------- MODULE MCProc -------------------------------
(***************************************************************************)
(* Instances of Proc for TLC.  The CPUs are interchangeable; the slots are *)
(* not, because the kernel scans the table in order.                       *)
(***************************************************************************)
EXTENDS Proc, TLC

CpuSymmetry == Permutations(Cpus)

=============================================================================
