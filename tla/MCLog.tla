-------------------------------- MODULE MCLog --------------------------------
(***************************************************************************)
(* Instances of Log for TLC.  Processes are interchangeable; block         *)
(* contents are too, but for the one Init takes for the log's own blocks.  *)
(***************************************************************************)
EXTENDS Log, TLC

ProcSymmetry == Permutations(Procs)

=============================================================================
