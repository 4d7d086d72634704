------------------------------ MODULE MCBuffers ------------------------------
(***************************************************************************)
(* Buffers for TLC: two processes that hold up to two buffers each, three  *)
(* buffers for four blocks, one of them faulty, and one block in the log.  *)
(* The demand can exceed the buffers, so bget() also runs out of them.     *)
(* Processes, buffers and contents are interchangeable.                    *)
(***************************************************************************)
EXTENDS Buffers, TLC

BufferSymmetry ==
  {f @@ g @@ h : f \in Permutations(Procs), g \in Permutations(Bufs), h \in Permutations(Values)}

=============================================================================
