------------------------------- MODULE MCFiles -------------------------------
(* Two processes, two files of at most three blocks of two bytes. *)
EXTENDS Files, TLC

MCModes == {[readable |-> TRUE, writable |-> TRUE]}

\* One process with two files; two processes that share open files; descriptors
\* that are passed on while files come and go; and a write of several turns.
Contents == [files |-> {1, 2}, data |-> {<<1, 2, 1>>}, sizes |-> {1, 3}, calls |-> {"unlink"}]
Sharing == [files |-> {1}, data |-> {<<1, 2, 1>>}, sizes |-> {3}, calls |-> {"fork"}]
Descriptors == [files |-> {1, 2}, data |-> {}, sizes |-> {}, calls |-> {"unlink", "dup", "fork"}]
Long == [files |-> {1}, data |-> {<<1, 2, 2, 1, 1, 2>>}, sizes |-> {}, calls |-> {}]
MCPrograms == {Contents, Sharing, Descriptors, Long}

ProcSymmetry == Permutations(Procs)
=============================================================================
