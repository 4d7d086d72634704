------------------------------ MODULE MCMemory -------------------------------
(* Pages of eight words, three to a table, at most six in a process. *)
EXTENDS Memory

seg(vaddr, memsz, filesz, present) ==
  [vaddr |-> vaddr, memsz |-> memsz, filesz |-> filesz, present |-> present]
call(image, args) == [image |-> image, args |-> args]

\* A page and a half: up to the kernel's memory and down beyond zero.
Growing == [sbrks |-> {12, -12}, execs |-> {}, scarce |-> TRUE]

\* A small program, and one with two segments, out of order.
Small == <<seg(0, 5, 3, 3)>>
Large == <<seg(8, 8, 2, 2), seg(0, 7, 7, 7)>>
Starting == [sbrks |-> {12, -12}, execs |-> {call(Small, <<1>>), call(Large, <<1, 1>>)}, scarce |-> TRUE]

\* Programs that do not start: too large, badly placed, wrapping around, cut
\* short, inconsistent; arguments that do not fit, or are too many.
Failing == [sbrks |-> {}, scarce |-> FALSE, execs |->
  {call(<<seg(0, 33, 1, 1)>>, <<>>), call(<<seg(0, 8, 8, 8), seg(12, 2, 2, 2)>>, <<>>),
   call(<<seg(0, 8, 8, 8), seg(88, 10, 1, 1)>>, <<>>), call(<<seg(0, 12, 12, 9)>>, <<>>),
   call(<<seg(0, 2, 3, 3)>>, <<>>), call(Small, <<2, 7>>), call(Small, <<4>>),
   call(Small, <<1, 1, 1>>), call(Small, <<3>>)}]

MCPrograms == {Growing, Starting, Failing}

\* States that differ only in which page is used for what behave alike: they are
\* told apart by the contents of address spaces, the number of free pages and
\* whether each page has one use.
Shape(p) ==
  IF p \notin Live THEN <<>>
  ELSE <<proc[p].state, proc[p].sz,
         [i \in DOMAIN EmptyDir |-> mem[proc[p].pgdir][i] # 0],
         [a \in MappedPages(proc[p].pgdir) |->
            <<pte(Now, proc[p].pgdir, a).u, mem[pte(Now, proc[p].pgdir, a).pa]>>]>>
Shapes == <<[p \in Procs |-> Shape(p)], Cardinality(free), program, panicked, TypeOK /\ OneUse>>
=============================================================================
