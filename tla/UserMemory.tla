----------------------------- MODULE UserMemory ------------------------------
(***************************************************************************)
(* What a process is promised of its memory: words that are its own, that  *)
(* are zero when they appear and stay until the process removes or changes *)
(* them; a child has a copy, and a new program starts as its file says.    *)
(* Memory comes and goes by the page.                                      *)
(***************************************************************************)
EXTENDS Integers, Sequences, FiniteSets

CONSTANTS Procs, PGSIZE, Execs, Text, Values

VARIABLE memory   \* the pages of each process, from address 0

NoMemory == <<>>
Zeroes == [w \in 0..(PGSIZE - 1) |-> 0]
Size(p) == Cardinality(DOMAIN memory[p])

\* The pages that are left, with zeroes behind them if there are more now.
Resized(p, n) == [i \in 0..(n - 1) |-> IF i < Size(p) THEN memory[p][i] ELSE Zeroes]

\* A program at its start.  Its segments are in place, and in the last page,
\* from the top: the arguments, a zero, the pointers to them, the pointer to
\* these, the number of arguments, and a return address.
NPages(i) == LET ends == {i[s].vaddr + i[s].memsz : s \in DOMAIN i}
             IN  (((CHOOSE e \in ends : \A f \in ends : f <= e) + PGSIZE - 1) \div PGSIZE) + 2
RECURSIVE Pointer(_, _, _)
Pointer(top, x, j) == IF j = 0 THEN top ELSE Pointer(top, x, j - 1) - x[j]
StackWord(top, x, a) ==
  LET argc == Len(x)
      low == Pointer(top, x, argc)
      args == {j \in 1..argc : a >= Pointer(top, x, j)}
  IN  IF args # {} THEN Text + (CHOOSE j \in args : \A l \in args : j <= l)
      ELSE CASE a = low - 1                             -> 0
             [] a \in (low - 1 - argc)..(low - 2)       -> Pointer(top, x, a - (low - 2 - argc))
             [] a = low - 2 - argc                      -> low - 1 - argc
             [] a = low - 3 - argc                      -> argc
             [] a = low - 4 - argc                      -> -1
             [] OTHER                                   -> 0
SegmentWord(i, a) == IF \E s \in DOMAIN i : a \in i[s].vaddr..(i[s].vaddr + i[s].filesz - 1) THEN Text ELSE 0
Program(i, x) ==
  LET last == NPages(i) - 1
  IN  [n \in 0..last |->
         [w \in 0..(PGSIZE - 1) |->
            IF n = last THEN StackWord((last + 1) * PGSIZE, x, n * PGSIZE + w)
            ELSE SegmentWord(i, n * PGSIZE + w)]]

Init == DOMAIN memory[1] = {0} /\ \A p \in Procs \ {1} : memory[p] = NoMemory

Resize(p, n) == memory[p] # NoMemory /\ memory' = [memory EXCEPT ![p] = Resized(p, n)]
Store(p) ==
  \E i \in DOMAIN memory[p], w \in DOMAIN Zeroes, v \in Values : memory' = [memory EXCEPT ![p][i][w] = v]
Copy(p, q) == memory[q] = NoMemory /\ memory' = [memory EXCEPT ![q] = memory[p]]
Start(p, i, x) == memory[p] # NoMemory /\ memory' = [memory EXCEPT ![p] = Program(i, x)]
Die(p) == memory' = [memory EXCEPT ![p] = NoMemory]

Next ==
  \/ UNCHANGED memory   \* a call that fails
  \/ \E p \in Procs :
       \/ Die(p)
       \/ Resize(p, Cardinality(DOMAIN memory'[p]))
       \/ \E q \in Procs \ {p} : Copy(p, q)
       \/ \E x \in Execs : Start(p, x.image, x.args)
       \/ Store(p)

Spec == Init /\ [][Next]_memory
=============================================================================
