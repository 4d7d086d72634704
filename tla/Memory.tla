------------------------------- MODULE Memory --------------------------------
(***************************************************************************)
(* Physical pages and address spaces: the allocator (kalloc.c), page       *)
(* tables (vm.c), sbrk, fork, exec and wait (proc.c, exec.c), and the      *)
(* checks of pointers that are arguments of system calls (syscall.c).      *)
(*                                                                         *)
(* The unit is a word.  Only the free list is shared: an address space is  *)
(* changed by its own process, or while no process runs in it.  A system   *)
(* call is one step therefore, in which kalloc() succeeds any number of    *)
(* times before it fails, as the other processes leave it pages or not.    *)
(***************************************************************************)
EXTENDS Integers, Sequences, FiniteSets, SequencesExt, FiniteSetsExt

CONSTANTS
  Procs,         \* slots of the process table; 1 is the first process
  NFrames,       \* pages of physical memory
  PGSIZE, NPTENTRIES, NPDENTRIES,
  MAXARG,
  Programs       \* what programs do, [sbrks, execs, scarce]: the arguments of sbrk(),
                 \* and of exec(), [image, args]: an image is a sequence of segments,
                 \* each [vaddr, memsz, filesz, present], where present is how much of
                 \* it the file has; args are the lengths of the arguments; and
                 \* whether others take pages in the meantime

Frames == 1..NFrames
PDXSIZE == NPTENTRIES * PGSIZE
Modulus == NPDENTRIES * PDXSIZE        \* 2^32
KERNBASE == Modulus \div 2
Text == 1                              \* a word of a program's file
Stored == 7                            \* a word that a program has written

ASSUME MemoryAssumption ==
  /\ 1 \in Procs
  /\ {NFrames, PGSIZE, NPTENTRIES, NPDENTRIES, MAXARG} \subseteq Nat \ {0}
  /\ NPDENTRIES % 2 = 0
  /\ \A g \in Programs :
       /\ g.sbrks \subseteq -KERNBASE..(KERNBASE - 1)
       \* no argument reaches below the guard page of the stack
       /\ \A x \in g.execs : \A j \in DOMAIN x.args : x.args[j] \in 1..PGSIZE

VARIABLES
  mem,       \* what is in each page: a directory, a table, words, or something else
  free,      \* kmem.freelist
  proc,      \* of each process: state, kstack, pgdir, sz
  program,   \* what the programs that run do, one of Programs
  panicked

vars == <<mem, free, proc, program, panicked>>

Junk == <<>>
Stack == <<0>>
Absent == [pa |-> 0, u |-> FALSE]
Kernel == NFrames + 1                  \* memory of the kernel, in its part of page tables
EmptyDir == [d \in 0..(NPDENTRIES - 1) |-> 0]
EmptyTable == [t \in 0..(NPTENTRIES - 1) |-> Absent]
Zeroes == [w \in 0..(PGSIZE - 1) |-> 0]
Unused == [state |-> "unused", kstack |-> 0, pgdir |-> 0, sz |-> 0]

PGROUNDUP(x) == ((x + PGSIZE - 1) \div PGSIZE) * PGSIZE
PDX(a) == a \div PDXSIZE
PTX(a) == (a \div PGSIZE) % NPTENTRIES
PageStarts(a, b) == [i \in 1..((PGROUNDUP(b) - a) \div PGSIZE) |-> a + (i - 1) * PGSIZE]

-----------------------------------------------------------------------------
(* kalloc.c, on a record k of what a call has done: mem, free; left, the    *)
(* pages that it may still get; got, what was returned; ok; panic; and of   *)
(* exec(), the size sz, the stack pointer and the pointers to arguments.    *)

CallIn(pages, unused, left) ==
  [mem |-> pages, free |-> unused, left |-> left, got |-> 0, ok |-> TRUE, panic |-> FALSE,
   sz |-> 0, sp |-> 0, argv |-> <<>>]
Call(left) == CallIn(mem, free, left)
fail(k) == [k EXCEPT !.ok = FALSE]
panic(k) == [k EXCEPT !.panic = TRUE]
gives(k, f) == [k EXCEPT !.got = f]

\* What follows if all went well, and if not.
Then(k, Op(_)) == IF k.ok /\ ~k.panic THEN Op(k) ELSE k
Else(k, Op(_)) == IF k.ok THEN k ELSE Op(k)
ForAll(k, Op(_, _), s) == FoldLeft(LAMBDA t, x : Then(t, LAMBDA r : Op(r, x)), k, s)

\* Which page it is makes no difference; the model takes the first.
take(k, f, content) == [k EXCEPT !.free = @ \ {f}, !.mem[f] = content, !.left = @ - 1, !.got = f]
kalloc(k, content) == IF k.left = 0 THEN fail(k) ELSE take(k, Min(k.free), content)
kfree(k, f) == [k EXCEPT !.free = @ \cup {f}, !.mem[f] = Junk]

-----------------------------------------------------------------------------
(* vm.c *)

table(k, d, a) == k.mem[d][PDX(a)]
tableEntry(k, t, a) == IF t = 0 THEN Absent ELSE k.mem[t][PTX(a)]
pte(k, d, a) == tableEntry(k, table(k, d, a), a)

\* walkpgdir() with alloc; without, it is table() or pte().
walkpgdir(k, d, a) ==
  IF table(k, d, a) # 0 THEN gives(k, table(k, d, a))
  ELSE Then(kalloc(k, EmptyTable), LAMBDA t : [t EXCEPT !.mem[d][PDX(a)] = t.got])

mapEntry(k, t, a, entry) ==
  IF k.mem[t][PTX(a)].pa # 0 THEN panic(k)   \* "remap"
  ELSE [k EXCEPT !.mem[t][PTX(a)] = entry]
mappages(k, d, a, pa, u) ==
  Then(walkpgdir(k, d, a), LAMBDA t : mapEntry(t, t.got, a, [pa |-> pa, u |-> u]))

unmap(k, t, a, pa) == IF pa = 0 THEN k ELSE [kfree(k, pa) EXCEPT !.mem[t][PTX(a)] = Absent]
RECURSIVE deallocFrom(_, _, _, _)
deallocFrom(k, d, a, oldsz) ==
  IF a >= oldsz THEN k
  ELSE IF table(k, d, a) = 0 THEN deallocFrom(k, d, (PDX(a) + 1) * PDXSIZE, oldsz)
  ELSE deallocFrom(unmap(k, table(k, d, a), a, pte(k, d, a).pa), d, a + PGSIZE, oldsz)
\* Mutant: the page that newsz is in goes, too.
firstToGoDown(newsz) == newsz - (newsz % PGSIZE)
firstToGo(newsz) == PGROUNDUP(newsz)
deallocuvm(k, d, oldsz, newsz) ==
  IF newsz >= oldsz THEN k ELSE deallocFrom(k, d, firstToGo(newsz), oldsz)
deallocSize(oldsz, newsz) == IF newsz >= oldsz THEN oldsz ELSE newsz

freeTables(k, d) ==
  FoldSet(LAMBDA f, t : kfree(t, f), k, {k.mem[d][i] : i \in DOMAIN EmptyDir} \ {0})
freevm(k, d) == kfree(freeTables(deallocuvm(k, d, KERNBASE, 0), d), d)

\* The kernel's part of the directory that s has got.
setupkvm(k) ==
  Then(kalloc(k, EmptyDir), LAMBDA s :
    gives(Else(ForAll(s, LAMBDA t, a : mappages(t, s.got, a, Kernel, FALSE), PageStarts(KERNBASE, Modulus)),
               LAMBDA t : freevm(t, s.got)),
          s.got))

\* Mutant: the page is lost if there is none for a table.
newPageLost(k, d, a, content, u) ==
  Then(kalloc(k, content), LAMBDA s : mappages(s, d, a, s.got, u))
\* A new page, mapped at a; undone if there is no page for a table.
newPage(k, d, a, content, u) ==
  Then(kalloc(k, content), LAMBDA s :
    Else(mappages(s, d, a, s.got, u), LAMBDA t : kfree(t, s.got)))

tooLarge(newsz) == newsz >= KERNBASE
firstToAdd(oldsz) == PGROUNDUP(oldsz)

\* allocuvm() takes back what it has added if there is no more.
allocuvm(k, d, oldsz, newsz) ==
  IF tooLarge(newsz) THEN fail(k)
  ELSE IF newsz < oldsz THEN k
  ELSE Else(ForAll(k, LAMBDA t, a : newPage(t, d, a, Zeroes, TRUE), PageStarts(firstToAdd(oldsz), newsz)),
            LAMBDA t : deallocuvm(t, d, newsz, oldsz))
allocSize(oldsz, newsz) == IF newsz < oldsz THEN oldsz ELSE newsz

\* Mutant: the contents are not copied.
copyPageEmpty(k, d, a, x) ==
  IF x.pa = 0 THEN panic(k) ELSE newPage(k, d, a, Zeroes, x.u)
copyPage(k, d, a, x) ==
  IF x.pa = 0 THEN panic(k)   \* "copyuvm: page not present"
  ELSE newPage(k, d, a, k.mem[x.pa], x.u)
copyuvm(k, from, sz) ==
  Then(setupkvm(k), LAMBDA s :
    gives(Else(ForAll(s, LAMBDA t, a : copyPage(t, s.got, a, pte(t, from, a)), PageStarts(0, sz)),
               LAMBDA t : freevm(t, s.got)),
          s.got))

clearpteu(k, d, a) == [k EXCEPT !.mem[table(k, d, a)][PTX(a)].u = FALSE]

\* copyout(), word by word; uva2ka() refuses pages that are not the user's.
copyWord(k, x, a, w) == IF x.pa = 0 \/ ~x.u THEN fail(k) ELSE [k EXCEPT !.mem[x.pa][a % PGSIZE] = w]
copyout(k, d, va, words) ==
  ForAll(k, LAMBDA t, j : copyWord(t, pte(t, d, va + j - 1), va + j - 1, words[j]),
         [j \in 1..Len(words) |-> j])

\* A page of a segment, from the file.
loadPage(k, pa, n, present) ==
  IF pa = 0 THEN panic(k)     \* "loaduvm: address should exist"
  ELSE IF n > present THEN fail(k)
  ELSE [k EXCEPT !.mem[pa] = [w \in 0..(PGSIZE - 1) |-> IF w < n THEN Text ELSE @[w]]]
loaduvm(k, d, ph) ==
  ForAll(k, LAMBDA t, i : loadPage(t, pte(t, d, ph.vaddr + i).pa, Min({PGSIZE, ph.filesz - i}), ph.present - i),
         PageStarts(0, ph.filesz))

\* The first program is shorter than a page.
inituvm(k, d) == newPage(k, d, 0, [w \in 0..(PGSIZE - 1) |-> IF w < PGSIZE - 1 THEN Text ELSE 0], TRUE)

-----------------------------------------------------------------------------
(* The first process: kvmalloc(), userinit() *)

KernelDir == 1   \* kpgdir, the first page that is allocated
userinit ==
  LET kvmalloc == setupkvm(CallIn([f \in Frames |-> Junk], Frames, NFrames))
  IN  Then(kalloc(kvmalloc, Stack), LAMBDA s :
        Then(setupkvm(s), LAMBDA t : [inituvm(t, t.got) EXCEPT !.argv = <<s.got, t.got>>]))

Init ==
  /\ mem = userinit.mem /\ free = userinit.free
  /\ proc = [p \in Procs |->
       IF p = 1 THEN [state |-> "user", kstack |-> userinit.argv[1], pgdir |-> userinit.argv[2], sz |-> PGSIZE]
       ELSE Unused]
  /\ program \in Programs /\ panicked = FALSE

Now == Call(0)
ends(k) == mem' = k.mem /\ free' = k.free /\ panicked' = k.panic /\ UNCHANGED program

\* A process without its first page, which its program is in, can do nothing.
runs(p) == ~panicked /\ proc[p].state = "user" /\ pte(Now, proc[p].pgdir, 0).pa # 0

-----------------------------------------------------------------------------
(* sbrk() *)

\* uint arithmetic
sum(x, n) == (x + n) % Modulus

\* growproc() takes a size of 0 for a failure.
resized(p, k, newsz) ==
  /\ ends(k)
  /\ proc' = IF ~k.ok \/ newsz = 0 THEN proc ELSE [proc EXCEPT ![p].sz = newsz]
growproc(p, n, left) ==
  LET sz == proc[p].sz
      newsz == sum(sz, n)
  IN  /\ runs(p)
      /\ \/ n > 0 /\ resized(p, allocuvm(Call(left), proc[p].pgdir, sz, newsz), allocSize(sz, newsz))
         \/ n < 0 /\ resized(p, deallocuvm(Call(left), proc[p].pgdir, sz, newsz), deallocSize(sz, newsz))

-----------------------------------------------------------------------------
(* fork() and wait() *)

born(p, q, stack, k) ==
  /\ ends(k)
  /\ proc' = IF ~k.ok THEN proc
             ELSE [proc EXCEPT ![q] = [state |-> "user", kstack |-> stack, pgdir |-> k.got, sz |-> proc[p].sz]]
copied(p, q, s) ==
  born(p, q, s.got, Then(s, LAMBDA r :
    Else(copyuvm(r, proc[p].pgdir, proc[p].sz), LAMBDA t : kfree(t, r.got))))
fork(p, q, left) ==
  /\ runs(p) /\ proc[q].state = "unused"
  /\ copied(p, q, kalloc(Call(left), Stack))

exit(p) ==
  /\ p # 1 /\ ~panicked /\ proc[p].state = "user"   \* by itself, or by a page fault
  /\ proc' = [proc EXCEPT ![p].state = "zombie"]
  /\ UNCHANGED <<mem, free, program, panicked>>

\* The parent of q, which may be any process, has found it.
wait(q) ==
  /\ ~panicked /\ proc[q].state = "zombie"
  /\ ends(freevm(kfree(Now, proc[q].kstack), proc[q].pgdir))
  /\ proc' = [proc EXCEPT ![q] = Unused]

word(p, a) == mem[pte(Now, proc[p].pgdir, a).pa][a % PGSIZE]

\* The program writes the last word that is its own; one such word is enough.
Store(p) ==
  LET own == {a \in 0..(proc[p].sz - 1) : pte(Now, proc[p].pgdir, a).u}
      x == pte(Now, proc[p].pgdir, Max(own))
  IN  /\ runs(p) /\ \A a \in own : word(p, a) # Stored
      /\ mem' = [mem EXCEPT ![x.pa][Max(own) % PGSIZE] = Stored]
      /\ UNCHANGED <<free, proc, program, panicked>>

-----------------------------------------------------------------------------
(* exec(), in a new address space d *)

grow(k, d, newsz) ==
  Then(allocuvm(k, d, k.sz, newsz), LAMBDA t :
    IF allocSize(k.sz, newsz) = 0 THEN fail(t) ELSE [t EXCEPT !.sz = allocSize(k.sz, newsz)])

loadSegment(k, d, ph) ==
  IF ph.memsz < ph.filesz \/ sum(ph.vaddr, ph.memsz) < ph.vaddr THEN fail(k)
  ELSE Then(grow(k, d, sum(ph.vaddr, ph.memsz)), LAMBDA t :
         IF ph.vaddr % PGSIZE # 0 THEN fail(t) ELSE loaduvm(t, d, ph))

\* Two pages, the first of which is not the user's.
addStack(k, d) ==
  Then(grow([k EXCEPT !.sz = PGROUNDUP(@)], d, PGROUNDUP(k.sz) + 2 * PGSIZE), LAMBDA t :
    [clearpteu(t, d, t.sz - 2 * PGSIZE) EXCEPT !.sp = t.sz])

pushArg(k, d, n) ==
  IF Len(k.argv) >= MAXARG THEN fail(k)
  ELSE copyout([k EXCEPT !.sp = @ - n, !.argv = Append(@, k.sp - n)], d, k.sp - n,
               [j \in 1..n |-> Text + Len(k.argv) + 1])

ustack(k) == <<-1, Len(k.argv), k.sp - (Len(k.argv) + 1)>> \o k.argv \o <<0>>
pushVector(k, d) == copyout(k, d, k.sp - Len(ustack(k)), ustack(k))

newImage(k, d, x) ==
  Then(Then(Then(ForAll(k, LAMBDA t, ph : loadSegment(t, d, ph), x.image),
                 LAMBDA t : addStack(t, d)),
            LAMBDA t : ForAll(t, LAMBDA s, n : pushArg(s, d, n), x.args)),
       LAMBDA t : pushVector(t, d))

\* cleanupexec() gives the new address space up, the other frees the old one.
prepared(k, x) ==
  Then(setupkvm(k), LAMBDA s :
    gives(Else(newImage(s, s.got, x), LAMBDA t : freevm(t, s.got)), s.got))
commit(p, k) ==
  IF ~k.ok THEN ends(k) /\ UNCHANGED proc
  ELSE /\ ends(freevm(k, proc[p].pgdir))
       /\ proc' = [proc EXCEPT ![p].pgdir = k.got, ![p].sz = k.sz]
exec(p, x, left) == runs(p) /\ commit(p, prepared(Call(left), x))

Budgets == IF program.scarce THEN 0..Cardinality(free) ELSE {Cardinality(free)}

Next ==
  \E p \in Procs :
    \/ exit(p)
    \/ wait(p)
    \/ Store(p)
    \/ \E n \in program.sbrks \cup {-proc[p].sz}, left \in Budgets :
         \* the first process keeps some of its memory
         (p = 1 => n + proc[p].sz # 0) /\ growproc(p, n, left)
    \/ \E q \in Procs, left \in Budgets : fork(p, q, left)
    \/ \E x \in program.execs, left \in Budgets : exec(p, x, left)

Spec == Init /\ [][Next]_vars

-----------------------------------------------------------------------------
Live == {p \in Procs : proc[p].state # "unused"}
Dirs == {proc[p].pgdir : p \in Live} \cup {KernelDir}
Tables(d) == {mem[d][i] : i \in DOMAIN EmptyDir} \ {0}
MappedPages(d) == {a \in ToSet(PageStarts(0, KERNBASE)) : pte(Now, d, a).pa # 0}

\* A page of physical memory is of the kind that its users take it for.
TypeOK ==
  /\ free \subseteq Frames /\ panicked \in BOOLEAN
  /\ proc \in [Procs -> [state : {"unused", "user", "zombie"}, kstack : Frames \cup {0},
                         pgdir : Frames \cup {0}, sz : 0..(KERNBASE - 1)]]
  /\ \A p \in Live : mem[proc[p].kstack] = Stack
  /\ \A d \in Dirs :
       /\ DOMAIN mem[d] = DOMAIN EmptyDir
       /\ \A t \in Tables(d) : DOMAIN mem[t] = DOMAIN EmptyTable
       /\ \A a \in MappedPages(d) : DOMAIN mem[pte(Now, d, a).pa] = DOMAIN Zeroes

\* The uses of pages: kernel stacks, directories, tables and user memory.
Uses ==
  {<<"stack", p, proc[p].kstack>> : p \in Live}
    \cup {<<"dir", d, d>> : d \in Dirs}
    \cup UNION {{<<"table", <<d, i>>, mem[d][i]>> : i \in {j \in DOMAIN EmptyDir : mem[d][j] # 0}} : d \in Dirs}
    \cup UNION {{<<"page", <<d, a>>, pte(Now, d, a).pa>> : a \in MappedPages(d)} : d \in Dirs}

\* kalloc.c, vm.c: every page of physical memory is free or has one use, however
\* many of the allocations of a call succeed: no failure leaks a page, and
\* none is freed twice or freed while it is in use.
OneUse ==
  /\ Cardinality(Live) = Cardinality({proc[p].pgdir : p \in Live})
  /\ LET uses == Uses
         used == {x[3] : x \in uses}
     IN  used = Frames \ free /\ Cardinality(uses) = Cardinality(used)

\* proc.c:157, vm.c:313-335: the pages below a process's size are present, and
\* no others: what copyuvm() relies on.  The exception is a process that gives
\* back all of its memory, which growproc() takes for a failure.
SizeMapped ==
  \A p \in Live :
    MappedPages(proc[p].pgdir) \in {ToSet(PageStarts(0, proc[p].sz)), {}}

\* syscall.c:21, 63
\* Mutant: addr is not looked at by itself.
fetchintWraps(p, a) == ~(sum(a, 1) > proc[p].sz)
fetchint(p, a) == ~(a >= proc[p].sz \/ sum(a, 1) > proc[p].sz)
argptr(p, a, size) == ~(size < 0 \/ a >= proc[p].sz \/ sum(a, size) > proc[p].sz)

\* syscall.c:17-68: what the checks of arguments accept is memory of the process
\* that is present, so that the kernel does not fault on it, whatever sbrk() and
\* exec() did before.
ArgumentsPresent ==
  \A p \in Procs, a \in 0..(Modulus - 1) :
    LET present(x) == x < KERNBASE /\ pte(Now, proc[p].pgdir, x).pa # 0
    IN  runs(p) =>
          /\ fetchint(p, a) => present(a)
          /\ \A size \in {1, PGSIZE, KERNBASE - 1} :
               argptr(p, a, size) => \A x \in a..(a + size - 1) : present(x)

Promised == INSTANCE UserMemory WITH
  Values <- {Stored},
  Execs <- UNION {g.execs : g \in Programs},
  memory <- [p \in Procs |->
               IF runs(p)
               THEN [i \in 0..((PGROUNDUP(proc[p].sz) \div PGSIZE) - 1) |->
                       mem[pte(Now, proc[p].pgdir, i * PGSIZE).pa]]
               ELSE <<>>]

\* vm.c, exec.c, proc.c: the memory of a process is its own: zero where it is new,
\* a copy after fork(), the program and its arguments after exec(), and unchanged
\* by calls that fail.
IsPrivate == Promised!Spec
=============================================================================
