-------------------------------- MODULE Files --------------------------------
(***************************************************************************)
(* File contents: the block allocator and the blocks of an inode (fs.c),   *)
(* the table of open files (file.c) and the descriptors of processes       *)
(* (sysfile.c, and proc.c for fork and exit).                              *)
(*                                                                         *)
(* What runs with one inode locked is one step: readi(), or one turn of    *)
(* filewrite()'s loop, which is also one transaction.                      *)
(***************************************************************************)
EXTENDS Integers, Sequences, FiniteSets, SequencesExt, FiniteSetsExt

CONSTANTS
  Procs,
  NInodes,      \* files, by inode number
  NBlocks,      \* data blocks
  BSIZE, NDIRECT, NINDIRECT,
  BPB,          \* bits in a block of the bitmap
  MAXOPBLOCKS,  \* blocks a transaction may write
  NFILE, NOFILE,
  Programs,     \* what programs do: [files, data, sizes, calls]: the files they open,
                \* what they write, how much they read at a time, other calls
  Modes         \* how they open files: [readable, writable]

Inodes == 1..NInodes
Blocks == 1..NBlocks
Opens == 1..NFILE
Fds == 0..(NOFILE - 1)
MAXFILE == NDIRECT + NINDIRECT
Data == UNION {g.data : g \in Programs}
Bytes == UNION {ToSet(s) : s \in Data}

ASSUME FilesAssumption ==
  /\ {NInodes, NBlocks, BSIZE, NDIRECT, NINDIRECT, BPB, MAXOPBLOCKS, NFILE, NOFILE} \subseteq Nat \ {0}
  /\ NINDIRECT <= BSIZE                \* a cell of a block is a byte or a block number
  /\ (MAXOPBLOCKS - 1 - 1 - 2) \div 2 > 0
  /\ \A g \in Programs : g.sizes \subseteq Nat /\ <<>> \notin g.data /\ g.files \subseteq Inodes

VARIABLES
  fs,       \* disk: the cells of each block, bitmap: the blocks in use,
            \* addrs, size: of each inode, tx: the blocks the latest step has written
  linked,   \* whether an inode has a name
  ftable,   \* struct file: ref, ip, off, readable, writable
  ofile,    \* the descriptors of each process, 0 if closed
  state,    \* what a process does: "user", "write", "exit" or "none" if it does not exist
  towrite,  \* filewrite(): its file, and the bytes that are still to be written
  got,      \* the bytes the latest step has read
  program,  \* what the programs that run do, one of Programs
  panicked

vars == <<fs, linked, ftable, ofile, state, towrite, got, program, panicked>>

Zeroes == [k \in 0..(BSIZE - 1) |-> 0]
Junk == [k \in 0..(BSIZE - 1) |-> 1]
NoWrite == [f |-> 0, s |-> <<>>]
NoFile == [ref |-> 0, ip |-> 1, off |-> 0, readable |-> FALSE, writable |-> FALSE]

TypeOK ==
  /\ fs.disk \in [Blocks -> [0..(BSIZE - 1) -> Bytes \cup Blocks \cup {0}]]
  /\ fs.bitmap \subseteq Blocks
  /\ fs.addrs \in [Inodes -> [0..NDIRECT -> Blocks \cup {0}]]
  /\ fs.size \in [Inodes -> 0..(MAXFILE * BSIZE)]
  /\ linked \in [Inodes -> BOOLEAN]
  /\ ftable \in [Opens -> [ref : 0..(Cardinality(Procs) * NOFILE), ip : Inodes,
                           off : 0..(MAXFILE * BSIZE), readable : BOOLEAN, writable : BOOLEAN]]
  /\ ofile \in [Procs -> [Fds -> Opens \cup {0}]]
  /\ state \in [Procs -> {"user", "write", "exit", "none"}]
  /\ panicked \in BOOLEAN

Init ==
  /\ fs = [disk |-> [b \in Blocks |-> Junk], bitmap |-> {},
           addrs |-> [i \in Inodes |-> [k \in 0..NDIRECT |-> 0]],
           size |-> [i \in Inodes |-> 0], tx |-> {}]
  /\ linked = [i \in Inodes |-> TRUE]
  /\ ftable = [f \in Opens |-> NoFile]
  /\ ofile = [p \in Procs |-> [d \in Fds |-> 0]]
  /\ \E p \in Procs : state = [q \in Procs |-> IF q = p THEN "user" ELSE "none"]
  /\ towrite = [p \in Procs |-> NoWrite]
  /\ got = <<>> /\ program \in Programs /\ panicked = FALSE

-----------------------------------------------------------------------------
(* Blocks, on a value s of fs.  Every block written joins the transaction. *)

BBLOCK(b) == <<"bitmap", b \div BPB>>
nothingLogged == fs' = [fs EXCEPT !.tx = {}]
logs(s, blocks) == [s EXCEPT !.tx = @ \cup blocks]

\* balloc(): the first free block, zeroed.
Free(s) == Blocks \ s.bitmap

\* Mutant: the block is not zeroed.
ballocDirty(s) ==
  LET b == Min(Free(s)) IN logs([s EXCEPT !.bitmap = @ \cup {b}], {BBLOCK(b), <<"data", b>>})
balloc(s) ==
  LET b == Min(Free(s))
  IN  logs([s EXCEPT !.bitmap = @ \cup {b}, !.disk[b] = Zeroes], {BBLOCK(b), <<"data", b>>})
\* What is in a free block does not matter; it is anything but zeroes.
bfree(s, b) == logs([s EXCEPT !.bitmap = @ \ {b}, !.disk[b] = Junk], {BBLOCK(b)})

\* The block that holds block bn of inode i, 0 if there is none.
addr(s, i, bn) ==
  IF bn < NDIRECT THEN s.addrs[i][bn]
  ELSE IF s.addrs[i][NDIRECT] = 0 THEN 0 ELSE s.disk[s.addrs[i][NDIRECT]][bn - NDIRECT]

\* bmap(): what is left once block bn of inode i exists.
bmapDirect(s, i, bn) ==
  IF s.addrs[i][bn] # 0 THEN s ELSE [balloc(s) EXCEPT !.addrs[i][bn] = Min(Free(s))]
bmap(s, i, bn) ==
  IF bn < NDIRECT THEN bmapDirect(s, i, bn)
  ELSE LET t == bmapDirect(s, i, NDIRECT)
           x == t.addrs[i][NDIRECT]
       IN  IF t.disk[x][bn - NDIRECT] # 0 THEN t
           ELSE logs([balloc(t) EXCEPT !.disk[x][bn - NDIRECT] = Min(Free(t))], {<<"data", x>>})

-----------------------------------------------------------------------------
(* The bytes of an inode, block by block. *)

\* How much of n bytes from off is in off's block.
piece(off, n) == Min({n, BSIZE - (off % BSIZE)})

RECURSIVE writeBlocks(_, _, _, _)
writeBlocks(s, i, off, bytes) ==
  IF bytes = <<>> THEN s
  ELSE LET m == piece(off, Len(bytes))
           o == off % BSIZE
           t == bmap(s, i, off \div BSIZE)
           b == addr(t, i, off \div BSIZE)
           d == [k \in 0..(BSIZE - 1) |-> IF k \in o..(o + m - 1) THEN bytes[k - o + 1] ELSE t.disk[b][k]]
       IN  writeBlocks(logs([t EXCEPT !.disk[b] = d], {<<"data", b>>}), i, off + m,
                       SubSeq(bytes, m + 1, Len(bytes)))

RECURSIVE readBlocks(_, _, _)
readBlocks(i, off, n) ==
  IF n = 0 THEN <<>>
  ELSE LET m == piece(off, n)
       IN  [k \in 1..m |-> fs.disk[addr(fs, i, off \div BSIZE)][(off % BSIZE) + k - 1]]
             \o readBlocks(i, off + m, n - m)

\* The block numbers that n bytes from off are in.
spanned(off, n) == {bn \in 0..MAXFILE : \E k \in off..(off + n - 1) : bn = k \div BSIZE}
unmapped(s, i, off, n) == {bn \in spanned(off, n) : addr(s, i, bn) = 0}
demand(s, i, off, n) ==
  Cardinality(unmapped(s, i, off, n))
    + (IF s.addrs[i][NDIRECT] = 0 /\ (\E bn \in spanned(off, n) : bn >= NDIRECT) THEN 1 ELSE 0)

writeFits(i, off, n) == off <= fs.size[i] /\ off + n <= MAXFILE * BSIZE

grown(s, i, end) ==
  IF end > s.size[i] THEN logs([s EXCEPT !.size[i] = end], {<<"inode", i>>}) ELSE s
writei(i, off, bytes) ==
  grown(writeBlocks([fs EXCEPT !.tx = {}], i, off, bytes), i, off + Len(bytes))

readable(i, off, n) == IF off + n > fs.size[i] THEN fs.size[i] - off ELSE n

\* itrunc() of an inode that has neither name nor open file.
itruncFirst(s, i) ==
  FoldSet(LAMBDA k, t : IF t.addrs[i][k] = 0 THEN t ELSE [bfree(t, t.addrs[i][k]) EXCEPT !.addrs[i][k] = 0],
          s, 0..(NDIRECT - 1))
\* Mutant: the indirect block itself is not freed.
itruncIndirectLeaks(s, i) ==
  LET x == s.addrs[i][NDIRECT]
      t == FoldSet(LAMBDA k, u : IF s.disk[x][k] = 0 THEN u ELSE bfree(u, s.disk[x][k]),
                   s, 0..(NINDIRECT - 1))
  IN  IF x = 0 THEN s ELSE [t EXCEPT !.addrs[i][NDIRECT] = 0]
itruncIndirect(s, i) ==
  LET x == s.addrs[i][NDIRECT]
      t == FoldSet(LAMBDA k, u : IF s.disk[x][k] = 0 THEN u ELSE bfree(u, s.disk[x][k]),
                   s, 0..(NINDIRECT - 1))
  IN  IF x = 0 THEN s ELSE [bfree(t, x) EXCEPT !.addrs[i][NDIRECT] = 0]
itrunc(i) ==
  logs([itruncIndirect(itruncFirst([fs EXCEPT !.tx = {}], i), i) EXCEPT !.size[i] = 0], {<<"inode", i>>})

-----------------------------------------------------------------------------
(* Open files and descriptors *)

running(p, l) == ~panicked /\ state[p] = l
closed(p) == {d \in Fds : ofile[p][d] = 0}
fdalloc(p, f) == ofile' = [ofile EXCEPT ![p][Min(closed(p))] = f]
unused == {f \in Opens : ftable[f].ref = 0}
opensOf(t, i) == {f \in Opens : t[f].ref > 0 /\ t[f].ip = i}

\* iput() of an inode that t leaves without open files: freed unless it has a
\* name, after which its number is that of a new file.
iput(t, i) ==
  IF opensOf(t, i) = {} /\ ~linked[i]
  THEN fs' = itrunc(i) /\ linked' = [linked EXCEPT ![i] = TRUE]
  ELSE nothingLogged /\ UNCHANGED linked

\* sys_open() of a file that has a name; without a slot or a descriptor it fails.
Open(p, i, m) ==
  /\ running(p, "user") /\ linked[i]
  /\ unused # {} /\ closed(p) # {}
  /\ ftable' = [ftable EXCEPT ![Min(unused)] = [ref |-> 1, ip |-> i, off |-> 0,
                                               readable |-> m.readable, writable |-> m.writable]]
  /\ fdalloc(p, Min(unused))
  /\ got' = <<>> /\ nothingLogged /\ UNCHANGED <<linked, state, towrite, program, panicked>>

dup(p, d) ==
  /\ running(p, "user") /\ ofile[p][d] # 0 /\ closed(p) # {}
  /\ fdalloc(p, ofile[p][d])
  /\ ftable' = [ftable EXCEPT ![ofile[p][d]].ref = @ + 1]
  /\ got' = <<>> /\ nothingLogged /\ UNCHANGED <<linked, state, towrite, program, panicked>>

\* fileclose(): only the last reference lets go of the inode.
fileclose(p, d) ==
  LET f == ofile[p][d]
      t == [ftable EXCEPT ![f] = IF ftable[f].ref > 1 THEN [ftable[f] EXCEPT !.ref = @ - 1] ELSE NoFile]
  IN  /\ f # 0
      /\ ofile' = [ofile EXCEPT ![p][d] = 0]
      /\ ftable' = t
      /\ iput(t, ftable[f].ip)
      /\ got' = <<>> /\ UNCHANGED <<towrite, program, panicked>>
close(p, d) == running(p, "user") /\ fileclose(p, d) /\ UNCHANGED state

Unlink(p, i) ==
  /\ running(p, "user") /\ linked[i]
  /\ IF opensOf(ftable, i) = {} THEN fs' = itrunc(i) /\ UNCHANGED linked
     ELSE linked' = [linked EXCEPT ![i] = FALSE] /\ nothingLogged
  /\ got' = <<>> /\ UNCHANGED <<ftable, ofile, state, towrite, program, panicked>>

\* fork() duplicates every descriptor.
copies(p, f) == Cardinality({d \in Fds : ofile[p][d] = f})
fork(p, q) ==
  /\ running(p, "user") /\ state[q] = "none"
  /\ state' = [state EXCEPT ![q] = "user"]
  /\ ofile' = [ofile EXCEPT ![q] = ofile[p]]
  /\ ftable' = [f \in Opens |-> [ftable[f] EXCEPT !.ref = @ + copies(p, f)]]
  /\ got' = <<>> /\ nothingLogged /\ UNCHANGED <<linked, towrite, program, panicked>>

\* exit() closes them one at a time; some process always stays.
exit(p) ==
  /\ running(p, "user") /\ (\E q \in Procs \ {p} : state[q] = "user")
  /\ state' = [state EXCEPT ![p] = "exit"]
  /\ got' = <<>> /\ nothingLogged /\ UNCHANGED <<linked, ftable, ofile, towrite, program, panicked>>
ExitCloses(p) ==
  /\ running(p, "exit") /\ closed(p) # Fds
  /\ fileclose(p, Min(Fds \ closed(p))) /\ UNCHANGED state
Exited(p) ==
  /\ running(p, "exit") /\ closed(p) = Fds
  /\ state' = [state EXCEPT ![p] = "none"]
  /\ got' = <<>> /\ nothingLogged /\ UNCHANGED <<linked, ftable, ofile, towrite, program, panicked>>

-----------------------------------------------------------------------------
(* read() and write() *)

fileread(p, d, n) ==
  LET f == ofile[p][d]
      i == ftable[f].ip
      off == ftable[f].off
      r == readable(i, off, n)
  IN  /\ running(p, "user") /\ f # 0 /\ ftable[f].readable /\ off <= fs.size[i]
      /\ IF unmapped(fs, i, off, r) # {}   \* bmap() would allocate outside a transaction
         THEN panicked' = TRUE /\ got' = <<>> /\ UNCHANGED ftable
         ELSE /\ got' = readBlocks(i, off, r)
              /\ ftable' = [ftable EXCEPT ![f].off = @ + r]
              /\ UNCHANGED panicked
      /\ nothingLogged /\ UNCHANGED <<linked, ofile, state, towrite, program>>

\* filewrite() starts; the turns of its loop follow.
filewrite(p, d, bytes) ==
  /\ running(p, "user") /\ ofile[p][d] # 0 /\ ftable[ofile[p][d]].writable
  /\ state' = [state EXCEPT ![p] = "write"]
  /\ towrite' = [towrite EXCEPT ![p] = [f |-> ofile[p][d], s |-> bytes]]
  /\ got' = <<>> /\ nothingLogged /\ UNCHANGED <<linked, ftable, ofile, program, panicked>>

\* Mutant: no room is left for the other blocks.
maxWriteAll == MAXOPBLOCKS * BSIZE
maxWrite == ((MAXOPBLOCKS - 1 - 1 - 2) \div 2) * BSIZE
WriteTurn(p) ==
  LET f == towrite[p].f
      s == towrite[p].s
      n1 == Min({Len(s), maxWrite})
      i == ftable[f].ip
      off == ftable[f].off
      rest == SubSeq(s, n1 + 1, Len(s))
      done == ~writeFits(i, off, n1) \/ rest = <<>>
  IN  /\ running(p, "write")
      /\ IF ~writeFits(i, off, n1) THEN nothingLogged /\ UNCHANGED <<ftable, panicked>>
         ELSE IF demand(fs, i, off, n1) > Cardinality(Free(fs))
         THEN panicked' = TRUE /\ nothingLogged /\ UNCHANGED ftable   \* "balloc: out of blocks"
         ELSE /\ fs' = writei(i, off, SubSeq(s, 1, n1))
              /\ ftable' = [ftable EXCEPT ![f].off = @ + n1]
              /\ UNCHANGED panicked
      /\ state' = IF done THEN [state EXCEPT ![p] = "user"] ELSE state
      /\ towrite' = [towrite EXCEPT ![p] = IF done THEN NoWrite ELSE [f |-> f, s |-> rest]]
      /\ got' = <<>> /\ UNCHANGED <<linked, ofile, program>>

Next ==
  \E p \in Procs :
    \/ \E i \in program.files, m \in Modes : Open(p, i, m)
    \/ \E i \in program.files : "unlink" \in program.calls /\ Unlink(p, i)
    \/ \E d \in Fds, n \in program.sizes : fileread(p, d, n)
    \/ \E d \in Fds, s \in program.data : filewrite(p, d, s)
    \/ \E d \in Fds : close(p, d)
    \/ \E d \in Fds : "dup" \in program.calls /\ dup(p, d)
    \/ \E q \in Procs : "fork" \in program.calls /\ fork(p, q)
    \/ exit(p) \/ ExitCloses(p) \/ Exited(p) \/ WriteTurn(p)

Spec == Init /\ [][Next]_vars

-----------------------------------------------------------------------------

\* The blocks that inode i uses, with how often.
Uses(i) ==
  LET x == fs.addrs[i][NDIRECT]
  IN  [k \in 0..(MAXFILE) |->
         IF k = MAXFILE THEN x ELSE addr(fs, i, k)]

\* fs.c:53, 76, 388: a block is marked in the bitmap exactly if it is in use,
\* and it is in one place of one inode.
BitmapExact ==
  /\ fs.bitmap = {Uses(i)[k] : i \in Inodes, k \in 0..MAXFILE} \ {0}
  /\ \A x, y \in Inodes \X (0..MAXFILE) :
       x # y /\ Uses(x[1])[x[2]] # 0 => Uses(x[1])[x[2]] # Uses(y[1])[y[2]]

\* file.c:121, "write a few blocks at a time to avoid exceeding the maximum log
\* transaction size": no turn of filewrite() and no itrunc() writes more blocks.
TransactionFits == Cardinality(fs.tx) <= MAXOPBLOCKS

byte(i, k) == fs.disk[addr(fs, i, k \div BSIZE)][k % BSIZE]
Flat == INSTANCE FlatFiles WITH
  MaxSize <- MAXFILE * BSIZE,
  content <- [i \in Inodes |-> [k \in 1..fs.size[i] |-> byte(i, k - 1)]],
  file <- [f \in Opens |-> ftable[f].ip],
  pos <- [f \in Opens |-> ftable[f].off]

\* fs.c:430, 459: through direct and indirect blocks, shared offsets and several
\* turns per write, files behave as sequences of bytes.
IsFlat == Flat!Spec
=============================================================================
