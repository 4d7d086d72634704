-------------------------------- MODULE Pipe --------------------------------
(***************************************************************************)
(* A pipe (pipe.c) and the two open files that lead to it (file.c), used,  *)
(* passed on by fork and closed by several processes.                      *)
(*                                                                         *)
(* A turn of a loop is a step, taken with p->lock held.  sleep() gives the *)
(* lock up and wakeup() finds every sleeper, both under ptable.lock; kill()*)
(* takes only ptable.lock, so it can come between two steps of a call.     *)
(***************************************************************************)
EXTENDS Integers, Sequences, FiniteSets

CONSTANTS
  Procs, None,  \* the processes, and "no process"
  PIPESIZE,     \* 512
  Wrap,         \* nread and nwrite count modulo this: 2^32
  MaxN,         \* bound on the length of a read or a write
  Bytes         \* the values of a byte

ASSUME PipeAssumption ==
  /\ PIPESIZE \in Nat \ {0} /\ Wrap \in Nat /\ MaxN \in Nat
  /\ Wrap % PIPESIZE = 0 /\ Wrap > PIPESIZE
  /\ None \notin Procs

VARIABLES
  data, nread, nwrite, readopen, writeopen,  \* struct pipe
  freed,        \* it has been given back with kfree()
  lock,         \* the process that holds p->lock
  readers, writers,  \* who has the read end and the write end open
  pc, n,        \* per process: control, and bytes still to be copied
  killed,
  abandoned     \* a killed writer has left bytes behind without a wakeup

pipe == <<data, nread, nwrite, readopen, writeopen, freed>>
vars == <<data, nread, nwrite, readopen, writeopen, freed, lock, readers, writers,
          pc, n, killed, abandoned>>

Asleep == {"writeAsleep", "readAsleep"}
Spinning == {"writeLock", "readLock", "closeRead", "closeWrite"}
Locked == {"write", "writeSleep", "read", "readSleep", "copy"}

TypeOK ==
  /\ data \in [0..(PIPESIZE - 1) -> Bytes]
  /\ nread \in 0..(Wrap - 1) /\ nwrite \in 0..(Wrap - 1)
  /\ {readopen, writeopen} \subseteq {0, 1} /\ freed \in BOOLEAN
  /\ lock \in Procs \cup {None}
  /\ readers \subseteq Procs /\ writers \subseteq Procs
  /\ pc \in [Procs -> {"user"} \cup Asleep \cup Spinning \cup Locked]
  /\ n \in [Procs -> 0..MaxN]
  /\ killed \in [Procs -> BOOLEAN] /\ abandoned \in BOOLEAN
  /\ \A p \in Procs : lock = p <=> pc[p] \in Locked

\* After sys_pipe(): its caller has both ends.
Init ==
  /\ data \in {[k \in 0..(PIPESIZE - 1) |-> v] : v \in Bytes}
  /\ nread = 0 /\ nwrite = 0
  /\ readopen = 1 /\ writeopen = 1
  /\ freed = FALSE
  /\ lock = None
  /\ \E p \in Procs : readers = {p} /\ writers = {p}
  /\ pc = [p \in Procs |-> "user"]
  /\ n = [p \in Procs |-> 0]
  /\ killed = [p \in Procs |-> FALSE]
  /\ abandoned = FALSE

Full == nwrite = (nread + PIPESIZE) % Wrap
Empty == nread = nwrite

-----------------------------------------------------------------------------
(* Control.                                                                 *)

\* p goes on at l, and the processes in pc S are woken to spin for the lock.
goto(p, l, S) ==
  pc' = [q \in Procs |->
           IF q = p THEN l
           ELSE IF pc[q] \in S
           THEN IF pc[q] = "readAsleep" THEN "readLock" ELSE "writeLock"
           ELSE pc[q]]

\* p leaves the kernel; what it had left to copy is forgotten.
return(p, S) ==
  /\ goto(p, "user", S)
  /\ n' = [n EXCEPT ![p] = 0]
  /\ lock' = None

\* acquire(&p->lock), at the head of a call or at the end of sleep().
acquire(p) ==
  /\ lock = None
  /\ pc[p] \in {"writeLock", "readLock"}
  /\ lock' = p
  /\ goto(p, IF pc[p] = "writeLock" THEN "write" ELSE "read", {})
  /\ UNCHANGED <<pipe, readers, writers, n, killed, abandoned>>

\* sleep(chan, &p->lock)
sleep(p) ==
  /\ pc[p] \in {"writeSleep", "readSleep"}
  /\ goto(p, IF pc[p] = "writeSleep" THEN "writeAsleep" ELSE "readAsleep", {})
  /\ lock' = None
  /\ UNCHANGED <<pipe, readers, writers, n, killed, abandoned>>

-----------------------------------------------------------------------------
(* pipewrite                                                                *)

pipewrite(p, k) ==
  /\ pc[p] = "user" /\ p \in writers /\ ~killed[p]
  /\ goto(p, "writeLock", {})
  /\ n' = [n EXCEPT ![p] = k]
  /\ UNCHANGED <<pipe, lock, readers, writers, killed, abandoned>>

\* Mutant: an off-by-one in the test for a full pipe.
WriteByteOver(p) ==
  /\ pc[p] = "write" /\ n[p] > 0 /\ nwrite # (nread + PIPESIZE + 1) % Wrap
  /\ \E v \in Bytes : data' = [data EXCEPT ![nwrite % PIPESIZE] = v]
  /\ nwrite' = (nwrite + 1) % Wrap
  /\ n' = [n EXCEPT ![p] = @ - 1]
  /\ UNCHANGED <<nread, readopen, writeopen, freed, lock, readers, writers, pc,
                 killed, abandoned>>

WriteByte(p) ==
  /\ pc[p] = "write" /\ n[p] > 0 /\ ~Full
  /\ \E v \in Bytes : data' = [data EXCEPT ![nwrite % PIPESIZE] = v]
  /\ nwrite' = (nwrite + 1) % Wrap
  /\ n' = [n EXCEPT ![p] = @ - 1]
  /\ UNCHANGED <<nread, readopen, writeopen, freed, lock, readers, writers, pc,
                 killed, abandoned>>

\* The pipe is full and nobody will empty it, or the writer has been killed:
\* it returns, and no wakeup(&p->nread) follows what it wrote before.
WriteFails(p) ==
  /\ pc[p] = "write" /\ n[p] > 0 /\ Full
  /\ readopen = 0 \/ killed[p]
  /\ return(p, {})
  /\ abandoned' = (abandoned \/ \E q \in Procs : pc[q] = "readAsleep")
  /\ UNCHANGED <<pipe, readers, writers, killed>>

WriteWaits(p) ==
  /\ pc[p] = "write" /\ n[p] > 0 /\ Full
  /\ readopen = 1 /\ ~killed[p]
  /\ goto(p, "writeSleep", {"readAsleep"})
  /\ UNCHANGED <<pipe, lock, readers, writers, n, killed, abandoned>>

WriteDone(p) ==
  /\ pc[p] = "write" /\ n[p] = 0
  /\ return(p, {"readAsleep"})
  /\ UNCHANGED <<pipe, readers, writers, killed, abandoned>>

-----------------------------------------------------------------------------
(* piperead                                                                 *)

piperead(p, k) ==
  /\ pc[p] = "user" /\ p \in readers /\ ~killed[p]
  /\ goto(p, "readLock", {})
  /\ n' = [n EXCEPT ![p] = k]
  /\ UNCHANGED <<pipe, lock, readers, writers, killed, abandoned>>

ReadFails(p) ==
  /\ pc[p] = "read" /\ Empty /\ writeopen = 1
  /\ killed[p]
  /\ return(p, {})
  /\ UNCHANGED <<pipe, readers, writers, killed, abandoned>>

ReadWaits(p) ==
  /\ pc[p] = "read" /\ Empty /\ writeopen = 1
  /\ ~killed[p]
  /\ goto(p, "readSleep", {})
  /\ UNCHANGED <<pipe, lock, readers, writers, n, killed, abandoned>>

ReadStarts(p) ==
  /\ pc[p] = "read" /\ ~(Empty /\ writeopen = 1)
  /\ goto(p, "copy", {})
  /\ UNCHANGED <<pipe, lock, readers, writers, n, killed, abandoned>>

ReadByte(p) ==
  /\ pc[p] = "copy" /\ n[p] > 0 /\ ~Empty
  /\ nread' = (nread + 1) % Wrap
  /\ n' = [n EXCEPT ![p] = @ - 1]
  /\ UNCHANGED <<data, nwrite, readopen, writeopen, freed, lock, readers, writers,
                 pc, killed, abandoned>>

\* Mutant: the writers are not woken.
ReadDoneQuietly(p) ==
  /\ pc[p] = "copy" /\ (n[p] = 0 \/ Empty)
  /\ return(p, {})
  /\ UNCHANGED <<pipe, readers, writers, killed, abandoned>>

ReadDone(p) ==
  /\ pc[p] = "copy" /\ (n[p] = 0 \/ Empty)
  /\ return(p, {"writeAsleep"})
  /\ UNCHANGED <<pipe, readers, writers, killed, abandoned>>

-----------------------------------------------------------------------------
(* The open files.                                                          *)

\* fork() calls filedup() for every open file of the parent; a process that has
\* neither end stands for one that does not exist yet.
filedup(p, q) ==
  /\ pc[p] = "user" /\ ~killed[p] /\ p \in readers \cup writers
  /\ pc[q] = "user" /\ q \notin readers \cup writers
  /\ readers' = IF p \in readers THEN readers \cup {q} ELSE readers
  /\ writers' = IF p \in writers THEN writers \cup {q} ELSE writers
  /\ killed' = [killed EXCEPT ![q] = FALSE]
  /\ UNCHANGED <<pipe, lock, pc, n, abandoned>>

\* fileclose() of the read end and of the write end, by close() or by exit():
\* the last one to go closes the pipe's end.
CloseReader(p) ==
  /\ pc[p] = "user" /\ p \in readers
  /\ readers' = readers \ {p}
  /\ goto(p, IF readers = {p} THEN "closeRead" ELSE "user", {})
  /\ UNCHANGED <<pipe, lock, writers, n, killed, abandoned>>

CloseWriter(p) ==
  /\ pc[p] = "user" /\ p \in writers
  /\ writers' = writers \ {p}
  /\ goto(p, IF writers = {p} THEN "closeWrite" ELSE "user", {})
  /\ UNCHANGED <<pipe, lock, readers, n, killed, abandoned>>

\* Mutant: the readers are not told that the last writer has gone.
pipecloseQuiet(p) ==
  /\ lock = None
  /\ \/ /\ pc[p] = "closeWrite"
        /\ writeopen' = 0 /\ UNCHANGED readopen
        /\ goto(p, "user", {})
     \/ /\ pc[p] = "closeRead"
        /\ readopen' = 0 /\ UNCHANGED writeopen
        /\ goto(p, "user", {"writeAsleep"})
  /\ freed' = (readopen' = 0 /\ writeopen' = 0)
  /\ UNCHANGED <<data, nread, nwrite, lock, readers, writers, n, killed, abandoned>>

\* Mutant: the pipe is freed with the first of its ends.
pipecloseEager(p) ==
  /\ lock = None
  /\ \/ /\ pc[p] = "closeWrite"
        /\ writeopen' = 0 /\ UNCHANGED readopen
        /\ goto(p, "user", {"readAsleep"})
     \/ /\ pc[p] = "closeRead"
        /\ readopen' = 0 /\ UNCHANGED writeopen
        /\ goto(p, "user", {"writeAsleep"})
  /\ freed' = (readopen' = 0 \/ writeopen' = 0)
  /\ UNCHANGED <<data, nread, nwrite, lock, readers, writers, n, killed, abandoned>>

pipeclose(p) ==
  /\ lock = None
  /\ \/ /\ pc[p] = "closeWrite"
        /\ writeopen' = 0 /\ UNCHANGED readopen
        /\ goto(p, "user", {"readAsleep"})
     \/ /\ pc[p] = "closeRead"
        /\ readopen' = 0 /\ UNCHANGED writeopen
        /\ goto(p, "user", {"writeAsleep"})
  /\ freed' = (readopen' = 0 /\ writeopen' = 0)
  /\ UNCHANGED <<data, nread, nwrite, lock, readers, writers, n, killed, abandoned>>

\* kill() from outside: the flag is set, and a sleeper is woken.
kill(p) ==
  /\ ~killed[p] /\ p \in readers \cup writers
  /\ killed' = [killed EXCEPT ![p] = TRUE]
  /\ goto(p, CASE pc[p] = "readAsleep" -> "readLock"
               [] pc[p] = "writeAsleep" -> "writeLock"
               [] OTHER -> pc[p], {})
  /\ UNCHANGED <<pipe, lock, readers, writers, n, abandoned>>

-----------------------------------------------------------------------------

\* The steps a call takes once it has the lock.
Goes(p) ==
  \/ sleep(p)
  \/ WriteByte(p) \/ WriteFails(p) \/ WriteWaits(p) \/ WriteDone(p)
  \/ ReadFails(p) \/ ReadWaits(p) \/ ReadStarts(p) \/ ReadByte(p) \/ ReadDone(p)

Next ==
  \E p \in Procs :
    \/ acquire(p) \/ Goes(p) \/ pipeclose(p)
    \/ \E k \in 1..MaxN : pipewrite(p, k) \/ piperead(p, k)
    \/ \E q \in Procs \ {p} : filedup(p, q)
    \/ CloseReader(p) \/ CloseWriter(p) \/ kill(p)

Spec == Init /\ [][Next]_vars

\* A process in the kernel keeps running, and the spinlock does not pass one
\* process over for ever.  Nothing is assumed of what programs call.
FairSpec ==
  Spec /\ \A p \in Procs : WF_vars(Goes(p)) /\ SF_vars(acquire(p)) /\ SF_vars(pipeclose(p))

-----------------------------------------------------------------------------

\* The bytes that have been written and not yet read, oldest first.
Contents == [k \in 1..((nwrite - nread) % Wrap) |-> data[(nread + k - 1) % PIPESIZE]]

F == INSTANCE Fifo WITH Capacity <- PIPESIZE, queue <- Contents

\* The pipe is a bounded queue: bytes come out in the order they went in, none
\* is lost, duplicated or overwritten, also when the counters wrap around.
IsFifo == F!Spec

\* Nobody is in the pipe's code, or may get there, once it has been freed, and
\* it is freed when both ends are closed (pipeclose, fileclose).
FreedLast ==
  /\ freed <=> readopen = 0 /\ writeopen = 0
  /\ freed => \A p \in Procs : pc[p] = "user" /\ p \notin readers \cup writers

\* No wakeup is lost: with the lock free, a reader sleeps only while the pipe
\* is empty and has a writer, and a writer only while it is full and has a
\* reader.  Readers a killed writer has left asleep are exempt (pipewrite).
SleepsForAReason ==
  lock = None =>
    \A p \in Procs :
      /\ pc[p] = "readAsleep" => abandoned \/ (Empty /\ writeopen = 1)
      /\ pc[p] = "writeAsleep" => Full /\ readopen = 1

\* A reader waits only on an empty pipe (pipe.c: "DOC: pipe-empty").
ReaderWaitsOnEmpty ==
  lock = None => \A p \in Procs : pc[p] = "readAsleep" => Empty

\* A reader waiting for bytes learns that the last writer has gone, and a
\* waiting writer that the last reader has (pipeclose, piperead, pipewrite).
EndIsNoticed ==
  \A p \in Procs :
    /\ (pc[p] = "readAsleep" /\ writers = {}) ~> (pc[p] = "user")
    /\ (pc[p] = "writeAsleep" /\ readers = {}) ~> (pc[p] = "user")

=============================================================================
