--------------------------------- MODULE Log ---------------------------------
(***************************************************************************)
(* The write-ahead log of log.c, with crashes.                             *)
(*                                                                         *)
(* Disk addresses are relative to log.start: the header block is kept      *)
(* apart, 1 .. LogSize-1 are the log's data blocks and LogSize .. are the  *)
(* blocks behind the log, which mkfs.c gives to the inodes and the rest of *)
(* the file system.  A step is a critical section of log.lock, a write of  *)
(* one disk block, or the unlocked test at the head of log_write().        *)
(***************************************************************************)
EXTENDS Integers, Sequences, FiniteSets

CONSTANTS
  Procs,        \* the processes that make file-system calls
  LOGSIZE,      \* param.h: what begin_op() reserves from
  LogSize,      \* log.size, from the superblock: header and data blocks
  MAXOPBLOCKS,  \* param.h: what begin_op() reserves for one operation
  OpBlocks,     \* how many different blocks an operation really writes
  NHome,        \* number of blocks behind the log
  Vals          \* contents of a block

Slots == 1..(LogSize - 1)
Blocks == LogSize..(LogSize + NHome - 1)
Addrs == Slots \cup Blocks

ASSUME LogAssumption ==
  /\ LogSize \in Nat /\ LogSize >= 2 /\ NHome \in Nat /\ NHome >= 1
  /\ LOGSIZE \in Nat /\ MAXOPBLOCKS \in Nat /\ MAXOPBLOCKS <= LOGSIZE
  /\ OpBlocks \in Nat /\ OpBlocks <= MAXOPBLOCKS

VARIABLES
  disk, head,          \* on disk: the blocks, and the block numbers in the header
  cache, dirty,        \* the buffer cache: contents, and buffers with B_DIRTY
  lh,                  \* log.lh: the block numbers logged so far
  outstanding, committing,
  tail,                \* the loop variable of write_log() and install_trans()
  pc, arg, mine,       \* per process: where it is, the locked buffer, what it wrote
  boot                 \* "recover", "install", "clear", "up" or "panic"

vars == <<disk, head, cache, dirty, lh, outstanding, committing, tail, pc, arg,
          mine, boot>>

Committing == {"write_log", "commit_head", "install", "clear", "finish"}

TypeOK ==
  /\ disk \in [Addrs -> Vals] /\ cache \in [Addrs -> Vals]
  /\ head \in Seq(Blocks) /\ lh \in Seq(Blocks)
  /\ dirty \subseteq Addrs
  /\ outstanding \in Nat /\ committing \in BOOLEAN
  /\ tail \in Nat
  /\ pc \in [Procs -> {"begin", "asleep", "op", "append"} \cup Committing]
  /\ arg \in [Procs -> Blocks \cup {0}]
  /\ mine \in [Procs -> SUBSET Blocks]
  /\ boot \in {"recover", "install", "clear", "up", "panic"}

\* The machine is switched on with any file system and an empty log.
Init ==
  /\ disk \in {d \in [Addrs -> Vals] : \A s \in Slots : d[s] = CHOOSE v \in Vals : TRUE}
  /\ head = <<>>
  /\ cache = disk
  /\ dirty = {}
  /\ lh = <<>>
  /\ outstanding = 0
  /\ committing = FALSE
  /\ tail = 0
  /\ pc = [p \in Procs |-> "begin"]
  /\ arg = [p \in Procs |-> 0]
  /\ mine = [p \in Procs |-> {}]
  /\ boot = "recover"

-----------------------------------------------------------------------------

\* Entries of a log header as a set.
Logged(h) == {h[i] : i \in DOMAIN h}

\* What bread(b) may return: a buffer without B_DIRTY may have been recycled by
\* bget(), and the block is then read from the disk.
bread(b) == IF b \in dirty THEN {cache[b]} ELSE {cache[b], disk[b]}

\* bwrite(): the block is on disk and ideintr() has cleared B_DIRTY.
bwrite(b, v) ==
  /\ disk' = [disk EXCEPT ![b] = v]
  /\ cache' = [cache EXCEPT ![b] = v]
  /\ dirty' = dirty \ {b}

\* wakeup(&log): the sleepers go round the loop of begin_op() again.
wakeup(f) == [p \in Procs |-> IF f[p] = "asleep" THEN "begin" ELSE f[p]]

\* Mutant: the operation that asks is not counted.
FullWithoutMe == Len(lh) + outstanding * MAXOPBLOCKS > LOGSIZE

Full == Len(lh) + (outstanding + 1) * MAXOPBLOCKS > LOGSIZE

\* One turn of the loop in begin_op().
begin_op(p) ==
  /\ boot = "up" /\ pc[p] = "begin"
  /\ IF committing \/ Full
     THEN /\ pc' = [pc EXCEPT ![p] = "asleep"]
          /\ UNCHANGED outstanding
     ELSE /\ pc' = [pc EXCEPT ![p] = "op"]
          /\ outstanding' = outstanding + 1
  /\ UNCHANGED <<disk, head, cache, dirty, lh, committing, tail, arg, mine, boot>>

TooBig == Len(lh) >= LOGSIZE \/ Len(lh) >= LogSize - 1

\* The operation has b locked and has changed its data; log_write() looks at
\* log.lh.n before it takes log.lock.
LogWriteTest(p, b, v) ==
  /\ boot = "up" /\ pc[p] = "op"
  /\ \A q \in Procs : arg[q] # b
  /\ Cardinality(mine[p] \cup {b}) <= OpBlocks
  /\ cache' = [cache EXCEPT ![b] = v]
  /\ IF TooBig \/ outstanding < 1
     THEN boot' = "panic" /\ UNCHANGED <<pc, arg, mine>>
     ELSE /\ pc' = [pc EXCEPT ![p] = "append"]
          /\ arg' = [arg EXCEPT ![p] = b]
          /\ mine' = [mine EXCEPT ![p] = @ \cup {b}]
          /\ UNCHANGED boot
  /\ UNCHANGED <<disk, head, dirty, lh, outstanding, committing, tail>>

\* Mutant: the buffer is not pinned with B_DIRTY.
LogWriteUnpinned(p) ==
  /\ boot = "up" /\ pc[p] = "append"
  /\ lh' = IF arg[p] \in Logged(lh) THEN lh ELSE Append(lh, arg[p])
  /\ pc' = [pc EXCEPT ![p] = "op"]
  /\ arg' = [arg EXCEPT ![p] = 0]
  /\ UNCHANGED <<disk, head, cache, dirty, outstanding, committing, tail, mine, boot>>

\* The critical section of log_write(): absorb or append, pin the buffer.
log_write(p) ==
  /\ boot = "up" /\ pc[p] = "append"
  /\ lh' = IF arg[p] \in Logged(lh) THEN lh ELSE Append(lh, arg[p])
  /\ dirty' = dirty \cup {arg[p]}
  /\ pc' = [pc EXCEPT ![p] = "op"]
  /\ arg' = [arg EXCEPT ![p] = 0]
  /\ UNCHANGED <<disk, head, cache, outstanding, committing, tail, mine, boot>>

\* The first critical section of end_op() once outstanding is decremented: the
\* last operation goes on to commit(), which does nothing when the transaction
\* is empty; any other one wakes those who wait for log space.
LastOpEnds(p) ==
  /\ outstanding = 1
  /\ committing' = TRUE
  /\ pc' = [pc EXCEPT ![p] = IF lh = <<>> THEN "finish" ELSE "write_log"]
  /\ tail' = 0

\* Mutant: nobody is woken for the space given back.
OpEndsQuietly(p) ==
  /\ outstanding # 1
  /\ pc' = [pc EXCEPT ![p] = "begin"]
  /\ UNCHANGED <<committing, tail>>

OpEnds(p) ==
  /\ outstanding # 1
  /\ pc' = wakeup([pc EXCEPT ![p] = "begin"])
  /\ UNCHANGED <<committing, tail>>

end_op(p) ==
  /\ boot = "up" /\ pc[p] = "op"
  /\ outstanding' = outstanding - 1
  /\ mine' = [mine EXCEPT ![p] = {}]
  /\ IF committing
     THEN boot' = "panic" /\ UNCHANGED <<pc, committing, tail>>
     ELSE (LastOpEnds(p) \/ OpEnds(p)) /\ UNCHANGED boot
  /\ UNCHANGED <<disk, head, cache, dirty, lh, arg>>

-----------------------------------------------------------------------------
(* commit(), one disk write at a time.                                      *)

\* One turn of the loop in write_log(); the last one leads to write_head().
write_log(p) ==
  /\ boot = "up" /\ pc[p] = "write_log"
  /\ \E v \in bread(lh[tail + 1]) : bwrite(tail + 1, v)
  /\ IF tail + 1 < Len(lh)
     THEN tail' = tail + 1 /\ UNCHANGED pc
     ELSE tail' = 0 /\ pc' = [pc EXCEPT ![p] = "commit_head"]
  /\ UNCHANGED <<head, lh, outstanding, committing, arg, mine, boot>>

\* write_head(): the real commit.
CommitHead(p) ==
  /\ boot = "up" /\ pc[p] = "commit_head"
  /\ head' = lh
  /\ pc' = [pc EXCEPT ![p] = "install"]
  /\ UNCHANGED <<disk, cache, dirty, lh, outstanding, committing, tail, arg, mine,
                 boot>>

\* One turn of the loop in install_trans().
InstallBlock == \E v \in bread(tail + 1) : bwrite(lh[tail + 1], v)

InstallStep(p) ==
  /\ boot = "up" /\ pc[p] = "install"
  /\ InstallBlock
  /\ IF tail + 1 < Len(lh)
     THEN tail' = tail + 1 /\ UNCHANGED pc
     ELSE tail' = 0 /\ pc' = [pc EXCEPT ![p] = "clear"]
  /\ UNCHANGED <<head, lh, outstanding, committing, arg, mine, boot>>

\* log.lh.n = 0 and the second write_head().
ClearHead(p) ==
  /\ boot = "up" /\ pc[p] = "clear"
  /\ lh' = <<>>
  /\ head' = <<>>
  /\ pc' = [pc EXCEPT ![p] = "finish"]
  /\ UNCHANGED <<disk, cache, dirty, outstanding, committing, tail, arg, mine, boot>>

\* The second critical section of end_op().
EndCommit(p) ==
  /\ boot = "up" /\ pc[p] = "finish"
  /\ committing' = FALSE
  /\ pc' = wakeup([pc EXCEPT ![p] = "begin"])
  /\ UNCHANGED <<disk, head, cache, dirty, lh, outstanding, tail, arg, mine, boot>>

commit(p) == write_log(p) \/ CommitHead(p) \/ InstallStep(p) \/ ClearHead(p) \/ EndCommit(p)

-----------------------------------------------------------------------------
(* Power failure and recovery.                                              *)

\* A crash at any moment: only the disk survives.
Crash ==
  /\ cache' = disk
  /\ dirty' = {}
  /\ lh' = <<>>
  /\ outstanding' = 0
  /\ committing' = FALSE
  /\ tail' = 0
  /\ pc' = [p \in Procs |-> "begin"]
  /\ arg' = [p \in Procs |-> 0]
  /\ mine' = [p \in Procs |-> {}]
  /\ boot' = "recover"
  /\ UNCHANGED <<disk, head>>

\* initlog() and recover_from_log(): read_head().
read_head ==
  /\ boot = "recover"
  /\ lh' = head
  /\ boot' = IF head = <<>> THEN "clear" ELSE "install"
  /\ UNCHANGED <<disk, head, cache, dirty, outstanding, committing, tail, pc, arg,
                 mine>>

\* install_trans() during recovery.
RecoverInstall ==
  /\ boot = "install"
  /\ InstallBlock
  /\ IF tail + 1 < Len(lh)
     THEN tail' = tail + 1 /\ UNCHANGED boot
     ELSE tail' = 0 /\ boot' = "clear"
  /\ UNCHANGED <<head, lh, outstanding, committing, pc, arg, mine>>

RecoverClear ==
  /\ boot = "clear"
  /\ lh' = <<>>
  /\ head' = <<>>
  /\ boot' = "up"
  /\ UNCHANGED <<disk, cache, dirty, outstanding, committing, tail, pc, arg, mine>>

recover_from_log == read_head \/ RecoverInstall \/ RecoverClear

Next ==
  \/ \E p \in Procs : begin_op(p) \/ log_write(p) \/ end_op(p) \/ commit(p)
  \/ \E p \in Procs, b \in Blocks, v \in Vals : LogWriteTest(p, b, v)
  \/ recover_from_log
  \/ Crash

Spec == Init /\ [][Next]_vars

\* Fairness: a process in the kernel keeps going, a booting kernel too, and an
\* operation makes finitely many calls of log_write().  Nobody is obliged to
\* start an operation or to crash.
FairSpec ==
  /\ Spec
  /\ WF_vars(recover_from_log)
  /\ \A p \in Procs : WF_vars(log_write(p) \/ commit(p)) /\ SF_vars(end_op(p))

-----------------------------------------------------------------------------

\* The blocks a recovery from this disk would produce.
Durable ==
  [b \in Blocks |->
     IF b \in Logged(head)
     THEN disk[CHOOSE i \in DOMAIN head : head[i] = b]
     ELSE disk[b]]

AD == INSTANCE AtomicDisk WITH
        current <- IF boot \in {"up", "panic"} THEN [b \in Blocks |-> cache[b]] ELSE Durable,
        durable <- Durable,
        active <- {p \in Procs : pc[p] \in {"op", "append"}}

\* The log implements atomic group commit: whatever the moment of a crash, the
\* disk holds all the writes of a transaction or none (log.c: "there is never
\* any reasoning required about whether a commit might write an uncommitted
\* system call's updates to disk").
AtomicCommit == AD!Spec

\* The reservation of begin_op() is enough: log_write() never panics, and the
\* log never runs into the blocks behind it.
NoPanic == boot # "panic" /\ Len(lh) <= LogSize - 1

\* A process asleep in begin_op() will be woken: an operation is outstanding or
\* a commit is running (begin_op, end_op).
NoLostWakeup ==
  \A p \in Procs : pc[p] = "asleep" => committing \/ outstanding > 0

\* begin_op() does not sleep for ever.
Admitted == \A p \in Procs : pc[p] = "asleep" ~> pc[p] # "asleep"

=============================================================================
