------------------------------- MODULE Buffers -------------------------------
(***************************************************************************)
(* The buffer cache (bio.c) with its sleep-locks (sleeplock.c) on top of   *)
(* the disk driver (ide.c).                                                *)
(*                                                                         *)
(* A critical section of bcache.lock, of idelock or of the spinlock inside *)
(* a sleep-lock is one step.  The drive works on the head of the queue by  *)
(* itself and then interrupts.  Some blocks are faulty: transferring them  *)
(* may fail.                                                               *)
(***************************************************************************)
EXTENDS Integers, Sequences, FiniteSets, SequencesExt

CONSTANTS
  Procs, None,  \* the processes, and "none" for a process, a buffer, a block
  Bufs,         \* bcache.buf, NBUF of them
  Blocks,       \* block numbers
  Faulty,       \* those whose transfer may fail
  Written,      \* those that programs write to
  Values,       \* contents of a block
  Depth,        \* how many buffers a process may hold at once
  MaxPinned     \* how many blocks the log may keep in the cache

ASSUME BuffersAssumption ==
  /\ None \notin Procs \cup Bufs \cup Blocks
  /\ Blocks \subseteq Nat /\ Faulty \subseteq Blocks /\ Written \subseteq Blocks
  /\ Depth \in Nat /\ MaxPinned \in Nat

VARIABLES
  blockno, flags, refcnt, data,  \* struct buf
  pid,        \* struct sleeplock: the holder of b->lock, None if not locked
  lru,        \* the list from bcache.head, most recently used first
  idequeue,
  disk,       \* what is on the disk
  drive,      \* what the drive does with the head of the queue
  pc,         \* where a process is
  held,       \* the buffers it has from bread(), in the order it got them
  want,       \* the buffer it is acquiring, transferring or dropping
  panicked

cache == <<blockno, flags, refcnt, data, lru>>
driver == <<idequeue, disk, drive>>
vars == <<blockno, flags, refcnt, data, pid, lru, idequeue, disk, drive, pc, held, want,
          panicked>>

PCs == {"caller", "lock", "lockAsleep", "locked", "rw", "rwAsleep", "drop"}

TypeOK ==
  /\ blockno \in [Bufs -> Blocks \cup {None}]
  /\ flags \in [Bufs -> SUBSET {"valid", "dirty"}]
  /\ refcnt \in [Bufs -> 0..Cardinality(Procs)]
  /\ data \in [Bufs -> Values]
  /\ pid \in [Bufs -> Procs \cup {None}]
  /\ Len(lru) = Cardinality(Bufs) /\ ToSet(lru) = Bufs
  /\ ToSet(idequeue) \subseteq Bufs /\ Len(idequeue) <= Cardinality(Bufs)
  /\ disk \in [Blocks -> Values]
  /\ drive \in {"idle", "busy", "done"}
  /\ pc \in [Procs -> PCs]
  /\ \A p \in Procs : ToSet(held[p]) \subseteq Bufs /\ Len(held[p]) <= Depth
  /\ want \in [Procs -> Bufs \cup {None}]
  /\ panicked \in BOOLEAN

\* binit(): zeroed buffers that belong to no block of the disk, in some order.
Init ==
  /\ blockno = [b \in Bufs |-> None]
  /\ flags = [b \in Bufs |-> {}]
  /\ refcnt = [b \in Bufs |-> 0]
  /\ \E v \in Values : data = [b \in Bufs |-> v] /\ disk = [k \in Blocks |-> v]
  /\ pid = [b \in Bufs |-> None]
  /\ lru \in SetToSeqs(Bufs)
  /\ idequeue = <<>> /\ drive = "idle"
  /\ pc = [p \in Procs |-> "caller"]
  /\ held = [p \in Procs |-> <<>>]
  /\ want = [p \in Procs |-> None]
  /\ panicked = FALSE

goto(p, l) == pc' = [pc EXCEPT ![p] = l]

\* wakeup(): those who sleep at l for buffer b go on at m; p itself goes to n.
wakeupAt(p, n, b, l, m) ==
  pc' = [q \in Procs |-> IF q = p THEN n
                         ELSE IF pc[q] = l /\ want[q] = b THEN m ELSE pc[q]]

Pinned == {b \in Bufs : "dirty" \in flags[b] /\ b \notin ToSet(idequeue)}

-----------------------------------------------------------------------------
(* bget: find a buffer, then lock it.                                       *)

\* Callers take a second buffer while they hold one: the indirect block and then
\* a bitmap or data block (bmap, itrunc), a log block and then its home block
\* (write_log, install_trans).  Blocks are numbered in that order.
MayTake(p, k) ==
  /\ pc[p] = "caller" /\ Len(held[p]) < Depth
  /\ \A b \in ToSet(held[p]) : blockno[b] < k

\* Mutant: a buffer the log has pinned counts as unused.
RecyclableDirty(b) == refcnt[b] = 0

Recyclable(b) == refcnt[b] = 0 /\ "dirty" \notin flags[b]

\* Mutant: the user of a cached buffer is not counted.
BgetHitUncounted(p, k) ==
  /\ MayTake(p, k)
  /\ \E b \in Bufs : blockno[b] = k /\ want' = [want EXCEPT ![p] = b]
  /\ goto(p, "lock")
  /\ UNCHANGED <<cache, pid, driver, held, panicked>>

BgetHit(p, k) ==
  /\ MayTake(p, k)
  /\ \E b \in Bufs :
       /\ blockno[b] = k
       /\ refcnt' = [refcnt EXCEPT ![b] = @ + 1]
       /\ want' = [want EXCEPT ![p] = b]
  /\ goto(p, "lock")
  /\ UNCHANGED <<blockno, flags, data, pid, lru, driver, held, panicked>>

\* The least recently used buffer that can be recycled.
Oldest(b) ==
  \E i \in DOMAIN lru :
    lru[i] = b /\ Recyclable(b) /\ \A j \in (i + 1)..Len(lru) : ~Recyclable(lru[j])

BgetRecycle(p, k) ==
  /\ MayTake(p, k)
  /\ \A b \in Bufs : blockno[b] # k
  /\ \E b \in Bufs :
       /\ Oldest(b)
       /\ blockno' = [blockno EXCEPT ![b] = k]
       /\ flags' = [flags EXCEPT ![b] = {}]
       /\ refcnt' = [refcnt EXCEPT ![b] = 1]
       /\ want' = [want EXCEPT ![p] = b]
  /\ goto(p, "lock")
  /\ UNCHANGED <<data, pid, lru, driver, held, panicked>>

\* panic("bget: no buffers")
BgetPanics(p, k) ==
  /\ MayTake(p, k)
  /\ \A b \in Bufs : blockno[b] # k /\ ~Recyclable(b)
  /\ panicked' = TRUE
  /\ UNCHANGED <<cache, pid, driver, pc, held, want>>

\* The buffer p has been after is its own; bread() returns.
Gets(p) ==
  /\ held' = [held EXCEPT ![p] = Append(@, want[p])]
  /\ want' = [want EXCEPT ![p] = None]
  /\ goto(p, "caller")

AcquireWaits(p) ==
  /\ pc[p] = "lock" /\ pid[want[p]] # None
  /\ goto(p, "lockAsleep")
  /\ UNCHANGED <<cache, pid, driver, held, want, panicked>>

\* acquiresleep(&b->lock) with the lock free, and bread()'s look at B_VALID.
acquiresleep(p) ==
  /\ pc[p] = "lock" /\ pid[want[p]] = None
  /\ pid' = [pid EXCEPT ![want[p]] = p]
  /\ IF "valid" \in flags[want[p]] THEN Gets(p) ELSE goto(p, "locked") /\ UNCHANGED <<held, want>>
  /\ UNCHANGED <<cache, driver, panicked>>

-----------------------------------------------------------------------------
(* iderw and ideintr                                                        *)

\* iderw(b) of process p up to its sleep: the request is queued, and the drive
\* is started if it has nothing else to do.
iderw(p, b) ==
  /\ idequeue' = Append(idequeue, b)
  /\ drive' = IF idequeue = <<>> THEN "busy" ELSE drive
  /\ goto(p, "rwAsleep")
  /\ UNCHANGED disk

BreadReads(p) ==
  /\ pc[p] = "locked"
  /\ iderw(p, want[p])
  /\ UNCHANGED <<cache, pid, held, want, panicked>>

\* The end of iderw(), in bread() or in bwrite(): the loop tests the flags again.
IderwReturns(p) ==
  /\ pc[p] = "rw"
  /\ IF flags[want[p]] # {"valid"} THEN goto(p, "rwAsleep") /\ UNCHANGED <<held, want>>
     ELSE IF want[p] \notin ToSet(held[p]) THEN Gets(p)
     ELSE goto(p, "caller") /\ want' = [want EXCEPT ![p] = None] /\ UNCHANGED held
  /\ UNCHANGED <<cache, pid, driver, panicked>>

\* The drive carries out the request; a write takes effect on the disk, unless
\* the block is faulty and it fails.
DriveWorks ==
  LET b == Head(idequeue) IN
  /\ drive = "busy"
  /\ drive' = "done"
  /\ \/ disk' = IF "dirty" \in flags[b] THEN [disk EXCEPT ![blockno[b]] = data[b]] ELSE disk
     \/ blockno[b] \in Faulty /\ UNCHANGED disk
  /\ UNCHANGED <<cache, pid, idequeue, pc, held, want, panicked>>

\* Mutant: the next request is not started.
ideintrStops ==
  LET b == Head(idequeue) IN
  /\ drive = "done"
  /\ idequeue' = Tail(idequeue)
  /\ \/ data' = IF "dirty" \in flags[b] THEN data ELSE [data EXCEPT ![b] = disk[blockno[b]]]
     \/ blockno[b] \in Faulty /\ UNCHANGED data
  /\ flags' = [flags EXCEPT ![b] = {"valid"}]
  /\ wakeupAt(None, "", b, "rwAsleep", "rw")
  /\ drive' = "idle"
  /\ UNCHANGED <<blockno, refcnt, pid, lru, disk, held, want, panicked>>

\* ideintr(): the head of the queue is the request that is done.  After a failed
\* read the buffer keeps its old data and is marked valid all the same.
ideintr ==
  LET b == Head(idequeue) IN
  /\ drive = "done"
  /\ idequeue' = Tail(idequeue)
  /\ \/ data' = IF "dirty" \in flags[b] THEN data ELSE [data EXCEPT ![b] = disk[blockno[b]]]
     \/ blockno[b] \in Faulty /\ UNCHANGED data
  /\ flags' = [flags EXCEPT ![b] = {"valid"}]
  /\ wakeupAt(None, "", b, "rwAsleep", "rw")
  /\ drive' = IF Len(idequeue) > 1 THEN "busy" ELSE "idle"
  /\ UNCHANGED <<blockno, refcnt, pid, lru, disk, held, want, panicked>>

-----------------------------------------------------------------------------
(* What a process does with a buffer it holds.                              *)

\* It changes the data and calls bwrite(), or writes out a buffer the log has
\* pinned (write_log, install_trans).
bwrite(p, b, v) ==
  /\ pc[p] = "caller" /\ b \in ToSet(held[p])
  /\ blockno[b] \in Written \/ v = data[b]
  /\ data' = [data EXCEPT ![b] = v]
  /\ flags' = [flags EXCEPT ![b] = @ \cup {"dirty"}]
  /\ want' = [want EXCEPT ![p] = b]
  /\ iderw(p, b)
  /\ UNCHANGED <<blockno, refcnt, pid, lru, held, panicked>>

\* It changes the data and calls log_write(), which keeps the buffer in the cache
\* by marking it dirty (log.c).  Bound: MaxPinned.
log_write(p, b, v) ==
  /\ pc[p] = "caller" /\ b \in ToSet(held[p]) /\ blockno[b] \in Written
  /\ Cardinality(Pinned \cup {b}) <= MaxPinned
  /\ data' = [data EXCEPT ![b] = v]
  /\ flags' = [flags EXCEPT ![b] = @ \cup {"dirty"}]
  /\ UNCHANGED <<blockno, refcnt, pid, lru, driver, pc, held, want, panicked>>

\* brelse() up to releasesleep(), which wakes those who wait for the lock.
brelse(p, b) ==
  /\ pc[p] = "caller" /\ b \in ToSet(held[p])
  /\ held' = [held EXCEPT ![p] = SelectSeq(@, LAMBDA c : c # b)]
  /\ pid' = [pid EXCEPT ![b] = None]
  /\ want' = [want EXCEPT ![p] = b]
  /\ wakeupAt(p, "drop", b, "lockAsleep", "lock")
  /\ UNCHANGED <<cache, driver, panicked>>

\* The rest of brelse(): a buffer nobody waits for moves to the head of the list.
BrelseDrops(p) ==
  LET b == want[p] IN
  /\ pc[p] = "drop"
  /\ refcnt' = [refcnt EXCEPT ![b] = @ - 1]
  /\ lru' = IF refcnt[b] = 1 THEN <<b>> \o SelectSeq(lru, LAMBDA c : c # b) ELSE lru
  /\ want' = [want EXCEPT ![p] = None]
  /\ goto(p, "caller")
  /\ UNCHANGED <<blockno, flags, data, pid, driver, held, panicked>>

-----------------------------------------------------------------------------

\* The steps of a process inside the buffer code.
Inside(p) ==
  \/ AcquireWaits(p) \/ acquiresleep(p) \/ BreadReads(p) \/ IderwReturns(p) \/ BrelseDrops(p)

Uses(p) ==
  \E b \in Bufs : brelse(p, b) \/ \E v \in Values : bwrite(p, b, v) \/ log_write(p, b, v)

\* panic() never returns.
PanicLoop == panicked /\ UNCHANGED vars

Next ==
  \/ PanicLoop
  \/ /\ ~panicked
     /\ \/ DriveWorks \/ ideintr
        \/ \E p \in Procs :
             \/ Inside(p) \/ Uses(p)
             \/ \E k \in Blocks : BgetHit(p, k) \/ BgetRecycle(p, k) \/ BgetPanics(p, k)

Spec == Init /\ [][Next]_vars

-----------------------------------------------------------------------------

\* The reference count of a buffer is the number of processes that hold it or are
\* on the way to or from its lock: none is recycled under its users, and none
\* stays in use for ever (bget, brelse).
RefsExact ==
  \A b \in Bufs :
    refcnt[b] = Cardinality({p \in Procs : b \in ToSet(held[p]) \/ want[p] = b})

\* No sleeper is forgotten: who sleeps for the lock of a buffer sleeps for one that
\* somebody else holds; who sleeps in iderw() has his buffer, which he has locked,
\* in the queue, once; and the drive rests only if the queue is empty
\* (acquiresleep, releasesleep, iderw, ideintr).
SleepersServed ==
  /\ \A p \in Procs :
       /\ pc[p] = "lockAsleep" => pid[want[p]] \notin {None, p}
       /\ pc[p] = "rwAsleep" => want[p] \in ToSet(idequeue) /\ pid[want[p]] = p
  /\ \A b \in ToSet(idequeue) : pid[b] \in Procs /\ pc[pid[b]] = "rwAsleep" /\ want[pid[b]] = b
  /\ IsInjective(idequeue)
  /\ drive = "idle" <=> idequeue = <<>>

Cached(k) == {b \in Bufs : blockno[b] = k /\ "valid" \in flags[b]}

User(b) == IF pid[b] # None /\ b \in ToSet(held[pid[b]]) THEN pid[b] ELSE None

Store ==
  INSTANCE BlockStore WITH
    Blocks <- Blocks \ Faulty,
    content <- [k \in Blocks \ Faulty |->
                  IF Cached(k) = {} THEN disk[k] ELSE data[CHOOSE b \in Cached(k) : TRUE]],
    user <- [k \in Blocks \ Faulty |->
               IF Cached(k) = {} THEN None ELSE User(CHOOSE b \in Cached(k) : TRUE)]

\* Cache, locks, queue and drive together are a store of blocks: bread() returns
\* what was last written to the block, also when its buffer has been recycled in
\* between, one process at a time has the use of it, and an error on a faulty
\* block does not touch another (the head of bio.c).
IsStore == Store!Spec

=============================================================================
