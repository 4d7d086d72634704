----------------------------- MODULE ProcSteps ------------------------------
(***************************************************************************)
(* Proofs about Proc, first part: what each part of the invariant IInv     *)
(* depends on, and that IInv is kept by the steps of three common kinds (a *)
(* step inside a system call moves one program counter, a thread that has  *)
(* been switched to gives ptable.lock back, a thread that blocks takes it  *)
(* into the scheduler) and by the scheduler.                               *)
(***************************************************************************)
EXTENDS Proc, TLAPS

\* The table has a first slot, and the null pointer is not a slot.
LEMMA SlotFacts == 1 \in Slots /\ 0 \notin Slots
  BY NPROCAssumption DEF Slots

USE SlotFacts, NoCpuAssumption DEF initproc, Pointers

\* The parts of the invariant, slot by slot and CPU by CPU.
LEMMA Parts ==
  ASSUME IInv
  PROVE  /\ TypeOK /\ CpuInv /\ ThreadInv /\ ForkInv /\ SlotInv /\ FamilyInv /\ WaitInv
         /\ \A q \in Slots : ThreadOK(q) /\ ForkOK(q) /\ SlotOK(q) /\ FamilyOK(q) /\ WaitOK(q)
         /\ \A e \in Cpus : CpuOK(e) /\ (cproc[e] # 0 => cproc[e] \in Slots)
         /\ \A q \in Slots : (np[q] # 0 => np[q] \in Slots) /\ (parent[q] # 0 => parent[q] \in Slots)
<1>1. TypeOK BY DEF IInv
<1>2. \A e \in Cpus : cproc[e] # 0 => cproc[e] \in Slots BY <1>1 DEF TypeOK
<1>3. \A q \in Slots : (np[q] # 0 => np[q] \in Slots) /\ (parent[q] # 0 => parent[q] \in Slots)
  BY <1>1 DEF TypeOK
<1>4. QED BY <1>2, <1>3 DEF IInv, CpuInv, ThreadInv, ForkInv, SlotInv, FamilyInv, WaitInv

\* Parts again, one at a time: the provers are given no more than they need.
LEMMA Typed == ASSUME IInv PROVE TypeOK
  BY DEF IInv

\* Every CPU's scheduler is in order, and c->proc is null or a slot.
LEMMA CpusOK ==
  ASSUME IInv
  PROVE  \A e \in Cpus : CpuOK(e) /\ (cproc[e] # 0 => cproc[e] \in Slots)
  BY Parts

\* Every thread is in order.
LEMMA ThreadsOK == ASSUME IInv PROVE \A q \in Slots : ThreadOK(q)
  BY Parts

\* Every call of fork() is in order, and np is null or a slot.
LEMMA ForksOK ==
  ASSUME IInv
  PROVE  \A q \in Slots : ForkOK(q) /\ (np[q] # 0 => np[q] \in Slots)
  BY Parts

\* Facts about a process that has a CPU, used for every step it takes.
LEMMA Running ==
  ASSUME IInv, NEW c \in Cpus, NEW p \in Slots, Runs(c, p)
  PROVE  /\ state[p] = "RUNNING" /\ kstack[p] /\ pgdir[p] = "live"
         /\ spc[c] = "run" /\ cproc[c] = p
         /\ lock = c <=> pc[p] \in Switched
         /\ \A e \in Cpus \ {c} : cproc[e] # p
         /\ pc[p] \notin {"none", "zombie"}
         /\ \A r \in Slots : np[r] # p
<1>1. CpuOK(c) /\ ThreadOK(p) /\ TypeOK
  BY DEF IInv, CpuInv, ThreadInv
<1>2. state[p] = "RUNNING" /\ spc[c] = "run" /\ cproc[c] = p
  BY <1>1 DEF Runs, CpuOK
<1>3. kstack[p] /\ pgdir[p] = "live" /\ pc[p] \notin {"none", "zombie"}
  BY <1>1, <1>2 DEF ThreadOK, Live
<1>4. lock = c <=> pc[p] \in Switched
  BY <1>1, <1>2 DEF CpuOK
<1>5. \A e \in Cpus \ {c} : cproc[e] # p
  BY <1>2 DEF IInv, CpuInv
<1>6. \A r \in Slots : np[r] # p
  BY <1>2 DEF IInv, ForkInv, ForkOK
<1>7. QED BY <1>2, <1>3, <1>4, <1>5, <1>6

-----------------------------------------------------------------------------
(* What each part of the invariant depends on.                              *)

\* A CPU is in order as long as its own loop, its process and its hold on the
\* lock stay as they are.
LEMMA CpuFrame ==
  ASSUME TypeOK, NEW e \in Cpus, CpuOK(e),
         spc'[e] = spc[e], cproc'[e] = cproc[e], idx'[e] = idx[e],
         lock' = e <=> lock = e,
         cproc[e] # 0 => state'[cproc[e]] = state[cproc[e]],
         cproc[e] # 0 => (pc'[cproc[e]] \in Switched <=> pc[cproc[e]] \in Switched)
  PROVE  CpuOK(e)'
  BY DEF CpuOK

\* A thread is in order as long as its own fields stay as they are.
LEMMA ThreadFrame ==
  ASSUME NEW q \in Slots, ThreadOK(q),
         state'[q] = state[q], pc'[q] = pc[q], chan'[q] = chan[q],
         kstack'[q] = kstack[q], pgdir'[q] = pgdir[q],
         state[q] = "RUNNING" => \E c \in Cpus : Runs(c, q)'
  PROVE  ThreadOK(q)'
  BY DEF ThreadOK

\* fork() by r is in order as long as r and its new slot stay as they are.
LEMMA ForkFrame ==
  ASSUME TypeOK, NEW r \in Slots, ForkOK(r),
         np'[r] = np[r], at(r)' = at(r),
         np[r] # 0 => state'[r] \in {"RUNNABLE", "RUNNING"},
         np[r] # 0 => /\ state'[np[r]] = state[np[r]] /\ kstack'[np[r]] = kstack[np[r]]
                      /\ pgdir'[np[r]] = pgdir[np[r]] /\ parent'[np[r]] = parent[np[r]]
                      /\ pc'[np[r]] = pc[np[r]]
  PROVE  ForkOK(r)'
<1>1. CASE np[r] = 0
  BY <1>1 DEF ForkOK, InFork
<1>2. CASE np[r] # 0
  BY <1>2 DEF ForkOK
<1>3. QED BY <1>1, <1>2

\* A slot owns what it owned if nobody touches its fields or leaves fork().
LEMMA SlotFrame ==
  ASSUME NEW q \in Slots, SlotOK(q),
         state'[q] = state[q], kstack'[q] = kstack[q], pgdir'[q] = pgdir[q],
         parent'[q] = parent[q],
         \A p \in Slots : np[p] = q => np'[p] = q
  PROVE  SlotOK(q)'
  BY DEF SlotOK

-----------------------------------------------------------------------------
(* Steps that move one program counter and hold no lock.                    *)

\* Process p, outside fork() and without ptable.lock, goes on at x; it may be
\* marked killed on the way.
Moves(c, p, x) ==
  /\ Runs(c, p)
  /\ pc[p] \in Calls \cup {"user"}
  /\ x \in Calls \cup {"user", "panic"}
  /\ pc' = [pc EXCEPT ![p] = x]
  /\ killed' \in [Slots -> BOOLEAN] /\ \A q \in Slots \ {p} : killed'[q] = killed[q]
  /\ UNCHANGED <<state, pid, parent, chan, kstack, pgdir, nextpid, resume, np, cpu>>

\* Such a step preserves the invariant (syscall entry and exit, traps, kill and
\* fork that fail, the panic of init).
LEMMA MovesInv ==
  ASSUME IInv, NEW c \in Cpus, NEW p \in Slots, NEW x, Moves(c, p, x)
  PROVE  IInv'
<1>. USE DEF Moves, cpu
<1>r. /\ state[p] = "RUNNING" /\ cproc[c] = p /\ \A e \in Cpus \ {c} : cproc[e] # p
      /\ \A r \in Slots : np[r] # p
  BY Running
<1>p. /\ pc'[p] = x /\ x \notin Switched /\ pc[p] \notin Switched
      /\ x \notin InFork /\ pc[p] \notin InFork /\ pc[p] # "yielded" /\ x # "yielded"
      /\ x \notin {"none", "zombie", "waiting", "slept"} /\ pc[p] \notin {"waiting", "slept"}
  BY Typed DEF TypeOK, Calls, Switched, InFork
<1>q. \A q \in Slots \ {p} : pc'[q] = pc[q]
  BY Typed DEF TypeOK
<1>1. TypeOK'
  BY Typed DEF TypeOK, PCs, Preemptible, Calls
<1>2. CpuInv'
  <2>1. ASSUME NEW e \in Cpus PROVE CpuOK(e)'
    <3>1. CASE e = c BY <3>1, Parts, <1>r, <1>p, CpuFrame
    <3>2. CASE e # c
      <4>1. cproc[e] # 0 => cproc[e] \in Slots \ {p}
        BY <3>2, Parts, <1>r
      <4>2. QED BY <4>1, Parts, <1>q, CpuFrame
    <3>3. QED BY <3>1, <3>2
  <2>2. QED BY <2>1, Parts DEF CpuInv
<1>3. ThreadInv'
  <2>1. ASSUME NEW q \in Slots, q # p PROVE ThreadOK(q)'
    <3>1. state[q] = "RUNNING" => \E d \in Cpus : Runs(d, q)'
      BY ThreadsOK DEF ThreadOK, Runs
    <3>2. QED BY <2>1, <3>1, Parts, <1>q, ThreadFrame
  <2>2. ThreadOK(p)'
    BY ThreadsOK, <1>r, <1>p DEF ThreadOK, Runs, Live
  <2>3. QED BY <2>1, <2>2 DEF ThreadInv
<1>4. ForkInv'
  <2>1. ASSUME NEW q \in Slots, q # p PROVE ForkOK(q)'
    <3>1. at(q)' = at(q) BY <2>1, <1>q DEF at
    <3>2. np[q] # 0 => np[q] \in Slots \ {p} BY Parts, <1>r
    <3>3. np[q] # 0 => state'[q] \in {"RUNNABLE", "RUNNING"} BY ForksOK DEF ForkOK
    <3>4. QED BY <2>1, <3>1, <3>2, <3>3, Parts, <1>q, ForkFrame
  <2>2. ForkOK(p)'
    <3>1. at(p) = pc[p] /\ at(p)' = x BY <1>p DEF at
    <3>2. np[p] = 0 BY <3>1, ForksOK, <1>p DEF ForkOK
    <3>3. QED BY <3>1, <3>2, <1>p DEF ForkOK, InFork
  <2>3. QED BY <2>1, <2>2, Parts DEF ForkInv
<1>5. SlotInv'
  BY Parts, SlotFrame DEF SlotInv
<1>6. FamilyInv'
  BY Parts DEF FamilyInv, FamilyOK
<1>7. WaitInv'
  <2>1. ASSUME NEW q \in Slots PROVE WaitOK(q)'
    <3>1. CASE q = p BY <3>1, <1>r DEF WaitOK
    <3>2. CASE q # p BY <3>2, Parts, <1>q DEF WaitOK
    <3>3. QED BY <3>1, <3>2
  <2>2. QED BY <2>1 DEF WaitInv
<1>8. QED BY <1>1, <1>2, <1>3, <1>4, <1>5, <1>6, <1>7 DEF IInv

-----------------------------------------------------------------------------
(* Threads that have been switched to give ptable.lock back.                *)

\* Process p, which owns ptable.lock or has taken it for wait()'s scan,
\* releases it and goes on at x, with no sleep channel.
Returns(c, p, x) ==
  /\ Runs(c, p)
  /\ pc[p] \in Switched \/ (pc[p] = "wait" /\ lock = NoCpu)
  /\ x \in Preemptible
  /\ x = at(p) \/ (x = "user" /\ at(p) \notin InFork)
  /\ pc' = [pc EXCEPT ![p] = x]
  /\ chan' = [chan EXCEPT ![p] = 0]
  /\ lock' = NoCpu
  /\ resume' \in [Slots -> Preemptible] /\ \A q \in Slots \ {p} : resume'[q] = resume[q]
  /\ UNCHANGED <<state, pid, parent, killed, kstack, pgdir, nextpid, np, cproc, spc, idx>>

\* Such a step preserves the invariant (forkret, yield, sleep and wait on their
\* way out).
LEMMA ReturnsInv ==
  ASSUME IInv, NEW c \in Cpus, NEW p \in Slots, NEW x, Returns(c, p, x)
  PROVE  IInv'
<1>. USE DEF Returns
<1>r. /\ state[p] = "RUNNING" /\ kstack[p] /\ pgdir[p] = "live"
      /\ spc[c] = "run" /\ cproc[c] = p
      /\ \A e \in Cpus \ {c} : cproc[e] # p
      /\ \A r \in Slots : np[r] # p
  BY Running
<1>l. lock = c \/ lock = NoCpu
  BY Running
<1>p. /\ pc'[p] = x /\ x \notin Switched /\ x # "yielded" /\ chan'[p] = 0
      /\ x \notin {"none", "zombie", "waiting", "slept"}
  BY Typed DEF TypeOK, Preemptible, Calls, Switched
<1>q. \A q \in Slots \ {p} : pc'[q] = pc[q] /\ chan'[q] = chan[q]
  BY Typed DEF TypeOK
<1>1. TypeOK'
  <2>1. chan' \in [Slots -> Chans \cup Pointers] BY Typed DEF TypeOK
  <2>2. QED BY <2>1, Typed DEF TypeOK, PCs
<1>2. CpuInv'
  <2>1. ASSUME NEW e \in Cpus PROVE CpuOK(e)'
    <3>1. CASE e = c BY <3>1, CpusOK, <1>r, <1>p DEF CpuOK
    <3>2. CASE e # c
      <4>1. cproc[e] # 0 => cproc[e] \in Slots \ {p}
        BY <3>2, Parts, <1>r
      <4>2. lock' = e <=> lock = e
        BY <3>2, <1>l
      <4>3. QED BY <4>1, <4>2, Parts, <1>q, CpuFrame
    <3>3. QED BY <3>1, <3>2
  <2>2. QED BY <2>1, Parts DEF CpuInv
<1>3. ThreadInv'
  <2>1. ASSUME NEW q \in Slots, q # p PROVE ThreadOK(q)'
    <3>1. state[q] = "RUNNING" => \E d \in Cpus : Runs(d, q)'
      BY ThreadsOK DEF ThreadOK, Runs
    <3>2. QED BY <2>1, <3>1, Parts, <1>q, ThreadFrame
  <2>2. ThreadOK(p)'
    BY <1>r, <1>p DEF ThreadOK, Runs, Live
  <2>3. QED BY <2>1, <2>2 DEF ThreadInv
<1>4. ForkInv'
  <2>1. ASSUME NEW q \in Slots, q # p PROVE ForkOK(q)'
    <3>1. at(q)' = at(q) BY <2>1, <1>q DEF at
    <3>2. np[q] # 0 => np[q] \in Slots \ {p} BY Parts, <1>r
    <3>3. np[q] # 0 => state'[q] \in {"RUNNABLE", "RUNNING"} BY ForksOK DEF ForkOK
    <3>4. QED BY <2>1, <3>1, <3>2, <3>3, Parts, <1>q, ForkFrame
  <2>2. ForkOK(p)'
    <3>1. at(p)' = x BY <1>p DEF at
    <3>2. CASE x = at(p)
      <4>1. np[p] # 0 => np[p] \in Slots \ {p} BY Parts, <1>r
      <4>2. QED BY <3>1, <3>2, <4>1, Parts, <1>q, <1>r, ForkFrame
    <3>3. CASE x = "user" /\ at(p) \notin InFork
      <4>1. np[p] = 0 BY <3>3, ForksOK DEF ForkOK
      <4>2. QED BY <3>1, <3>3, <4>1 DEF ForkOK, InFork
    <3>4. QED BY <3>2, <3>3
  <2>3. QED BY <2>1, <2>2, Parts DEF ForkInv
<1>5. SlotInv'
  BY Parts, SlotFrame DEF SlotInv
<1>6. FamilyInv'
  BY Parts DEF FamilyInv, FamilyOK
<1>7. WaitInv'
  <2>1. ASSUME NEW q \in Slots PROVE WaitOK(q)'
    <3>1. CASE q = p BY <3>1, <1>r DEF WaitOK
    <3>2. CASE q # p BY <3>2, Parts, <1>q DEF WaitOK
    <3>3. QED BY <3>1, <3>2
  <2>2. QED BY <2>1 DEF WaitInv
<1>8. QED BY <1>1, <1>2, <1>3, <1>4, <1>5, <1>6, <1>7 DEF IInv

-----------------------------------------------------------------------------
(* Threads that block take ptable.lock into the scheduler.                  *)

\* yield(), sleep() on a device channel, and sleep() in wait().
Blocks(c, p, st, x, ch) ==
  /\ Runs(c, p)
  /\ lock = NoCpu \/ lock = c
  /\ \/ st = "RUNNABLE" /\ x = "yielded" /\ ch = 0 /\ at(p)' = at(p)
     \/ st = "SLEEPING" /\ x = "slept" /\ ch \in Chans /\ at(p) \notin InFork
     \/ st = "SLEEPING" /\ x = "waiting" /\ ch = p /\ at(p) \notin InFork
        /\ ~killed[p] /\ Kids(p) # {} /\ ZombieKids(p) = {}
  /\ state' = [state EXCEPT ![p] = st]
  /\ chan' = [chan EXCEPT ![p] = ch]
  /\ resume' \in [Slots -> Preemptible] /\ \A q \in Slots \ {p} : resume'[q] = resume[q]
  /\ sched(c, p, x)
  /\ UNCHANGED <<pid, parent, killed, kstack, pgdir, nextpid, np>>

\* Such a step preserves the invariant: sched() keeps the lock until the
\* scheduler has the CPU back.
LEMMA BlocksInv ==
  ASSUME IInv, NEW c \in Cpus, NEW p \in Slots, NEW st, NEW x, NEW ch,
         Blocks(c, p, st, x, ch)
  PROVE  IInv'
<1>. USE DEF Blocks, sched
<1>r. /\ state[p] = "RUNNING" /\ kstack[p] /\ pgdir[p] = "live"
      /\ spc[c] = "run" /\ cproc[c] = p
      /\ \A e \in Cpus \ {c} : cproc[e] # p
      /\ \A r \in Slots : np[r] # p
  BY Running
<1>p. /\ pc'[p] = x /\ x \in {"yielded", "slept", "waiting"} /\ chan'[p] = ch
      /\ state'[p] = st /\ st \in {"RUNNABLE", "SLEEPING"} /\ spc'[c] = "back"
  BY Typed DEF TypeOK
<1>q. /\ \A q \in Slots \ {p} : pc'[q] = pc[q] /\ chan'[q] = chan[q] /\ state'[q] = state[q]
      /\ \A e \in Cpus \ {c} : spc'[e] = spc[e]
  BY Typed DEF TypeOK
<1>1. TypeOK'
  <2>1. chan' \in [Slots -> Chans \cup Pointers] BY Typed DEF TypeOK
  <2>2. pc' \in [Slots -> PCs] BY Typed, <1>p DEF TypeOK, PCs, Switched
  <2>3. state' \in [Slots -> States] BY Typed, <1>p DEF TypeOK, States
  <2>4. QED BY <2>1, <2>2, <2>3, Typed DEF TypeOK
<1>2. CpuInv'
  <2>1. ASSUME NEW e \in Cpus PROVE CpuOK(e)'
    <3>1. CASE e = c BY SMTT(30), <3>1, CpusOK, <1>r, <1>p DEF CpuOK
    <3>2. CASE e # c
      <4>1. cproc[e] # 0 => cproc[e] \in Slots \ {p}
        BY <3>2, Parts, <1>r
      <4>2. lock' = e <=> lock = e
        BY <3>2
      <4>3. QED BY <3>2, <4>1, <4>2, Parts, <1>q, CpuFrame
    <3>3. QED BY <3>1, <3>2
  <2>2. QED BY <2>1, Parts DEF CpuInv
<1>3. ThreadInv'
  <2>1. ASSUME NEW q \in Slots, q # p PROVE ThreadOK(q)'
    <3>1. state[q] = "RUNNING" => \E d \in Cpus : Runs(d, q)'
      BY <2>1, ThreadsOK, <1>q, <1>r DEF ThreadOK, Runs
    <3>2. QED BY SMTT(30), <2>1, <3>1, Parts, <1>q, ThreadFrame
  <2>2. ThreadOK(p)'
    BY <1>r, <1>p DEF ThreadOK, Live, Switched
  <2>3. QED BY <2>1, <2>2 DEF ThreadInv
<1>4. ForkInv'
  <2>1. ASSUME NEW q \in Slots, q # p PROVE ForkOK(q)'
    <3>1. at(q)' = at(q) BY <2>1, <1>q DEF at
    <3>2. np[q] # 0 => np[q] \in Slots \ {p} BY Parts, <1>r
    <3>3. np[q] # 0 => state'[q] \in {"RUNNABLE", "RUNNING"} BY <2>1, <1>q, ForksOK DEF ForkOK
    <3>4. QED BY <2>1, <3>1, <3>2, <3>3, Parts, <1>q, ForkFrame
  <2>2. ForkOK(p)'
    <3>1. CASE x = "yielded"
      <4>1. np[p] # 0 => np[p] \in Slots \ {p} BY Parts, <1>r
      <4>2. QED BY <3>1, <4>1, Parts, <1>q, <1>p, ForkFrame
    <3>2. CASE x # "yielded"
      <4>1. np[p] = 0 BY <3>2, ForksOK DEF ForkOK
      <4>2. at(p)' = x BY <3>2, <1>p DEF at
      <4>3. QED BY <3>2, <4>1, <4>2, <1>p DEF ForkOK, InFork
    <3>3. QED BY <3>1, <3>2
  <2>3. QED BY <2>1, <2>2, Parts DEF ForkInv
<1>5. SlotInv'
  <2>1. ASSUME NEW q \in Slots PROVE SlotOK(q)'
    <3>1. CASE q = p BY <3>1, <1>p DEF SlotOK
    <3>2. CASE q # p BY <3>2, <1>q, Parts, SlotFrame
    <3>3. QED BY <3>1, <3>2
  <2>2. QED BY <2>1 DEF SlotInv
<1>6. FamilyInv'
  <2>1. \A q \in Slots : state[q] \in Live => state'[q] \in Live
    BY <1>p, <1>q DEF Live
  <2>2. ASSUME NEW q \in Slots PROVE FamilyOK(q)'
    <3>1. state'[q] \in Live \cup {"ZOMBIE"} => state[q] \in Live \cup {"ZOMBIE"}
      BY <1>p, <1>q, <1>r DEF Live
    <3>2. QED BY <2>1, <3>1, Parts DEF FamilyOK
  <2>3. QED BY <2>1, <2>2, Parts DEF FamilyInv
<1>7. WaitInv'
  <2>1. ASSUME NEW q \in Slots PROVE WaitOK(q)'
    <3>1. CASE q = p
      BY <3>1, <1>p, <1>q DEF WaitOK, Kids, ZombieKids
    <3>2. CASE q # p BY <3>2, Parts, <1>q, <1>p DEF WaitOK
    <3>3. QED BY <3>1, <3>2
  <2>2. QED BY <2>1 DEF WaitInv
<1>8. QED BY <1>1, <1>2, <1>3, <1>4, <1>5, <1>6, <1>7 DEF IInv

-----------------------------------------------------------------------------
(* The scheduler's own steps.                                               *)

\* Steps of the scheduler that leave the table alone keep what the invariant
\* says of the table.
LEMMA TableFrame ==
  ASSUME IInv, UNCHANGED <<table, pc, resume, np>>
  PROVE  ForkInv' /\ SlotInv' /\ FamilyInv' /\ WaitInv'
<1>. USE DEF table
<1>1. ForkInv /\ SlotInv /\ FamilyInv /\ WaitInv BY DEF IInv
<1>2. ForkInv' BY <1>1 DEF ForkInv, ForkOK, at
<1>3. SlotInv' BY <1>1 DEF SlotInv, SlotOK
<1>4. FamilyInv' BY <1>1 DEF FamilyInv, FamilyOK
<1>5. WaitInv' BY <1>1 DEF WaitInv, WaitOK
<1>6. QED BY <1>2, <1>3, <1>4, <1>5

\* scheduler() taking ptable.lock preserves the invariant.
LEMMA SchedAcquireInv ==
  ASSUME IInv, NEW c \in Cpus, SchedAcquire(c)
  PROVE  IInv'
<1>. USE DEF SchedAcquire, table
<1>1. TypeOK' BY Typed DEF TypeOK
<1>2. CpuInv'
  <2>1. ASSUME NEW e \in Cpus PROVE CpuOK(e)'
    <3>1. CASE e = c BY SMTT(30), <3>1, Typed, CpusOK DEF CpuOK, TypeOK
    <3>2. CASE e # c
      <4>1. spc'[e] = spc[e] /\ (lock' = e <=> lock = e) BY <3>2, Typed DEF TypeOK
      <4>2. QED BY Zenon, <4>1, Parts, CpuFrame
    <3>3. QED BY <3>1, <3>2
  <2>2. QED BY <2>1, Parts DEF CpuInv
<1>3. ThreadInv'
  <2>1. ASSUME NEW q \in Slots PROVE ThreadOK(q)'
    <3>1. state[q] = "RUNNING" => \E d \in Cpus : Runs(d, q)'
      BY Typed, ThreadsOK DEF ThreadOK, Runs, TypeOK
    <3>2. QED BY <3>1, Parts, ThreadFrame
  <2>2. QED BY <2>1 DEF ThreadInv
<1>4. QED BY <1>1, <1>2, <1>3, TableFrame DEF IInv

\* scheduler() releasing ptable.lock after its loop preserves the invariant.
LEMMA SchedReleaseInv ==
  ASSUME IInv, NEW c \in Cpus, SchedRelease(c)
  PROVE  IInv'
<1>. USE DEF SchedRelease, table
<1>1. TypeOK'
  <2>1. 1 \in 1..(NPROC + 1) BY NPROCAssumption
  <2>2. idx' \in [Cpus -> 1..(NPROC + 1)] BY <2>1, Typed DEF TypeOK
  <2>3. QED BY <2>2, Typed DEF TypeOK
<1>c. lock = c /\ cproc[c] = 0 BY SMTT(30), CpusOK DEF CpuOK
<1>2. CpuInv'
  <2>1. ASSUME NEW e \in Cpus PROVE CpuOK(e)'
    <3>1. CASE e = c BY SMTT(30), <3>1, Typed, CpusOK, <1>c DEF CpuOK, TypeOK
    <3>2. CASE e # c
      <4>1. spc'[e] = spc[e] /\ idx'[e] = idx[e] /\ (lock' = e <=> lock = e)
        BY <3>2, Typed, <1>c DEF TypeOK
      <4>2. QED BY Zenon, <4>1, Parts, CpuFrame
    <3>3. QED BY <3>1, <3>2
  <2>2. QED BY <2>1, Parts DEF CpuInv
<1>3. ThreadInv'
  <2>1. ASSUME NEW q \in Slots PROVE ThreadOK(q)'
    <3>1. state[q] = "RUNNING" => \E d \in Cpus : Runs(d, q)'
      BY Typed, ThreadsOK DEF ThreadOK, Runs, TypeOK
    <3>2. QED BY Zenon, <3>1, Parts, ThreadFrame
  <2>2. QED BY SMTT(30), <2>1 DEF ThreadInv
<1>4. QED BY <1>1, <1>2, <1>3, TableFrame DEF IInv

\* scheduler() getting its CPU back from a process preserves the invariant.
LEMMA SchedBackInv ==
  ASSUME IInv, NEW c \in Cpus, SchedBack(c)
  PROVE  IInv'
<1>. USE DEF SchedBack, table
<1>c. lock = c /\ cproc[c] # 0 /\ idx[c] = cproc[c] BY CpusOK DEF CpuOK
<1>1. TypeOK'
  <2>1. idx[c] + 1 \in 1..(NPROC + 1) BY CpusOK, <1>c, NPROCAssumption DEF Slots
  <2>2. idx' \in [Cpus -> 1..(NPROC + 1)] BY <2>1, Typed DEF TypeOK
  <2>3. cproc' \in [Cpus -> Pointers] BY Typed DEF TypeOK
  <2>4. QED BY <2>2, <2>3, Typed DEF TypeOK
<1>p. /\ cproc'[c] = 0 /\ spc'[c] = "scan"
      /\ \A e \in Cpus \ {c} : spc'[e] = spc[e] /\ idx'[e] = idx[e] /\ cproc'[e] = cproc[e]
  BY Typed DEF TypeOK
<1>2. CpuInv'
  <2>1. ASSUME NEW e \in Cpus PROVE CpuOK(e)'
    <3>1. CASE e = c BY <3>1, <1>p, <1>c DEF CpuOK
    <3>2. CASE e # c BY <3>2, <1>p, Parts, CpuFrame
    <3>3. QED BY <3>1, <3>2
  <2>2. QED BY <2>1, Parts, <1>p DEF CpuInv
<1>3. ThreadInv'
  <2>1. ASSUME NEW q \in Slots PROVE ThreadOK(q)'
    <3>1. state[q] = "RUNNING" => \E d \in Cpus : Runs(d, q)'
      BY ThreadsOK, <1>p DEF ThreadOK, Runs
    <3>2. QED BY <3>1, Parts, ThreadFrame
  <2>2. QED BY <2>1 DEF ThreadInv
<1>4. QED BY <1>1, <1>2, <1>3, TableFrame DEF IInv

\* scheduler() switching to a RUNNABLE process preserves the invariant.
LEMMA SchedSwitchInv ==
  ASSUME IInv, NEW c \in Cpus, SchedSwitch(c)
  PROVE  IInv'
<1>1. PICK p \in Slots :
        /\ state[p] = "RUNNABLE"
        /\ cproc' = [cproc EXCEPT ![c] = p]
        /\ state' = [state EXCEPT ![p] = "RUNNING"]
        /\ idx' = [idx EXCEPT ![c] = p]
  BY Zenon DEF SchedSwitch, IsFirst, NextRunnable
<1>2. /\ spc[c] = "scan" /\ spc' = [spc EXCEPT ![c] = "run"]
      /\ UNCHANGED <<pid, parent, chan, killed, kstack, pgdir, nextpid, pc, resume, np, lock>>
  BY DEF SchedSwitch
<1>c. lock = c /\ cproc[c] = 0 BY CpusOK, <1>2 DEF CpuOK
<1>p. /\ cproc'[c] = p /\ spc'[c] = "run" /\ idx'[c] = p /\ state'[p] = "RUNNING"
      /\ \A e \in Cpus \ {c} : spc'[e] = spc[e] /\ idx'[e] = idx[e] /\ cproc'[e] = cproc[e]
      /\ \A q \in Slots \ {p} : state'[q] = state[q]
  BY Typed, <1>1, <1>2 DEF TypeOK
<1>s. pc[p] \in Switched /\ pc[p] \notin {"none", "zombie"} /\ kstack[p] /\ pgdir[p] = "live"
  BY ThreadsOK, <1>1 DEF ThreadOK, Live, Switched
<1>e. \A e \in Cpus \ {c} : cproc[e] # p
  <2>1. ASSUME NEW e \in Cpus \ {c}, cproc[e] = p PROVE FALSE
    <3>0. spc[e] \notin {"acquire", "scan"} BY <2>1, CpusOK DEF CpuOK
    <3>1. spc[e] \in {"run", "back"} BY <3>0, <2>1, Typed DEF TypeOK
    <3>2. spc[e] # "run" BY <2>1, CpusOK, <1>1 DEF CpuOK
    <3>3. spc[e] # "back" BY <2>1, CpusOK, <1>c DEF CpuOK
    <3>4. QED BY <3>1, <3>2, <3>3
  <2>2. QED BY <2>1
<1>3. TypeOK'
  <2>1. p \in Pointers /\ p \in 1..(NPROC + 1) BY NPROCAssumption DEF Slots
  <2>2. cproc' \in [Cpus -> Pointers] /\ idx' \in [Cpus -> 1..(NPROC + 1)]
    BY <2>1, Typed, <1>1 DEF TypeOK
  <2>3. state' \in [Slots -> States] BY Typed, <1>1 DEF TypeOK, States
  <2>4. QED BY <2>2, <2>3, Typed, <1>2 DEF TypeOK
<1>4. CpuInv'
  <2>1. ASSUME NEW e \in Cpus PROVE CpuOK(e)'
    <3>1. CASE e = c BY SMTT(30), <3>1, <1>p, <1>c, <1>s, <1>2 DEF CpuOK
    <3>2. CASE e # c
      <4>1. cproc[e] # 0 => cproc[e] \in Slots \ {p} BY <3>2, Parts, <1>e
      <4>2. QED BY Zenon, <3>2, <4>1, <1>p, Parts, <1>2, CpuFrame
    <3>3. QED BY <3>1, <3>2
  <2>2. QED BY <2>1, Parts, <1>p, <1>e DEF CpuInv
<1>5. ThreadInv'
  <2>1. ASSUME NEW q \in Slots, q # p PROVE ThreadOK(q)'
    <3>1. state[q] = "RUNNING" => \E d \in Cpus : Runs(d, q)'
      BY ThreadsOK, <1>p, <1>c DEF ThreadOK, Runs
    <3>2. QED BY <2>1, <3>1, Parts, <1>p, <1>2, ThreadFrame
  <2>2. ThreadOK(p)'
    <3>1. ThreadOK(p) BY Parts
    <3>2. QED BY <3>1, <1>p, <1>s, <1>2, <1>1 DEF ThreadOK, Runs, Live
  <2>3. QED BY <2>1, <2>2 DEF ThreadInv
<1>6. ForkInv'
  <2>1. ASSUME NEW q \in Slots PROVE ForkOK(q)'
    <3>1. at(q)' = at(q) BY <1>2 DEF at
    <3>2. np[q] # 0 => np[q] \in Slots \ {p} BY ForksOK, <1>1 DEF ForkOK
    <3>3. np[q] # 0 => state'[q] \in {"RUNNABLE", "RUNNING"} BY ForksOK, <1>p DEF ForkOK
    <3>4. QED BY <3>1, <3>2, <3>3, Parts, <1>p, <1>2, ForkFrame
  <2>2. QED BY SMTT(30), <2>1, Parts, <1>2 DEF ForkInv
<1>7. SlotInv'
  <2>1. ASSUME NEW q \in Slots PROVE SlotOK(q)'
    <3>1. CASE q = p BY <3>1, <1>p DEF SlotOK
    <3>2. CASE q # p BY SMTT(30), <3>2, <1>p, Parts, <1>2, SlotFrame
    <3>3. QED BY <3>1, <3>2
  <2>2. QED BY <2>1 DEF SlotInv
<1>8. FamilyInv'
  <2>1. \A q \in Slots : state'[q] \in Live <=> state[q] \in Live
    BY <1>p, <1>1 DEF Live
  <2>2. \A q \in Slots : state'[q] = "ZOMBIE" <=> state[q] = "ZOMBIE"
    BY <1>p, <1>1
  <2>3. ASSUME NEW q \in Slots PROVE FamilyOK(q)'
    BY <2>1, <2>2, Parts, <1>2 DEF FamilyOK
  <2>4. QED BY <2>1, <2>3, Parts, <1>2 DEF FamilyInv
<1>9. WaitInv'
  <2>1. ASSUME NEW q \in Slots PROVE WaitOK(q)'
    <3>1. CASE q = p BY <3>1, <1>p DEF WaitOK
    <3>2. CASE q # p BY <3>2, Parts, <1>p, <1>2 DEF WaitOK
    <3>3. QED BY <3>1, <3>2
  <2>2. QED BY <2>1 DEF WaitInv
<1>10. QED BY <1>3, <1>4, <1>5, <1>6, <1>7, <1>8, <1>9 DEF IInv

=============================================================================
