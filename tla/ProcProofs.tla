----------------------------- MODULE ProcProofs -----------------------------
(***************************************************************************)
(* The safety properties of Proc, for any number of slots and CPUs. IInv   *)
(* is inductive; ProcSteps, ProcFork and ProcWake show it for groups of    *)
(* actions, and the rest is treated here.                                  *)
(***************************************************************************)
EXTENDS ProcFork, ProcWake

USE SlotFacts, NoCpuAssumption DEF initproc, Pointers

-----------------------------------------------------------------------------
(* Every step preserves the invariant.                                      *)

\* The invariant holds when main() enters scheduler().
LEMMA InitInv == Init => IInv
<1> SUFFICES ASSUME Init PROVE IInv
  OBVIOUS
<1>1. TypeOK
  <2>1. idx \in [Cpus -> 1..(NPROC + 1)] BY NPROCAssumption DEF Init
  <2>2. QED BY <2>1 DEF Init, TypeOK, States, PCs, Preemptible, Switched
<1>2. CpuInv BY DEF Init, CpuInv, CpuOK
<1>3. ThreadInv BY Zenon DEF Init, ThreadInv, ThreadOK, Switched, Live
<1>4. ForkInv BY DEF Init, ForkInv, ForkOK, at, InFork
<1>5. SlotInv BY Zenon DEF Init, SlotInv, SlotOK
<1>6. FamilyInv BY DEF Init, FamilyInv, FamilyOK, Live
<1>7. WaitInv BY DEF Init, WaitInv, WaitOK
<1>8. QED BY <1>1, <1>2, <1>3, <1>4, <1>5, <1>6, <1>7 DEF IInv

\* A step of a process on its way out of the kernel.
LEMMA ResumeInv ==
  ASSUME IInv, NEW c \in Cpus, NEW p \in Slots, Resume(c, p)
  PROVE  IInv'
<1>0. pc[p] \notin {"waiting", "slept"} => chan[p] = 0 BY ThreadsOK DEF ThreadOK
<1>c. chan[p] = 0 => chan = [chan EXCEPT ![p] = 0] BY Typed DEF TypeOK
<1>1. CASE forkret(c, p)
  <2>1. at(p) = "forkret" /\ pc[p] = "forkret" BY <1>1 DEF at, forkret
  <2>2. Returns(c, p, "user")
    BY <1>0, <1>c, <1>1, <2>1, Typed
       DEF Returns, forkret, Switched, Preemptible, InFork, TypeOK, table
  <2>3. QED BY <2>2, ReturnsInv
<1>2. CASE YieldReturn(c, p)
  <2>1. at(p) = resume[p] /\ pc[p] = "yielded" BY <1>2 DEF at, YieldReturn
  <2>2. resume[p] \in Preemptible /\ resume' \in [Slots -> Preemptible]
    BY <1>2, Typed DEF YieldReturn, TypeOK, Preemptible
  <2>3. \A q \in Slots \ {p} : resume'[q] = resume[q]
    BY <1>2, Typed DEF YieldReturn, TypeOK
  <2>4. chan' = [chan EXCEPT ![p] = 0]
    BY <1>0, <1>c, <1>2, <2>1 DEF YieldReturn, table
  <2>5. Returns(c, p, resume[p])
    BY Zenon, <1>2, <2>1, <2>2, <2>3, <2>4 DEF Returns, YieldReturn, Switched, table
  <2>6. QED BY <2>5, ReturnsInv
<1>3. CASE SleepReturn(c, p)
  <2>1. at(p) = "slept" /\ pc[p] = "slept" BY <1>3 DEF at, SleepReturn
  <2>2. Returns(c, p, "user")
    BY <1>3, <2>1, Typed DEF Returns, SleepReturn, Switched, Preemptible, InFork, TypeOK
  <2>3. QED BY <2>2, ReturnsInv
<1>4. QED BY <1>1, <1>2, <1>3 DEF Resume

\* A step of wait().
LEMMA WaitStepInv ==
  ASSUME IInv, NEW c \in Cpus, NEW p \in Slots, wait(c, p)
  PROVE  IInv'
<1>1. CASE WaitReap(c, p) BY <1>1, WaitReapInv
<1>a. InWait(c, p) BY DEF wait, WaitReap, WaitFails, WaitSleep
<1>b. /\ Runs(c, p) /\ (pc[p] = "waiting" \/ (pc[p] = "wait" /\ lock = NoCpu))
      /\ at(p) \notin InFork /\ (lock = NoCpu \/ lock = c)
  BY <1>a, Running DEF InWait, at, InFork, Switched
<1>2. CASE WaitFails(c, p)
  <2>1. Returns(c, p, "user")
    BY <1>2, <1>b, Typed DEF Returns, WaitFails, Switched, Preemptible, TypeOK
  <2>2. QED BY <2>1, ReturnsInv
<1>3. CASE WaitSleep(c, p)
  <2>1. Blocks(c, p, "SLEEPING", "waiting", p)
    BY <1>3, <1>b, Typed DEF Blocks, WaitSleep, TypeOK
  <2>2. QED BY <2>1, BlocksInv
<1>4. QED BY <1>1, <1>2, <1>3 DEF wait

\* A step of a process inside a system call.
LEMMA WorkInv ==
  ASSUME IInv, NEW c \in Cpus, NEW p \in Slots, Work(c, p)
  PROVE  IInv'
<1>k. killed \in [Slots -> BOOLEAN] BY Typed DEF TypeOK
<1>1. CASE TrapKilled(c, p)
  <2>1. Moves(c, p, "exit") BY <1>1, <1>k DEF Moves, TrapKilled, Calls, table
  <2>2. QED BY <2>1, MovesInv
<1>2. CASE fork(c, p)
  <2>1. CASE AllocprocFull(c, p)
    <3>1. Moves(c, p, "user") BY <2>1, <1>k DEF Moves, AllocprocFull, Calls, table
    <3>2. QED BY <3>1, MovesInv
  <2>2. QED
    BY <1>2, <2>1, AllocprocInv, AllocKstackInv, AllocKstackFailsInv, ForkCopyInv,
       ForkCopyFailsInv, ForkPublishInv DEF fork
<1>3. CASE ExitInit(c, p)
  <2>1. Moves(c, p, "panic") BY <1>3, <1>k DEF Moves, ExitInit, Calls, table
  <2>2. QED BY <2>1, MovesInv
<1>4. CASE sleep(c, p)
  <2>1. PICK ch \in Chans : chan' = [chan EXCEPT ![p] = ch] BY Zenon, <1>4 DEF sleep
  <2>2. at(p) \notin InFork BY <1>4 DEF sleep, at, InFork
  <2>3. Blocks(c, p, "SLEEPING", "slept", ch)
    BY <1>4, <2>1, <2>2, Typed DEF Blocks, sleep, TypeOK
  <2>4. QED BY <2>3, BlocksInv
<1>5. CASE KillFails(c, p)
  <2>1. Moves(c, p, "user") BY <1>5, <1>k DEF Moves, KillFails, Calls, table
  <2>2. QED BY <2>1, MovesInv
<1>6. QED
  BY <1>1, <1>2, <1>3, <1>4, <1>5, ExitInv, WaitStepInv, KillInv DEF Work

\* A system call, a fault or a timer interrupt in a process.
LEMMA TrapInv ==
  ASSUME IInv, NEW c \in Cpus, NEW p \in Slots,
         syscall(c, p) \/ TrapFault(c, p) \/ yield(c, p)
  PROVE  IInv'
<1>k. killed \in [Slots -> BOOLEAN] BY Typed DEF TypeOK
<1>1. CASE syscall(c, p)
  <2>1. PICK call \in Calls : pc' = [pc EXCEPT ![p] = call] BY Zenon, <1>1 DEF syscall
  <2>2. Moves(c, p, call) BY Zenon, <1>1, <2>1, <1>k DEF Moves, syscall, table
  <2>3. QED BY <2>2, MovesInv
<1>2. CASE TrapFault(c, p)
  <2>1. Moves(c, p, "exit") BY <1>2, <1>k DEF Moves, TrapFault, Calls
  <2>2. QED BY <2>1, MovesInv
<1>3. CASE yield(c, p)
  <2>1. pc[p] \in Preemptible /\ pc[p] \notin {"waiting", "slept", "yielded"}
    BY <1>3 DEF yield, Preemptible, Calls
  <2>2. chan[p] = 0 BY <2>1, ThreadsOK DEF ThreadOK
  <2>3. chan' = [chan EXCEPT ![p] = 0] BY <1>3, <2>2, Typed DEF yield, TypeOK
  <2>4. resume'[p] = pc[p] /\ resume' \in [Slots -> Preemptible] /\ pc'[p] = "yielded"
    BY <1>3, Typed DEF yield, sched, TypeOK
  <2>5. \A q \in Slots \ {p} : resume'[q] = resume[q] BY <1>3, Typed DEF yield, TypeOK
  <2>6. at(p)' = at(p) BY <2>1, <2>4 DEF at
  <2>7. Blocks(c, p, "RUNNABLE", "yielded", 0)
    BY ZenonT(30), <1>3, <2>3, <2>4, <2>5, <2>6 DEF Blocks, yield
  <2>8. QED BY <2>7, BlocksInv
<1>4. QED BY <1>1, <1>2, <1>3

\* No step, and no step of the rest of the system, breaks the invariant.
LEMMA NextInv == IInv /\ [Next]_vars => IInv'
<1> SUFFICES ASSUME IInv, [Next]_vars PROVE IInv'
  OBVIOUS
<1>1. CASE UNCHANGED vars
  <2>1. TypeOK' BY <1>1, Typed DEF vars, TypeOK
  <2>2. CpuInv' BY <1>1, Parts DEF vars, CpuInv, CpuOK
  <2>3. ThreadInv' BY <1>1, Parts DEF vars, ThreadInv, ThreadOK, Runs
  <2>4. ForkInv' /\ SlotInv' /\ FamilyInv' /\ WaitInv'
    BY <1>1, TableFrame DEF vars, table
  <2>5. QED BY <2>1, <2>2, <2>3, <2>4 DEF IInv
<1>2. ASSUME NEW c \in Cpus, scheduler(c) PROVE IInv'
  BY <1>2, SchedAcquireInv, SchedSwitchInv, SchedBackInv, SchedReleaseInv DEF scheduler
<1>3. ASSUME NEW c \in Cpus, NEW p \in Slots,
             \/ Resume(c, p) \/ Work(c, p)
             \/ syscall(c, p) \/ TrapFault(c, p) \/ yield(c, p) \/ PanicLoop(c, p)
      PROVE IInv'
  <2>1. CASE PanicLoop(c, p) BY <2>1, <1>1 DEF PanicLoop
  <2>2. QED BY <1>3, <2>1, ResumeInv, WorkInv, TrapInv
<1>4. ASSUME NEW ch \in Chans, wakeup(ch) PROVE IInv'
  BY <1>4, WakeupInv
<1>5. QED BY <1>1, <1>2, <1>3, <1>4 DEF Next

-----------------------------------------------------------------------------
(* The theorems.                                                            *)

\* IInv holds in every reachable state of the process table.
THEOREM Invariance == Spec => []IInv
  BY InitInv, NextInv, PTL DEF Spec

\* Every field of the process table keeps its type.
THEOREM TypeCorrect == Spec => []TypeOK
<1>1. IInv => TypeOK BY DEF IInv
<1>2. QED BY <1>1, Invariance, PTL

\* For any number of CPUs and slots, a process is never on two CPUs and is
\* RUNNING exactly when it is on one (scheduler, sched).
THEOREM RunsOnceHolds == Spec => []RunsOnce
<1>1. IInv => RunsOnce
  <2> SUFFICES ASSUME IInv PROVE RunsOnce OBVIOUS
  <2>1. \A c, d \in Cpus : cproc[c] = cproc[d] /\ c # d => cproc[c] = 0
    BY Parts DEF CpuInv
  <2>2. ASSUME NEW p \in Slots PROVE state[p] = "RUNNING" <=> \E c \in Cpus : Runs(c, p)
    BY Running, ThreadsOK DEF ThreadOK
  <2>3. QED BY <2>1, <2>2 DEF RunsOnce
<1>2. QED BY <1>1, Invariance, PTL

\* The stack and page table a CPU executes on are never freed under it (exit,
\* wait, scheduler).
THEOREM StackLiveHolds == Spec => []StackLive
<1>1. IInv => StackLive
  <2> SUFFICES ASSUME IInv, NEW c \in Cpus, cproc[c] # 0
               PROVE  kstack[cproc[c]] /\ pgdir[cproc[c]] = "live"
    BY DEF StackLive
  <2>1. cproc[c] \in Slots /\ CpuOK(c) BY CpusOK
  <2>2. spc[c] \in {"run", "back"} BY <2>1, Typed DEF CpuOK, TypeOK
  <2>3. state[cproc[c]] \in Live \cup {"ZOMBIE"} BY <2>1, <2>2 DEF CpuOK, Live
  <2>4. QED BY <2>1, <2>3, ThreadsOK DEF ThreadOK
<1>2. QED BY <1>1, Invariance, PTL

\* Every process but init always has a living parent (exit, fork).
THEOREM ParentAliveHolds == Spec => []ParentAlive
<1>1. IInv => ParentAlive BY Parts DEF ParentAlive, FamilyOK
<1>2. QED BY <1>1, Invariance, PTL

\* wait() misses no exit, no inherited zombie and no kill (wait, exit, kill).
THEOREM NoMissedEventHolds == Spec => []NoMissedEvent
<1>1. IInv => NoMissedEvent
  <2> SUFFICES ASSUME IInv, NEW p \in Slots, state[p] = "SLEEPING", chan[p] = p
               PROVE  Kids(p) # {} /\ ZombieKids(p) = {} /\ ~killed[p]
    BY DEF NoMissedEvent
  <2>1. pc[p] = "waiting" BY ThreadsOK, ChansAssumption DEF ThreadOK
  <2>2. WaitOK(p) BY Parts
  <2>3. QED BY <2>1, <2>2 DEF WaitOK, Kids, ZombieKids
<1>2. QED BY <1>1, Invariance, PTL

\* A free slot owns nothing and a slot being set up has one owner, although
\* fork() and allocproc() write it without ptable.lock.
THEOREM SlotOwnedHolds == Spec => []SlotOwned
<1>1. IInv => SlotOwned
  <2> SUFFICES ASSUME IInv, NEW q \in Slots
               PROVE  /\ state[q] = "UNUSED" => ~kstack[q] /\ pgdir[q] # "live" /\ parent[q] = 0
                      /\ state[q] = "EMBRYO" <=> \E p \in Slots : np[p] = q
                      /\ \A p, r \in Slots :
                           np[p] = q /\ np[r] = q => p = r /\ state[p] \in Live
    BY DEF SlotOwned
  <2>1. SlotOK(q) /\ ForkInv BY Parts
  <2>2. \A p \in Slots : np[p] = q => state[q] = "EMBRYO" /\ state[p] \in Live
    BY ForksOK DEF ForkOK, Live
  <2>3. QED BY <2>1, <2>2 DEF SlotOK, ForkInv
<1>2. QED BY <1>1, Invariance, PTL

=============================================================================
