-------------------------------- MODULE Proc --------------------------------
(***************************************************************************)
(* The process table of proc.c: allocation, fork, exit, wait, kill,        *)
(* sleep/wakeup and the per-CPU scheduler, with ptable.lock and its        *)
(* hand-over across swtch().                                               *)
(*                                                                         *)
(* A step is a stretch of kernel code between two points where another CPU *)
(* or an interrupt can get in: a critical section of ptable.lock is one    *)
(* step unless the lock is carried through swtch(), and code that touches  *)
(* the table without the lock is a step of its own.  System calls run with *)
(* interrupts enabled (trap.c sets up T_SYSCALL as a trap gate), so a      *)
(* process can be preempted wherever it holds no spinlock.                 *)
(***************************************************************************)
EXTENDS Integers

CONSTANTS
  NPROC,      \* slots of the table; slot numbers stand for struct proc pointers
  Cpus,       \* the processors
  NoCpu,      \* "ptable.lock is free"
  Chans,      \* sleep channels other than struct proc pointers
  KillPids,   \* the pids passed to kill()
  InitCalls,  \* the system calls the program run by initproc makes
  MaxPid      \* bound: no fork once nextpid passes it

Slots == 1..NPROC
Pointers == Slots \cup {0}   \* struct proc pointers, 0 for the null pointer
initproc == 1

Calls == {"fork", "exit", "wait", "sleep", "kill"}

ASSUME NPROCAssumption == NPROC \in Nat /\ NPROC >= 1
ASSUME NoCpuAssumption == NoCpu \notin Cpus
ASSUME ChansAssumption == Chans \cap Pointers = {}
ASSUME CallsAssumption == InitCalls \subseteq Calls
ASSUME MaxPidAssumption == MaxPid \in Nat /\ KillPids \subseteq Nat

VARIABLES
  state, pid, parent, chan, killed, kstack, pgdir,  \* fields of struct proc
  pc,       \* where the kernel thread of each process is
  resume,   \* where a preempted thread goes on after yield()
  np,       \* fork's local variable np, 0 outside fork
  nextpid,
  lock,     \* the CPU that holds ptable.lock, or NoCpu
  cproc,    \* c->proc, 0 for none
  spc,      \* where the scheduler loop of each CPU is
  idx       \* the scheduler's loop variable p

vars == <<state, pid, parent, chan, killed, kstack, pgdir, pc, resume, np,
          nextpid, lock, cproc, spc, idx>>

States == {"UNUSED", "EMBRYO", "SLEEPING", "RUNNABLE", "RUNNING", "ZOMBIE"}

\* Points where a thread holds no spinlock and a timer interrupt can yield().
Preemptible == Calls \cup {"user", "fork_kstack", "fork_copy", "fork_publish"}

\* Points a thread is at when the scheduler has just switched to it, or may
\* switch to it: it then owns ptable.lock and has to release it.
Switched == {"forkret", "yielded", "slept", "waiting"}

PCs == Preemptible \cup Switched \cup {"none", "zombie", "panic"}

TypeOK ==
  /\ state \in [Slots -> States]
  /\ pid \in [Slots -> Nat]
  /\ parent \in [Slots -> Pointers]
  /\ chan \in [Slots -> Chans \cup Pointers]
  /\ killed \in [Slots -> BOOLEAN]
  /\ kstack \in [Slots -> BOOLEAN]
  /\ pgdir \in [Slots -> {"null", "live", "freed"}]
  /\ pc \in [Slots -> PCs]
  /\ resume \in [Slots -> Preemptible]
  /\ np \in [Slots -> Pointers]
  /\ nextpid \in Nat
  /\ lock \in Cpus \cup {NoCpu}
  /\ cproc \in [Cpus -> Pointers]
  /\ spc \in [Cpus -> {"acquire", "scan", "run", "back"}]
  /\ idx \in [Cpus -> 1..(NPROC + 1)]

\* main() has run pinit() and userinit(): the first slot holds initproc, ready
\* to start at forkret, and every CPU is about to enter scheduler().
Init ==
  /\ state = [p \in Slots |-> IF p = initproc THEN "RUNNABLE" ELSE "UNUSED"]
  /\ pid = [p \in Slots |-> IF p = initproc THEN 1 ELSE 0]
  /\ parent = [p \in Slots |-> 0]
  /\ chan = [p \in Slots |-> 0]
  /\ killed = [p \in Slots |-> FALSE]
  /\ kstack = [p \in Slots |-> p = initproc]
  /\ pgdir = [p \in Slots |-> IF p = initproc THEN "live" ELSE "null"]
  /\ pc = [p \in Slots |-> IF p = initproc THEN "forkret" ELSE "none"]
  /\ resume = [p \in Slots |-> "user"]
  /\ np = [p \in Slots |-> 0]
  /\ nextpid = 2
  /\ lock = NoCpu
  /\ cproc = [c \in Cpus |-> 0]
  /\ spc = [c \in Cpus |-> "acquire"]
  /\ idx = [c \in Cpus |-> 1]

-----------------------------------------------------------------------------

\* The loops over ptable.proc take the first slot that matches.
IsFirst(p, S) == p \in S /\ \A q \in S : p <= q

\* wakeup1(ch) for every ch in chs, applied to the states st.
wakeup1(st, chs) ==
  [q \in Slots |-> IF st[q] = "SLEEPING" /\ chan[q] \in chs
                   THEN "RUNNABLE" ELSE st[q]]

\* CPU c executes the kernel thread or the user code of process p.
Runs(c, p) == spc[c] = "run" /\ cproc[c] = p

table == <<state, pid, parent, chan, killed, kstack, pgdir, nextpid>>
cpu == <<lock, cproc, spc, idx>>

-----------------------------------------------------------------------------
(* scheduler(): acquire, loop over the table, release, start over.          *)

SchedAcquire(c) ==
  /\ spc[c] = "acquire"
  /\ lock = NoCpu
  /\ lock' = c
  /\ spc' = [spc EXCEPT ![c] = "scan"]
  /\ UNCHANGED <<table, pc, resume, np, cproc, idx>>

\* The next RUNNABLE process at or after the loop variable.
NextRunnable(c) == {q \in Slots : q >= idx[c] /\ state[q] = "RUNNABLE"}

\* c->proc = p; switchuvm(p); p->state = RUNNING; swtch().
SchedSwitch(c) ==
  /\ spc[c] = "scan"
  /\ \E p \in Slots :
       /\ IsFirst(p, NextRunnable(c))
       /\ cproc' = [cproc EXCEPT ![c] = p]
       /\ state' = [state EXCEPT ![p] = "RUNNING"]
       /\ idx' = [idx EXCEPT ![c] = p]
  /\ spc' = [spc EXCEPT ![c] = "run"]
  /\ UNCHANGED <<pid, parent, chan, killed, kstack, pgdir, nextpid, pc, resume,
                 np, lock>>

\* Mutant: the loop starts over after every process it has run.
SchedBackRestarts(c) ==
  /\ spc[c] = "back"
  /\ cproc' = [cproc EXCEPT ![c] = 0]
  /\ idx' = [idx EXCEPT ![c] = 1]
  /\ spc' = [spc EXCEPT ![c] = "scan"]
  /\ UNCHANGED <<table, pc, resume, np, lock>>

\* swtch() has returned: switchkvm(); c->proc = 0; p++.
SchedBack(c) ==
  /\ spc[c] = "back"
  /\ cproc' = [cproc EXCEPT ![c] = 0]
  /\ idx' = [idx EXCEPT ![c] = @ + 1]
  /\ spc' = [spc EXCEPT ![c] = "scan"]
  /\ UNCHANGED <<table, pc, resume, np, lock>>

\* The end of the table: release, and start again at its first slot.
SchedRelease(c) ==
  /\ spc[c] = "scan"
  /\ NextRunnable(c) = {}
  /\ lock' = NoCpu
  /\ spc' = [spc EXCEPT ![c] = "acquire"]
  /\ idx' = [idx EXCEPT ![c] = 1]
  /\ UNCHANGED <<table, pc, resume, np, cproc>>

\* Mutant: ptable.lock is released before swtch().
SchedUnlocks(c, p, next) ==
  /\ pc' = [pc EXCEPT ![p] = next]
  /\ spc' = [spc EXCEPT ![c] = "back"]
  /\ lock' = NoCpu
  /\ UNCHANGED <<cproc, idx>>

\* sched(): the thread of p, which holds ptable.lock, switches to the
\* scheduler of its CPU and will go on at point "next".
sched(c, p, next) ==
  /\ pc' = [pc EXCEPT ![p] = next]
  /\ spc' = [spc EXCEPT ![c] = "back"]
  /\ lock' = c
  /\ UNCHANGED <<cproc, idx>>

-----------------------------------------------------------------------------
(* Entering and leaving the kernel: forkret, trap, yield.                   *)

forkret(c, p) ==
  /\ Runs(c, p) /\ pc[p] = "forkret"
  /\ lock' = NoCpu
  /\ pc' = [pc EXCEPT ![p] = "user"]
  /\ UNCHANGED <<table, resume, np, cproc, spc, idx>>

\* trap() for T_SYSCALL: a killed process exits instead of entering the call.
syscall(c, p) ==
  /\ Runs(c, p) /\ pc[p] = "user" /\ ~killed[p]
  /\ \E call \in Calls :
       /\ p = initproc => call \in InitCalls
       /\ pc' = [pc EXCEPT ![p] = call]
  /\ UNCHANGED <<table, resume, np, cpu>>

\* The killed checks of trap() on the way in and on the way out.
TrapKilled(c, p) ==
  /\ Runs(c, p) /\ pc[p] = "user" /\ killed[p]
  /\ pc' = [pc EXCEPT ![p] = "exit"]
  /\ UNCHANGED <<table, resume, np, cpu>>

\* The default case of trap(): a fault in user mode kills the process.  (The
\* program initproc runs does not fault unless it may exit at all.)
TrapFault(c, p) ==
  /\ Runs(c, p) /\ pc[p] = "user"
  /\ p = initproc => "exit" \in InitCalls
  /\ killed' = [killed EXCEPT ![p] = TRUE]
  /\ pc' = [pc EXCEPT ![p] = "exit"]
  /\ UNCHANGED <<state, pid, parent, chan, kstack, pgdir, nextpid, resume, np,
                 cpu>>

\* Timer interrupt: yield(), in user mode only after the killed check.
yield(c, p) ==
  /\ Runs(c, p) /\ pc[p] \in Preemptible
  /\ pc[p] = "user" => ~killed[p]
  /\ lock = NoCpu
  /\ state' = [state EXCEPT ![p] = "RUNNABLE"]
  /\ resume' = [resume EXCEPT ![p] = pc[p]]
  /\ sched(c, p, "yielded")
  /\ UNCHANGED <<pid, parent, chan, killed, kstack, pgdir, nextpid, np>>

\* Back from sched() in yield(): release and go on.
YieldReturn(c, p) ==
  /\ Runs(c, p) /\ pc[p] = "yielded"
  /\ lock' = NoCpu
  /\ pc' = [pc EXCEPT ![p] = resume[p]]
  /\ resume' = [resume EXCEPT ![p] = "user"]
  /\ UNCHANGED <<table, np, cproc, spc, idx>>

-----------------------------------------------------------------------------
(* fork() and allocproc().                                                  *)

Unused == {q \in Slots : state[q] = "UNUSED"}

\* allocproc() up to the release of ptable.lock.
allocproc(c, p) ==
  /\ Runs(c, p) /\ pc[p] = "fork"
  /\ lock = NoCpu
  /\ nextpid <= MaxPid
  /\ \E q \in Slots :
       /\ IsFirst(q, Unused)
       /\ state' = [state EXCEPT ![q] = "EMBRYO"]
       /\ pid' = [pid EXCEPT ![q] = nextpid]
       /\ np' = [np EXCEPT ![p] = q]
  /\ nextpid' = nextpid + 1
  /\ pc' = [pc EXCEPT ![p] = "fork_kstack"]
  /\ UNCHANGED <<parent, chan, killed, kstack, pgdir, resume, cpu>>

\* No UNUSED slot (or, in the model, no pid left): fork returns -1.
AllocprocFull(c, p) ==
  /\ Runs(c, p) /\ pc[p] = "fork"
  /\ lock = NoCpu
  /\ Unused = {} \/ nextpid > MaxPid
  /\ pc' = [pc EXCEPT ![p] = "user"]
  /\ UNCHANGED <<table, resume, np, cpu>>

\* The rest of allocproc(), without the lock: kalloc() of the kernel stack,
\* whose context makes the new thread start at forkret.
AllocKstack(c, p) ==
  /\ Runs(c, p) /\ pc[p] = "fork_kstack"
  /\ kstack' = [kstack EXCEPT ![np[p]] = TRUE]
  /\ pc' = [pc EXCEPT ![p] = "fork_copy", ![np[p]] = "forkret"]
  /\ UNCHANGED <<state, pid, parent, chan, killed, pgdir, nextpid, resume, np,
                 cpu>>

\* kalloc() returned 0: the slot is given back without the lock, pid and all.
AllocKstackFails(c, p) ==
  /\ Runs(c, p) /\ pc[p] = "fork_kstack"
  /\ state' = [state EXCEPT ![np[p]] = "UNUSED"]
  /\ pc' = [pc EXCEPT ![p] = "user"]
  /\ np' = [np EXCEPT ![p] = 0]
  /\ UNCHANGED <<pid, parent, chan, killed, kstack, pgdir, nextpid, resume,
                 cpu>>

\* copyuvm() succeeded; parent, files and cwd are filled in without the lock.
ForkCopy(c, p) ==
  /\ Runs(c, p) /\ pc[p] = "fork_copy"
  /\ pgdir' = [pgdir EXCEPT ![np[p]] = "live"]
  /\ parent' = [parent EXCEPT ![np[p]] = p]
  /\ pc' = [pc EXCEPT ![p] = "fork_publish"]
  /\ UNCHANGED <<state, pid, chan, killed, kstack, nextpid, resume, np, cpu>>

\* copyuvm() returned 0: kfree the stack and give the slot back.
ForkCopyFails(c, p) ==
  /\ Runs(c, p) /\ pc[p] = "fork_copy"
  /\ pgdir' = [pgdir EXCEPT ![np[p]] = "null"]
  /\ kstack' = [kstack EXCEPT ![np[p]] = FALSE]
  /\ state' = [state EXCEPT ![np[p]] = "UNUSED"]
  /\ pc' = [pc EXCEPT ![p] = "user", ![np[p]] = "none"]
  /\ np' = [np EXCEPT ![p] = 0]
  /\ UNCHANGED <<pid, parent, chan, killed, nextpid, resume, cpu>>

\* The last critical section of fork(): the child may run from here on.
ForkPublish(c, p) ==
  /\ Runs(c, p) /\ pc[p] = "fork_publish"
  /\ lock = NoCpu
  /\ state' = [state EXCEPT ![np[p]] = "RUNNABLE"]
  /\ pc' = [pc EXCEPT ![p] = "user"]
  /\ np' = [np EXCEPT ![p] = 0]
  /\ UNCHANGED <<pid, parent, chan, killed, kstack, pgdir, nextpid, resume,
                 cpu>>

-----------------------------------------------------------------------------
(* exit() and wait().                                                       *)

\* exit() of initproc panics before it takes any lock, with interrupts off.
ExitInit(c, p) ==
  /\ Runs(c, p) /\ pc[p] = "exit" /\ p = initproc
  /\ pc' = [pc EXCEPT ![p] = "panic"]
  /\ UNCHANGED <<table, resume, np, cpu>>

\* panic() never returns.
PanicLoop(c, p) ==
  /\ Runs(c, p) /\ pc[p] = "panic"
  /\ UNCHANGED vars

Kids(p) == {q \in Slots : parent[q] = p}
ZombieKids(p) == {q \in Kids(p) : state[q] = "ZOMBIE"}

\* exit() with the set of channels it wakes and the parent it leaves to its
\* children as parameters.
ExitWith(c, p, woken, heir) ==
  /\ Runs(c, p) /\ pc[p] = "exit" /\ p # initproc
  /\ lock = NoCpu
  /\ state' = [wakeup1(state, woken) EXCEPT ![p] = "ZOMBIE"]
  /\ parent' = [q \in Slots |-> IF parent[q] = p THEN heir ELSE parent[q]]
  /\ sched(c, p, "zombie")
  /\ UNCHANGED <<pid, chan, killed, kstack, pgdir, nextpid, resume, np>>

\* Mutant: the parent is not woken.
ExitParentAsleep(c, p) ==
  ExitWith(c, p, IF ZombieKids(p) # {} THEN {initproc} ELSE {}, initproc)

\* exit() after the files are closed: wake the parent, hand the children (and
\* the zombies among them) to init, become a zombie and never come back.
exit(c, p) ==
  ExitWith(c, p,
           {parent[p]} \cup (IF ZombieKids(p) # {} THEN {initproc} ELSE {}),
           initproc)

\* wait() scans the table at its start and whenever its sleep returns, with
\* ptable.lock held in both cases.
InWait(c, p) ==
  /\ Runs(c, p)
  /\ (pc[p] = "wait" /\ lock = NoCpu) \/ pc[p] = "waiting"

\* Found one: free it and return its pid.
WaitReap(c, p) ==
  /\ InWait(c, p)
  /\ \E q \in Slots :
       /\ IsFirst(q, ZombieKids(p))
       /\ kstack' = [kstack EXCEPT ![q] = FALSE]
       /\ pgdir' = [pgdir EXCEPT ![q] = "freed"]
       /\ pid' = [pid EXCEPT ![q] = 0]
       /\ parent' = [parent EXCEPT ![q] = 0]
       /\ killed' = [killed EXCEPT ![q] = FALSE]
       /\ state' = [state EXCEPT ![q] = "UNUSED"]
       /\ pc' = [pc EXCEPT ![p] = "user", ![q] = "none"]
  /\ chan' = [chan EXCEPT ![p] = 0]
  /\ lock' = NoCpu
  /\ UNCHANGED <<nextpid, resume, np, cproc, spc, idx>>

\* No point waiting: no children, or killed.
WaitFails(c, p) ==
  /\ InWait(c, p)
  /\ ZombieKids(p) = {}
  /\ Kids(p) = {} \/ killed[p]
  /\ chan' = [chan EXCEPT ![p] = 0]
  /\ pc' = [pc EXCEPT ![p] = "user"]
  /\ lock' = NoCpu
  /\ UNCHANGED <<state, pid, parent, killed, kstack, pgdir, nextpid, resume, np,
                 cproc, spc, idx>>

\* Mutant: wait() does not look at killed before it sleeps.
WaitSleepKilled(c, p) ==
  /\ InWait(c, p)
  /\ ZombieKids(p) = {}
  /\ Kids(p) # {}
  /\ chan' = [chan EXCEPT ![p] = p]
  /\ state' = [state EXCEPT ![p] = "SLEEPING"]
  /\ sched(c, p, "waiting")
  /\ UNCHANGED <<pid, parent, killed, kstack, pgdir, nextpid, resume, np>>

\* sleep(curproc, &ptable.lock): the lock is not released before sched().
WaitSleep(c, p) ==
  /\ InWait(c, p)
  /\ ZombieKids(p) = {}
  /\ Kids(p) # {} /\ ~killed[p]
  /\ chan' = [chan EXCEPT ![p] = p]
  /\ state' = [state EXCEPT ![p] = "SLEEPING"]
  /\ sched(c, p, "waiting")
  /\ UNCHANGED <<pid, parent, killed, kstack, pgdir, nextpid, resume, np>>

-----------------------------------------------------------------------------
(* sleep() on another channel, wakeup() and kill().                         *)

\* sleep(ch, lk) with lk # &ptable.lock, as called by the drivers, the pipes,
\* the log and the sleep-locks; the caller's lk is not part of this module.
sleep(c, p) ==
  /\ Runs(c, p) /\ pc[p] = "sleep"
  /\ lock = NoCpu
  /\ \E ch \in Chans : chan' = [chan EXCEPT ![p] = ch]
  /\ state' = [state EXCEPT ![p] = "SLEEPING"]
  /\ sched(c, p, "slept")
  /\ UNCHANGED <<pid, parent, killed, kstack, pgdir, nextpid, resume, np>>

\* Back from sched() in sleep(): tidy up and release ptable.lock.
SleepReturn(c, p) ==
  /\ Runs(c, p) /\ pc[p] = "slept"
  /\ chan' = [chan EXCEPT ![p] = 0]
  /\ lock' = NoCpu
  /\ pc' = [pc EXCEPT ![p] = "user"]
  /\ UNCHANGED <<state, pid, parent, killed, kstack, pgdir, nextpid, resume, np,
                 cproc, spc, idx>>

\* wakeup(ch), from an interrupt handler or from a system call.
wakeup(ch) ==
  /\ lock = NoCpu
  /\ state' = wakeup1(state, {ch})
  /\ UNCHANGED <<pid, parent, chan, killed, kstack, pgdir, nextpid, pc, resume,
                 np, cpu>>

\* kill(target): the first slot with that pid, whatever its state.
kill(c, p) ==
  /\ Runs(c, p) /\ pc[p] = "kill"
  /\ lock = NoCpu
  /\ \E target \in KillPids, q \in Slots :
       /\ IsFirst(q, {r \in Slots : pid[r] = target})
       /\ killed' = [killed EXCEPT ![q] = TRUE]
       /\ state' = [state EXCEPT ![q] = IF @ = "SLEEPING" THEN "RUNNABLE" ELSE @]
  /\ pc' = [pc EXCEPT ![p] = "user"]
  /\ UNCHANGED <<pid, parent, chan, kstack, pgdir, nextpid, resume, np, cpu>>

\* No slot has that pid: kill returns -1.
KillFails(c, p) ==
  /\ Runs(c, p) /\ pc[p] = "kill"
  /\ lock = NoCpu
  /\ \E target \in KillPids : \A q \in Slots : pid[q] # target
  /\ pc' = [pc EXCEPT ![p] = "user"]
  /\ UNCHANGED <<table, resume, np, cpu>>

-----------------------------------------------------------------------------

scheduler(c) == SchedAcquire(c) \/ SchedSwitch(c) \/ SchedBack(c) \/ SchedRelease(c)

fork(c, p) ==
  \/ allocproc(c, p) \/ AllocprocFull(c, p)
  \/ AllocKstack(c, p) \/ AllocKstackFails(c, p)
  \/ ForkCopy(c, p) \/ ForkCopyFails(c, p) \/ ForkPublish(c, p)

wait(c, p) == WaitReap(c, p) \/ WaitFails(c, p) \/ WaitSleep(c, p)

\* The first thing a process does when it has been switched to ...
Resume(c, p) == forkret(c, p) \/ YieldReturn(c, p) \/ SleepReturn(c, p)

\* ... and what it does in the kernel after that.
Work(c, p) ==
  \/ TrapKilled(c, p) \/ fork(c, p) \/ ExitInit(c, p) \/ exit(c, p)
  \/ wait(c, p) \/ sleep(c, p) \/ kill(c, p) \/ KillFails(c, p)

Next ==
  \/ \E c \in Cpus : scheduler(c)
  \/ \E c \in Cpus, p \in Slots :
       \/ Resume(c, p) \/ Work(c, p)
       \/ syscall(c, p) \/ TrapFault(c, p) \/ yield(c, p) \/ PanicLoop(c, p)
  \/ \E ch \in Chans : wakeup(ch)

Spec == Init /\ [][Next]_vars

\* Fairness.  A CPU keeps executing its scheduler loop and the process it has
\* switched to; a timer interrupt stays pending until the process can be
\* interrupted; a process that is given the CPU again and again gets some work
\* done between two interrupts.  With one CPU nobody else spins for
\* ptable.lock, so nothing is assumed about who wins it.
FairSpec ==
  /\ Spec
  /\ \A c \in Cpus : WF_vars(scheduler(c) \/ \E p \in Slots : Resume(c, p))
  /\ \A c \in Cpus : SF_vars(\E p \in Slots : yield(c, p))
  /\ \A p \in Slots : SF_vars(\E c \in Cpus : Work(c, p))

\* The program that initproc runs keeps calling wait() (init.c).
InitWaits ==
  SF_vars(\E c \in Cpus : syscall(c, initproc) /\ pc'[initproc] = "wait")

FairSpecInit == FairSpec /\ InitWaits

-----------------------------------------------------------------------------

Live == {"SLEEPING", "RUNNABLE", "RUNNING"}

\* A process is never on two CPUs, and a RUNNING one is on exactly one: the
\* scheduler of a second CPU cannot pick a process whose context is still
\* being saved by sched() on the first (scheduler, sched, yield, sleep).
RunsOnce ==
  /\ \A c, d \in Cpus : cproc[c] = cproc[d] /\ c # d => cproc[c] = 0
  /\ \A p \in Slots : state[p] = "RUNNING" <=> \E c \in Cpus : Runs(c, p)

\* As long as a CPU executes on the kernel stack and page table of a process,
\* both are allocated: a parent in wait() cannot free them between the child's
\* "state = ZOMBIE" in exit() and the return of swtch() in scheduler().
StackLive ==
  \A c \in Cpus : cproc[c] # 0 => kstack[cproc[c]] /\ pgdir[cproc[c]] = "live"

\* Every process but init has a parent that can still call wait() for it:
\* exit() hands its children to init before anyone can see it as a zombie.
ParentAlive ==
  \A p \in Slots \ {initproc} :
    state[p] \in Live \cup {"ZOMBIE"} => parent[p] # 0 /\ state[parent[p]] \in Live

\* A process asleep in wait() still has a child, none of its children is a
\* zombie and it has not been killed: no exit, no hand-over of a zombie to
\* init and no kill is ever missed between wait()'s scan and its sleep.
NoMissedEvent ==
  \A p \in Slots :
    state[p] = "SLEEPING" /\ chan[p] = p
      => Kids(p) # {} /\ ZombieKids(p) = {} /\ ~killed[p]

\* A slot given back owns no memory, and a slot being set up is in the hands
\* of exactly one living process in fork(), although the failure paths of
\* allocproc() and fork() write p->state without ptable.lock.
SlotOwned ==
  \A q \in Slots :
    /\ state[q] = "UNUSED" => ~kstack[q] /\ pgdir[q] # "live" /\ parent[q] = 0
    /\ state[q] = "EMBRYO" <=> \E p \in Slots : np[p] = q
    /\ \A p, r \in Slots : np[p] = q /\ np[r] = q => p = r /\ state[p] \in Live

\* kill() marks only processes (comment: "Kill the process with the given
\* pid"), so a slot that holds no process is never marked.
KilledIsProcess == \A p \in Slots : killed[p] => state[p] # "UNUSED"

\* scheduler() goes round the whole table: no RUNNABLE process is passed over
\* for ever.
NoStarvation == \A p \in Slots : state[p] = "RUNNABLE" ~> state[p] # "RUNNABLE"

\* A killed process becomes a zombie, whether it was running, preempted or in
\* wait() (kill, the check in wait and the checks in trap), unless it goes to
\* sleep on a device channel.
KilledExits ==
  \A p \in Slots \ {initproc} :
    killed[p] /\ state[p] \in Live ~> state[p] \notin Live \/ chan[p] \in Chans

\* Every zombie handed to init is freed, given that init keeps calling wait().
OrphansReaped ==
  \A p \in Slots :
    state[p] = "ZOMBIE" /\ parent[p] = initproc ~> state[p] = "UNUSED"

-----------------------------------------------------------------------------
(* The inductive invariant behind the safety properties.                    *)

\* Where a thread is, seen through a preemption.
at(p) == IF pc[p] = "yielded" THEN resume[p] ELSE pc[p]

InFork == {"fork_kstack", "fork_copy", "fork_publish"}

\* Who holds ptable.lock: a scheduler in its loop, a thread between sched()
\* and swtch()'s return, or a thread that has just been switched to.
CpuOK(c) ==
  /\ spc[c] \in {"scan", "back"} => lock = c
  /\ spc[c] = "acquire" => lock # c
  /\ cproc[c] = 0 <=> spc[c] \in {"acquire", "scan"}
  /\ cproc[c] # 0 => idx[c] = cproc[c]
  /\ spc[c] = "run" => state[cproc[c]] = "RUNNING"
  /\ spc[c] = "run" => (lock = c <=> pc[cproc[c]] \in Switched)
  /\ spc[c] = "back" => state[cproc[c]] \in {"RUNNABLE", "SLEEPING", "ZOMBIE"}

CpuInv ==
  /\ \A c \in Cpus : CpuOK(c)
  /\ \A c, d \in Cpus : cproc[c] = cproc[d] /\ c # d => cproc[c] = 0

\* What the state of a process says of its thread, its memory and its channel.
ThreadOK(p) ==
  /\ state[p] = "UNUSED" => pc[p] = "none"
  /\ state[p] = "EMBRYO" => pc[p] \in {"none", "forkret"}
  /\ state[p] = "RUNNABLE" => pc[p] \in Switched
  /\ state[p] = "SLEEPING" => pc[p] \in {"slept", "waiting"}
  /\ state[p] = "RUNNING" => pc[p] \notin {"none", "zombie"}
  /\ state[p] = "RUNNING" => \E c \in Cpus : Runs(c, p)
  /\ state[p] = "ZOMBIE" => pc[p] = "zombie"
  /\ state[p] \in Live \cup {"ZOMBIE"} => kstack[p] /\ pgdir[p] = "live"
  /\ pc[p] = "waiting" => chan[p] = p
  /\ pc[p] = "slept" => chan[p] \in Chans
  /\ pc[p] \notin {"waiting", "slept"} => chan[p] = 0

ThreadInv == \A p \in Slots : ThreadOK(p)

\* How far fork() has got with the slot it is setting up.
ForkOK(p) ==
  /\ np[p] = 0 <=> at(p) \notin InFork
  /\ np[p] # 0 => state[np[p]] = "EMBRYO" /\ state[p] \in {"RUNNABLE", "RUNNING"}
  /\ at(p) = "fork_kstack" =>
       ~kstack[np[p]] /\ pgdir[np[p]] # "live" /\ parent[np[p]] = 0 /\ pc[np[p]] = "none"
  /\ at(p) = "fork_copy" =>
       kstack[np[p]] /\ pgdir[np[p]] # "live" /\ parent[np[p]] = 0 /\ pc[np[p]] = "forkret"
  /\ at(p) = "fork_publish" =>
       kstack[np[p]] /\ pgdir[np[p]] = "live" /\ parent[np[p]] = p /\ pc[np[p]] = "forkret"

ForkInv ==
  /\ \A p \in Slots : ForkOK(p)
  /\ \A p, r \in Slots : np[p] = np[r] /\ p # r => np[p] = 0

\* What a free slot, a slot being set up and a process own.
SlotOK(q) ==
  /\ state[q] = "UNUSED" => ~kstack[q] /\ pgdir[q] # "live" /\ parent[q] = 0
  /\ state[q] = "EMBRYO" => \E p \in Slots : np[p] = q

SlotInv == \A q \in Slots : SlotOK(q)

\* Everybody but init has a living parent, other than itself; init has none.
FamilyOK(p) ==
  /\ parent[p] # p
  /\ p # initproc /\ state[p] \in Live \cup {"ZOMBIE"}
       => parent[p] # 0 /\ state[parent[p]] \in Live

FamilyInv ==
  /\ state[initproc] \in Live /\ parent[initproc] = 0
  /\ \A p \in Slots : FamilyOK(p)

\* What wait() has established before it sleeps stays true while it sleeps.
WaitOK(p) ==
  state[p] = "SLEEPING" /\ pc[p] = "waiting" =>
    /\ ~killed[p]
    /\ \E k \in Slots : parent[k] = p
    /\ \A k \in Slots : parent[k] = p => state[k] # "ZOMBIE"

WaitInv == \A p \in Slots : WaitOK(p)

\* The inductive invariant: type correctness and the parts above.
IInv ==
  /\ TypeOK /\ CpuInv /\ ThreadInv /\ ForkInv
  /\ SlotInv /\ FamilyInv /\ WaitInv

=============================================================================
