------------------------------ MODULE ProcWake ------------------------------
(***************************************************************************)
(* Proofs about Proc, third part: wakeup(), kill(), exit() and wait() keep *)
(* the invariant.                                                          *)
(***************************************************************************)
EXTENDS ProcSteps

USE SlotFacts, NoCpuAssumption DEF initproc, Pointers

-----------------------------------------------------------------------------
(* Steps that wake processes: wakeup, kill and exit.                        *)

\* Some sleeping processes become RUNNABLE; those that are newly marked killed
\* are not left asleep; a process may return from kill().
Wakes ==
  /\ state' \in [Slots -> States] /\ killed' \in [Slots -> BOOLEAN] /\ pc' \in [Slots -> PCs]
  /\ \A q \in Slots : state'[q] # state[q] => state[q] = "SLEEPING" /\ state'[q] = "RUNNABLE"
  /\ \A q \in Slots : killed'[q] # killed[q] => state'[q] # "SLEEPING"
  /\ \A q \in Slots : pc'[q] = pc[q] \/ (state[q] = "RUNNING" /\ pc[q] = "kill" /\ pc'[q] = "user")
  /\ UNCHANGED <<pid, parent, chan, kstack, pgdir, nextpid, resume, np>>
  /\ UNCHANGED <<lock, cproc, spc, idx>>

\* Steps of that kind (wakeup and kill) preserve the invariant.
LEMMA WakesInv ==
  ASSUME IInv, lock = NoCpu, Wakes
  PROVE  IInv'
<1>1. TypeOK' BY Typed DEF TypeOK, Wakes
<1>s. /\ \A q \in Slots : state[q] # "SLEEPING" => state'[q] = state[q]
      /\ \A q \in Slots : state[q] = "SLEEPING" => state'[q] \in {"SLEEPING", "RUNNABLE"}
  BY DEF Wakes
<1>p. /\ \A q \in Slots : pc'[q] \in Switched <=> pc[q] \in Switched
      /\ \A q \in Slots : state[q] # "RUNNING" => pc'[q] = pc[q]
      /\ \A q \in Slots : pc'[q] \in {"waiting", "slept", "none", "zombie", "forkret"}
                            \/ pc[q] \in {"waiting", "slept", "none", "zombie", "forkret"}
                            => pc'[q] = pc[q]
  BY DEF Wakes, Switched
<1>a. \A q \in Slots : at(q)' = at(q) \/ (at(q)' \notin InFork /\ at(q) \notin InFork)
  BY DEF at, Wakes, InFork
<1>2. CpuInv'
  <2>1. ASSUME NEW e \in Cpus PROVE CpuOK(e)'
    <3>1. spc[e] \notin {"scan", "back"} BY CpusOK DEF CpuOK
    <3>2. cproc[e] # 0 => cproc[e] \in Slots /\ state[cproc[e]] = "RUNNING"
      <4>1. cproc[e] # 0 => spc[e] = "run" BY <3>1, CpusOK, Typed DEF CpuOK, TypeOK
      <4>2. QED BY <4>1, CpusOK DEF CpuOK
    <3>3. QED BY <3>2, <1>s, <1>p, Parts, CpuFrame DEF Wakes
  <2>2. QED BY <2>1, Parts DEF CpuInv, Wakes
<1>3. ThreadInv'
  <2>1. ASSUME NEW q \in Slots PROVE ThreadOK(q)'
    <3>1. CASE state'[q] = state[q] /\ pc'[q] = pc[q]
      <4>1. state[q] = "RUNNING" => \E d \in Cpus : Runs(d, q)'
        BY ThreadsOK DEF ThreadOK, Runs, Wakes
      <4>2. QED BY <3>1, <4>1, ThreadsOK, ThreadFrame DEF Wakes
    <3>2. CASE state[q] = "SLEEPING" /\ state'[q] = "RUNNABLE"
      BY <3>2, <1>p, ThreadsOK DEF ThreadOK, Wakes, Switched, Live
    <3>3. CASE state[q] = "RUNNING" /\ pc[q] = "kill" /\ pc'[q] = "user"
      <4>1. state'[q] = "RUNNING" BY <3>3, <1>s
      <4>2. \E d \in Cpus : Runs(d, q)'
        BY <3>3, ThreadsOK DEF ThreadOK, Runs, Wakes
      <4>3. QED BY <3>3, <4>1, <4>2, ThreadsOK DEF ThreadOK, Wakes, Live
    <3>4. QED BY <3>1, <3>2, <3>3, <1>p DEF Wakes
  <2>2. QED BY <2>1 DEF ThreadInv
<1>4. ForkInv'
  <2>1. ASSUME NEW q \in Slots PROVE ForkOK(q)'
    <3>1. CASE at(q)' = at(q)
      <4>2. np[q] # 0 => np[q] \in Slots /\ state'[np[q]] = state[np[q]] /\ pc'[np[q]] = pc[np[q]]
        BY <1>s, <1>p, ForksOK DEF ForkOK
      <4>3. np[q] # 0 => state'[q] \in {"RUNNABLE", "RUNNING"} BY <1>s, ForksOK DEF ForkOK
      <4>4. QED BY <3>1, <4>2, <4>3, Typed, ForksOK, ForkFrame DEF Wakes
    <3>2. CASE at(q)' \notin InFork /\ at(q) \notin InFork
      BY <3>2, ForksOK DEF ForkOK, Wakes, InFork
    <3>3. QED BY <3>1, <3>2, <1>a
  <2>2. QED BY <2>1, Parts DEF ForkInv, Wakes
<1>5. SlotInv'
  <2>1. ASSUME NEW q \in Slots PROVE SlotOK(q)'
    <3>1. SlotOK(q) BY Parts
    <3>2. QED BY <3>1 DEF SlotOK, Wakes
  <2>2. QED BY <2>1 DEF SlotInv
<1>6. FamilyInv'
  <2>1. \A q \in Slots : state'[q] \in Live <=> state[q] \in Live
    BY <1>s DEF Live
  <2>2. \A q \in Slots : state'[q] = "ZOMBIE" <=> state[q] = "ZOMBIE"
    BY <1>s
  <2>3. ASSUME NEW q \in Slots PROVE FamilyOK(q)'
    BY <2>1, <2>2, Parts DEF FamilyOK, Wakes
  <2>4. QED BY <2>1, <2>3, Parts DEF FamilyInv, Wakes
<1>7. WaitInv'
  <2>1. ASSUME NEW q \in Slots PROVE WaitOK(q)'
    <3>1. WaitOK(q) /\ (state'[q] = "SLEEPING" => state[q] = "SLEEPING" /\ killed'[q] = killed[q])
      BY Parts DEF Wakes
    <3>2. \A k \in Slots : state'[k] = "ZOMBIE" => state[k] = "ZOMBIE"
      BY <1>s
    <3>3. QED BY <3>1, <3>2, <1>p DEF WaitOK, Wakes
  <2>2. QED BY <2>1 DEF WaitInv
<1>8. QED BY <1>1, <1>2, <1>3, <1>4, <1>5, <1>6, <1>7 DEF IInv

\* wakeup(ch) preserves the invariant.
LEMMA WakeupInv ==
  ASSUME IInv, NEW ch \in Chans, wakeup(ch)
  PROVE  IInv'
<1>1. state' \in [Slots -> States]
  BY Typed DEF TypeOK, wakeup, wakeup1, States
<1>2. Wakes
  BY <1>1, Typed DEF Wakes, wakeup, wakeup1, TypeOK, cpu
<1>3. QED BY <1>2, WakesInv DEF wakeup

\* kill() preserves the invariant: a process asleep in wait() is woken by it.
LEMMA KillInv ==
  ASSUME IInv, NEW c \in Cpus, NEW p \in Slots, kill(c, p)
  PROVE  IInv'
<1>1. PICK q \in Slots :
        /\ killed' = [killed EXCEPT ![q] = TRUE]
        /\ state' = [state EXCEPT ![q] = IF @ = "SLEEPING" THEN "RUNNABLE" ELSE @]
  BY Zenon DEF kill
<1>2. state' \in [Slots -> States] /\ killed' \in [Slots -> BOOLEAN]
  BY <1>1, Typed DEF TypeOK, States
<1>3. pc' \in [Slots -> PCs] BY Typed DEF kill, TypeOK, PCs, Preemptible
<1>4. state[p] = "RUNNING" BY Running DEF kill
<1>5. \A r \in Slots : pc'[r] = pc[r] \/ (state[r] = "RUNNING" /\ pc[r] = "kill" /\ pc'[r] = "user")
  BY <1>4, Typed DEF kill, TypeOK
<1>6. /\ \A r \in Slots : state'[r] # state[r] => state[r] = "SLEEPING" /\ state'[r] = "RUNNABLE"
      /\ \A r \in Slots : killed'[r] # killed[r] => state'[r] # "SLEEPING"
  BY Zenon, <1>1, Typed DEF TypeOK
<1>7. Wakes
  BY Zenon, <1>2, <1>3, <1>5, <1>6 DEF Wakes, kill, cpu
<1>8. QED BY <1>7, WakesInv DEF kill

\* exit() preserves the invariant: whoever waits for the new zombie, or for the
\* zombies init inherits, is awake afterwards.
LEMMA ExitInv ==
  ASSUME IInv, NEW c \in Cpus, NEW p \in Slots, exit(c, p)
  PROVE  IInv'
<1>r. /\ state[p] = "RUNNING" /\ kstack[p] /\ pgdir[p] = "live"
      /\ spc[c] = "run" /\ cproc[c] = p /\ pc[p] = "exit" /\ p # 1 /\ lock = NoCpu
      /\ \A e \in Cpus \ {c} : cproc[e] # p
      /\ \A r \in Slots : np[r] # p
  BY Running DEF exit, ExitWith
<1>f. /\ np[p] = 0 /\ chan[p] = 0
      /\ \A r \in Slots : np[r] # 0 => parent[np[r]] # p
  <2>1. at(p) = "exit" BY <1>r DEF at
  <2>2. np[p] = 0 BY <2>1, ForksOK DEF ForkOK, InFork
  <2>3. chan[p] = 0 BY <1>r, ThreadsOK DEF ThreadOK
  <2>4. ASSUME NEW r \in Slots, np[r] # 0 PROVE parent[np[r]] # p
    <3>1. at(r) \in InFork BY <2>4, ForksOK DEF ForkOK
    <3>2. parent[np[r]] = 0 \/ (parent[np[r]] = r /\ r # p)
      BY <2>2, <2>4, <3>1, ForksOK DEF ForkOK, InFork
    <3>3. QED BY <3>2
  <2>5. QED BY <2>2, <2>3, <2>4
<1>m. /\ parent[1] = 0 /\ state[1] \in Live
      /\ \A q \in Slots : FamilyOK(q)
      /\ parent[p] \in Slots /\ parent[p] # p /\ state[parent[p]] \in Live
  <2>1. FamilyInv /\ TypeOK BY Parts
  <2>2. FamilyOK(p) BY Parts
  <2>3. QED BY <2>1, <2>2, <1>r, Parts DEF FamilyInv, FamilyOK, Live
<1>s. /\ state'[p] = "ZOMBIE"
      /\ \A q \in Slots \ {p} : state[q] # "SLEEPING" => state'[q] = state[q]
      /\ \A q \in Slots \ {p} : state[q] = "SLEEPING" => state'[q] \in {"SLEEPING", "RUNNABLE"}
      /\ \A q \in Slots \ {p} : chan[q] = parent[p] => state'[q] # "SLEEPING"
      /\ ZombieKids(p) # {} => \A q \in Slots \ {p} : chan[q] = 1 => state'[q] # "SLEEPING"
  BY DEF exit, ExitWith, wakeup1
<1>v. /\ \A q \in Slots : parent'[q] = IF parent[q] = p THEN 1 ELSE parent[q]
      /\ pc'[p] = "zombie" /\ \A q \in Slots \ {p} : pc'[q] = pc[q]
      /\ spc'[c] = "back" /\ \A e \in Cpus \ {c} : spc'[e] = spc[e]
      /\ lock' = c
      /\ UNCHANGED <<pid, chan, killed, kstack, pgdir, nextpid, resume, np, cproc, idx>>
  BY Typed DEF exit, ExitWith, sched, TypeOK
<1>1. TypeOK'
  <2>1. state' \in [Slots -> States] BY Typed DEF exit, ExitWith, wakeup1, TypeOK, States
  <2>2. parent' \in [Slots -> Pointers] BY Typed DEF exit, ExitWith, TypeOK
  <2>3. pc' \in [Slots -> PCs] BY Typed DEF exit, ExitWith, sched, TypeOK, PCs
  <2>4. spc' \in [Cpus -> {"acquire", "scan", "run", "back"}] BY Typed DEF exit, ExitWith, sched, TypeOK
  <2>5. QED BY <2>1, <2>2, <2>3, <2>4, <1>v, Typed DEF TypeOK
<1>2. CpuInv'
  <2>1. ASSUME NEW e \in Cpus PROVE CpuOK(e)'
    <3>1. CASE e = c BY <3>1, CpusOK, <1>r, <1>s, <1>v DEF CpuOK
    <3>2. CASE e # c
      <4>1. cproc[e] # 0 => cproc[e] \in Slots \ {p} BY <3>2, CpusOK, <1>r
      <4>2. lock' = e <=> lock = e BY <3>2, <1>r, <1>v
      <4>3. spc[e] \notin {"scan", "back"} BY CpusOK, <1>r DEF CpuOK
      <4>4. cproc[e] # 0 => state[cproc[e]] = "RUNNING"
        <5>1. cproc[e] # 0 => spc[e] = "run" BY <4>3, CpusOK, Typed DEF CpuOK, TypeOK
        <5>2. QED BY <5>1, CpusOK DEF CpuOK
      <4>5. QED BY <3>2, <4>1, <4>2, <4>4, <1>s, <1>v, CpusOK, Typed, CpuFrame
    <3>3. QED BY <3>1, <3>2
  <2>2. QED BY <2>1, <1>v, Parts DEF CpuInv
<1>3. ThreadInv'
  <2>1. ASSUME NEW q \in Slots, q # p PROVE ThreadOK(q)'
    <3>1. CASE state'[q] = state[q]
      <4>1. state[q] = "RUNNING" => \E d \in Cpus : Runs(d, q)'
        BY SMTT(30), <2>1, ThreadsOK, <1>v, <1>r DEF ThreadOK, Runs
      <4>2. QED BY <2>1, <3>1, <4>1, <1>v, ThreadsOK, ThreadFrame
    <3>2. CASE state[q] = "SLEEPING" /\ state'[q] = "RUNNABLE"
      BY ZenonT(30), <2>1, <3>2, <1>v, ThreadsOK DEF ThreadOK, Switched, Live
    <3>3. QED BY <2>1, <3>1, <3>2, <1>s
  <2>2. ThreadOK(p)'
    BY <1>r, <1>f, <1>s, <1>v DEF ThreadOK
  <2>3. QED BY <2>1, <2>2 DEF ThreadInv
<1>4. ForkInv'
  <2>1. ASSUME NEW r \in Slots, r # p PROVE ForkOK(r)'
    <3>1. at(r)' = at(r) BY <2>1, <1>v DEF at
    <3>2. np[r] # 0 => np[r] \in Slots \ {p} /\ state'[np[r]] = state[np[r]]
      BY <1>s, <1>r, ForksOK DEF ForkOK
    <3>3. np[r] # 0 => state'[r] \in {"RUNNABLE", "RUNNING"} BY <2>1, <1>s, ForksOK DEF ForkOK
    <3>4. np[r] # 0 => parent'[np[r]] = parent[np[r]] BY <3>2, <1>v, <1>f
    <3>5. QED BY <2>1, <3>1, <3>2, <3>3, <3>4, <1>v, Typed, ForksOK, ForkFrame
  <2>2. ForkOK(p)'
    <3>1. at(p)' = "zombie" BY <1>v DEF at
    <3>2. QED BY <3>1, <1>f, <1>v DEF ForkOK, InFork
  <2>3. QED BY <2>1, <2>2, <1>v, Parts DEF ForkInv
<1>5. SlotInv'
  <2>1. ASSUME NEW q \in Slots PROVE SlotOK(q)'
    <3>1. SlotOK(q) BY Parts
    <3>2. /\ state'[q] = "UNUSED" => state[q] = "UNUSED"
          /\ state'[q] = "EMBRYO" => state[q] = "EMBRYO"
      BY <1>s
    <3>3. QED BY <3>1, <3>2, <1>v DEF SlotOK
  <2>2. QED BY <2>1 DEF SlotInv
<1>6. FamilyInv'
  <2>1. \A q \in Slots \ {p} : state'[q] \in Live <=> state[q] \in Live
    BY <1>s DEF Live
  <2>2. \A q \in Slots : state'[q] \in Live \cup {"ZOMBIE"} => state[q] \in Live \cup {"ZOMBIE"}
    BY <1>s, <1>r DEF Live
  <2>3. ASSUME NEW q \in Slots PROVE FamilyOK(q)'
    <3>1. FamilyOK(q) /\ (parent[q] # 0 => parent[q] \in Slots) BY Parts
    <3>2. CASE parent[q] = p
      <4>1. parent'[q] = 1 /\ q # 1 BY <3>2, <1>v, <1>m
      <4>2. state'[1] \in Live BY <2>1, <1>m, <1>r
      <4>3. QED BY <4>1, <4>2 DEF FamilyOK
    <3>3. CASE parent[q] # p
      <4>1. parent'[q] = parent[q] BY <3>3, <1>v
      <4>2. QED BY <4>1, <3>1, <3>3, <2>1, <2>2 DEF FamilyOK
    <3>4. QED BY <3>2, <3>3
  <2>4. parent'[1] = 0 /\ state'[1] \in Live BY <1>m, <1>v, <1>r, <2>1
  <2>5. QED BY <2>3, <2>4 DEF FamilyInv
<1>7. WaitInv'
  <2>1. ASSUME NEW q \in Slots, state'[q] = "SLEEPING", pc'[q] = "waiting"
        PROVE  /\ ~killed'[q]
               /\ \E k \in Slots : parent'[k] = q
               /\ \A k \in Slots : parent'[k] = q => state'[k] # "ZOMBIE"
    <3>1. q # p /\ state[q] = "SLEEPING" /\ pc[q] = "waiting" /\ chan[q] = q
      BY <2>1, <1>s, <1>v, ThreadsOK DEF ThreadOK
    <3>2. WaitOK(q) BY Parts
    <3>3. ~killed[q] /\ (\E k \in Slots : parent[k] = q)
          /\ \A k \in Slots : parent[k] = q => state[k] # "ZOMBIE"
      BY <3>1, <3>2 DEF WaitOK
    <3>4. q # parent[p] BY <3>1, <2>1, <1>s
    <3>5. q = 1 => ZombieKids(p) = {} BY <3>1, <2>1, <1>s
    <3>6. ASSUME NEW k \in Slots, parent'[k] = q, state'[k] = "ZOMBIE" PROVE FALSE
      <4>1. k # p BY <3>6, <3>4, <1>v, <1>m
      <4>2. state[k] = "ZOMBIE" BY <4>1, <3>6, <1>s
      <4>3. CASE parent[k] = p
        <5>1. q = 1 BY <4>3, <3>6, <1>v
        <5>2. k \in ZombieKids(p) BY <4>2, <4>3 DEF ZombieKids, Kids
        <5>3. QED BY <5>1, <5>2, <3>5
      <4>4. CASE parent[k] # p BY <4>2, <4>4, <3>6, <3>3, <1>v
      <4>5. QED BY <4>3, <4>4
    <3>7. \E k \in Slots : parent'[k] = q BY <3>1, <3>3, <1>v
    <3>8. QED BY <3>3, <3>6, <3>7, <1>v
  <2>2. QED BY <2>1 DEF WaitInv, WaitOK
<1>8. QED BY <1>1, <1>2, <1>3, <1>4, <1>5, <1>6, <1>7 DEF IInv

\* Reaping a child preserves the invariant: no CPU is on its stack any more.
LEMMA WaitReapInv ==
  ASSUME IInv, NEW c \in Cpus, NEW p \in Slots, WaitReap(c, p)
  PROVE  IInv'
<1>r. /\ state[p] = "RUNNING" /\ kstack[p] /\ pgdir[p] = "live"
      /\ spc[c] = "run" /\ cproc[c] = p /\ (lock = c \/ lock = NoCpu)
      /\ \A e \in Cpus \ {c} : cproc[e] # p
      /\ \A r \in Slots : np[r] # p
      /\ pc[p] \in {"wait", "waiting"}
  BY Running DEF WaitReap, InWait, Switched
<1>0. PICK q \in Slots :
       /\ q \in ZombieKids(p)
       /\ kstack' = [kstack EXCEPT ![q] = FALSE]
       /\ pgdir' = [pgdir EXCEPT ![q] = "freed"]
       /\ pid' = [pid EXCEPT ![q] = 0]
       /\ parent' = [parent EXCEPT ![q] = 0]
       /\ killed' = [killed EXCEPT ![q] = FALSE]
       /\ state' = [state EXCEPT ![q] = "UNUSED"]
       /\ pc' = [pc EXCEPT ![p] = "user", ![q] = "none"]
  BY Zenon DEF WaitReap, IsFirst
<1>z. state[q] = "ZOMBIE" /\ parent[q] = p /\ q # p /\ q # 1
  <2>1. FamilyInv BY Parts
  <2>2. QED BY <1>0, <1>r, <2>1 DEF ZombieKids, Kids, FamilyInv, Live
<1>v. /\ ~kstack'[q] /\ pgdir'[q] = "freed" /\ parent'[q] = 0 /\ ~killed'[q]
      /\ state'[q] = "UNUSED" /\ pc'[q] = "none" /\ pc'[p] = "user"
      /\ chan'[p] = 0 /\ \A r \in Slots \ {p} : chan'[r] = chan[r]
  BY <1>0, <1>z, Typed DEF WaitReap, TypeOK
<1>w. /\ \A r \in Slots \ {q} : kstack'[r] = kstack[r] /\ pgdir'[r] = pgdir[r]
      /\ \A r \in Slots \ {q} : parent'[r] = parent[r] /\ killed'[r] = killed[r] /\ state'[r] = state[r]
      /\ \A r \in Slots \ {p, q} : pc'[r] = pc[r]
  BY <1>0, Typed DEF TypeOK
<1>u. lock' = NoCpu /\ UNCHANGED <<nextpid, resume, np, cproc, spc, idx>>
  BY DEF WaitReap
<1>c. chan[q] = 0 /\ np[p] = 0 /\ np[q] = 0 /\ \A r \in Slots : np[r] # q
  <2>1. chan[q] = 0 BY <1>z, ThreadsOK DEF ThreadOK
  <2>2. at(p) \in {"wait", "waiting"} BY <1>r DEF at
  <2>3. np[p] = 0 BY <2>2, ForksOK DEF ForkOK, InFork
  <2>4. np[q] = 0 BY <1>z, ForksOK DEF ForkOK
  <2>5. \A r \in Slots : np[r] # q BY <1>z, ForksOK DEF ForkOK
  <2>6. QED BY <2>1, <2>3, <2>4, <2>5
<1>1. TypeOK'
  <2>1. /\ kstack' \in [Slots -> BOOLEAN] /\ killed' \in [Slots -> BOOLEAN]
        /\ pgdir' \in [Slots -> {"null", "live", "freed"}]
    BY <1>0, Typed DEF TypeOK
  <2>2. parent' \in [Slots -> Pointers] /\ pid' \in [Slots -> Nat]
    BY <1>0, Typed DEF TypeOK
  <2>3. state' \in [Slots -> States] BY <1>0, Typed DEF TypeOK, States
  <2>4. pc' \in [Slots -> PCs] BY <1>0, Typed DEF TypeOK, PCs, Preemptible
  <2>5. chan' \in [Slots -> Chans \cup Pointers] BY Typed DEF TypeOK, WaitReap
  <2>6. QED BY <2>1, <2>2, <2>3, <2>4, <2>5, <1>u, Typed DEF TypeOK
<1>2. CpuInv'
  <2>1. ASSUME NEW e \in Cpus PROVE CpuOK(e)'
    <3>1. CASE e = c BY SMTT(30), <3>1, CpusOK, <1>r, <1>v, <1>w, <1>u, <1>z DEF CpuOK, Switched
    <3>2. CASE e # c
      <4>1. cproc[e] # 0 => cproc[e] \in Slots \ {p} BY <3>2, CpusOK, <1>r
      <4>2. lock' = e <=> lock = e BY <3>2, <1>r, <1>u
      <4>3. spc[e] \notin {"scan", "back"} BY <3>2, CpusOK, <1>r DEF CpuOK
      <4>4. cproc[e] # 0 => state[cproc[e]] = "RUNNING"
        <5>1. cproc[e] # 0 => spc[e] = "run" BY <4>3, CpusOK, Typed DEF CpuOK, TypeOK
        <5>2. QED BY <5>1, CpusOK DEF CpuOK
      <4>5. cproc[e] # 0 => cproc[e] \in Slots \ {p, q} BY <4>1, <4>4, <1>z
      <4>6. QED BY ZenonT(30), <4>5, <4>2, <1>u, <1>w, CpusOK, Typed, CpuFrame
    <3>3. QED BY SMTT(30), <3>1, <3>2
  <2>2. QED BY <2>1, <1>u, Parts DEF CpuInv
<1>3. ThreadInv'
  <2>1. ASSUME NEW r \in Slots \ {p, q} PROVE ThreadOK(r)'
    <3>1. state[r] = "RUNNING" => \E d \in Cpus : Runs(d, r)'
      BY ThreadsOK, <1>u DEF ThreadOK, Runs
    <3>2. QED BY <3>1, <1>v, <1>w, ThreadsOK, ThreadFrame
  <2>2. ThreadOK(p)'
    <3>1. Runs(c, p)' BY <1>r, <1>u DEF Runs
    <3>2. state'[p] = "RUNNING" /\ kstack'[p] /\ pgdir'[p] = "live" BY <1>r, <1>w, <1>z
    <3>3. QED BY <3>1, <3>2, <1>v DEF ThreadOK, Live
  <2>3. ThreadOK(q)'
    <3>1. chan'[q] = 0 BY <1>v, <1>z, <1>c
    <3>2. QED BY <3>1, <1>v DEF ThreadOK, Live
  <2>4. QED BY <2>1, <2>2, <2>3 DEF ThreadInv
<1>4. ForkInv'
  <2>1. ASSUME NEW r \in Slots \ {p, q} PROVE ForkOK(r)'
    <3>1. at(r)' = at(r) BY <1>w, <1>u DEF at
    <3>2. np[r] # 0 => np[r] \in Slots \ {p, q} BY <1>r, <1>c, ForksOK
    <3>3. np[r] # 0 => state'[r] \in {"RUNNABLE", "RUNNING"} BY <1>w, ForksOK DEF ForkOK
    <3>4. QED BY SMTT(30), <3>1, <3>2, <3>3, <1>w, <1>u, Typed, ForksOK, ForkFrame
  <2>2. ForkOK(p)' /\ ForkOK(q)'
    <3>1. at(p)' = "user" /\ at(q)' = "none" BY <1>v DEF at
    <3>2. QED BY <3>1, <1>c, <1>u DEF ForkOK, InFork
  <2>3. QED BY <2>1, <2>2, <1>u, Parts DEF ForkInv
<1>5. SlotInv'
  <2>1. ASSUME NEW r \in Slots \ {q} PROVE SlotOK(r)'
    BY Zenon, <1>w, <1>u, Parts, SlotFrame
  <2>2. SlotOK(q)' BY <1>v DEF SlotOK
  <2>3. QED BY SMTT(30), <2>1, <2>2 DEF SlotInv
<1>6. FamilyInv'
  <2>1. ASSUME NEW r \in Slots \ {q} PROVE FamilyOK(r)'
    <3>1. FamilyOK(r) /\ (parent[r] # 0 => parent[r] \in Slots) BY Parts
    <3>2. state[q] \notin Live BY <1>z DEF Live
    <3>3. QED BY <3>1, <3>2, <1>w DEF FamilyOK
  <2>2. FamilyOK(q)' BY <1>v DEF FamilyOK, Live
  <2>3. state'[1] \in Live /\ parent'[1] = 0
    BY <1>w, <1>z, Parts DEF FamilyInv
  <2>4. QED BY <2>1, <2>2, <2>3 DEF FamilyInv
<1>7. WaitInv'
  <2>1. ASSUME NEW r \in Slots PROVE WaitOK(r)'
    <3>1. CASE r \in {p, q} BY <3>1, <1>v DEF WaitOK
    <3>2. CASE r \notin {p, q}
      <4>1. WaitOK(r) BY Parts
      <4>2. \A k \in Slots : parent'[k] = r <=> parent[k] = r BY <3>2, <1>v, <1>w, <1>z
      <4>3. \A k \in Slots : state'[k] = "ZOMBIE" => state[k] = "ZOMBIE" BY <1>v, <1>w
      <4>4. QED BY <3>2, <4>1, <4>2, <4>3, <1>w DEF WaitOK
    <3>3. QED BY <3>1, <3>2
  <2>2. QED BY <2>1 DEF WaitInv
<1>8. QED BY <1>1, <1>2, <1>3, <1>4, <1>5, <1>6, <1>7 DEF IInv

=============================================================================
