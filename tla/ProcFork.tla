------------------------------ MODULE ProcFork ------------------------------
(***************************************************************************)
(* Proofs about Proc, second part: the steps of fork() keep the invariant. *)
(***************************************************************************)
EXTENDS ProcSteps

USE SlotFacts, NoCpuAssumption DEF initproc, Pointers

-----------------------------------------------------------------------------
(* The steps of fork() that work on the new slot.                           *)

\* q is the slot fork() is about to take or is setting up for p.
NewSlot(p, q) ==
  \/ pc[p] \in InFork /\ q = np[p]
  \/ pc[p] = "fork" /\ state[q] = "UNUSED"

\* Nobody else is interested in that slot.
LEMMA Forking ==
  ASSUME IInv, NEW c \in Cpus, NEW p \in Slots, Runs(c, p), NEW q, NewSlot(p, q),
         q \in Slots \/ pc[p] \in InFork
  PROVE  /\ q \in Slots /\ q # p /\ at(p) = pc[p] /\ pc[p] \in Preemptible
         /\ state[q] \in {"UNUSED", "EMBRYO"} /\ parent[q] \in {0, p} /\ np[q] = 0
         /\ \A r \in Slots \ {p} : np[r] # q /\ np[r] # p
         /\ \A e \in Cpus : cproc[e] # q
         /\ \A r \in Slots : state[r] \in Live => r # q
         /\ pc[q] \in {"none", "forkret"} /\ chan[q] = 0 /\ chan[p] = 0
         /\ lock # c
<1>. USE DEF NewSlot
<1>1. at(p) = pc[p] /\ pc[p] \in Preemptible /\ pc[p] \notin Switched
  BY DEF at, InFork, Preemptible, Calls, Switched
<1>2. state[p] = "RUNNING" /\ lock # c /\ \A r \in Slots : np[r] # p
  BY <1>1, Running
<1>3. q \in Slots /\ q # 0 /\ state[q] \in {"UNUSED", "EMBRYO"}
  <2>1. CASE pc[p] \in InFork /\ q = np[p]
    <3>1. np[p] # 0 BY <1>1, <2>1, ForksOK DEF ForkOK
    <3>2. QED BY <2>1, <3>1, ForksOK DEF ForkOK
  <2>2. CASE pc[p] = "fork" /\ state[q] = "UNUSED"
    BY <2>2 DEF InFork
  <2>3. QED BY <2>1, <2>2
<1>4. q # p
  BY <1>2, <1>3
<1>5. \A r \in Slots \ {p} : np[r] # q
  <2>1. CASE pc[p] \in InFork
    <3>1. q = np[p] BY <2>1 DEF InFork
    <3>2. \A r \in Slots : np[p] = np[r] /\ p # r => np[p] = 0 BY Parts DEF ForkInv
    <3>3. QED BY <1>3, <3>1, <3>2
  <2>2. CASE pc[p] = "fork" /\ state[q] = "UNUSED"
    BY <1>3, <2>2, ForksOK DEF ForkOK
  <2>3. QED BY <2>1, <2>2
<1>6. np[q] = 0
  BY <1>3, ForksOK DEF ForkOK
<1>7. parent[q] \in {0, p}
  <2>1. CASE pc[p] \in InFork
    BY <1>1, <2>1, ForksOK DEF ForkOK, InFork
  <2>2. CASE pc[p] = "fork" /\ state[q] = "UNUSED"
    BY <1>3, <2>2, Parts DEF SlotOK
  <2>3. QED BY <2>1, <2>2
<1>8. ASSUME NEW e \in Cpus PROVE cproc[e] # q
  <2>1. cproc[e] # 0 => spc[e] \in {"run", "back"}
    <3>1. cproc[e] # 0 => spc[e] \notin {"acquire", "scan"} BY CpusOK DEF CpuOK
    <3>2. QED BY <3>1, Typed DEF TypeOK
  <2>2. cproc[e] # 0 => state[cproc[e]] \in {"RUNNING", "RUNNABLE", "SLEEPING", "ZOMBIE"}
    BY <2>1, CpusOK DEF CpuOK
  <2>3. QED BY <2>2, <1>3
<1>9. pc[q] \in {"none", "forkret"} /\ chan[q] = 0
  BY <1>3, ThreadsOK DEF ThreadOK
<1>10. chan[p] = 0
  BY <1>1, ThreadsOK DEF ThreadOK, Switched
<1>11. QED BY <1>1, <1>2, <1>3, <1>4, <1>5, <1>6, <1>7, <1>8, <1>9, <1>10 DEF Live

\* A step of fork() by p that touches p's program counter and the slot q only.
Builds(c, p, q) ==
  /\ Runs(c, p) /\ NewSlot(p, q) /\ q \in Slots
  /\ pc' \in [Slots -> PCs] /\ pc'[p] \in Preemptible
  /\ pc'[q] \in {"none", "forkret"} /\ \A r \in Slots \ {p, q} : pc'[r] = pc[r]
  /\ state' \in [Slots -> States] /\ state'[q] \in {"UNUSED", "EMBRYO", "RUNNABLE"}
  /\ kstack' \in [Slots -> BOOLEAN] /\ pgdir' \in [Slots -> {"null", "live", "freed"}]
  /\ parent' \in [Slots -> Pointers] /\ parent'[q] \in {0, p}
  /\ \A r \in Slots \ {q} : /\ state'[r] = state[r] /\ kstack'[r] = kstack[r]
                            /\ pgdir'[r] = pgdir[r] /\ parent'[r] = parent[r]
  /\ np' \in [Slots -> Pointers] /\ np'[p] \in {0, q}
  /\ \A r \in Slots \ {p} : np'[r] = np[r]
  /\ pid' \in [Slots -> Nat] /\ nextpid' \in Nat
  /\ UNCHANGED <<chan, killed, resume, cpu>>

\* Such a step keeps the invariant if it leaves p and q in order.
LEMMA BuildsInv ==
  ASSUME IInv, NEW c \in Cpus, NEW p \in Slots, NEW q, Builds(c, p, q),
         ThreadOK(q)', ForkOK(p)', SlotOK(q)', FamilyOK(q)'
  PROVE  IInv'
<1>. USE DEF cpu
<1>f. /\ q \in Slots /\ q # p /\ pc[p] \in Preemptible
      /\ state[q] \in {"UNUSED", "EMBRYO"} /\ parent[q] \in {0, p} /\ np[q] = 0
      /\ \A r \in Slots \ {p} : np[r] # q /\ np[r] # p
      /\ \A e \in Cpus : cproc[e] # q
      /\ \A r \in Slots : state[r] \in Live => r # q
      /\ chan[p] = 0
  <2>1. Runs(c, p) /\ NewSlot(p, q) /\ q \in Slots BY DEF Builds
  <2>2. QED BY <2>1, Forking
<1>r. /\ state[p] = "RUNNING" /\ kstack[p] /\ pgdir[p] = "live"
      /\ spc[c] = "run" /\ cproc[c] = p /\ \A e \in Cpus \ {c} : cproc[e] # p
  BY Running DEF Builds
<1>p. /\ pc'[p] \notin Switched /\ pc[p] \notin Switched
      /\ pc'[p] \notin {"none", "zombie", "waiting", "slept"}
  BY <1>f DEF Builds, Preemptible, Calls, Switched
<1>1. TypeOK' BY Typed DEF TypeOK, Builds
<1>2. CpuInv'
  <2>1. ASSUME NEW e \in Cpus PROVE CpuOK(e)'
    <3>1. UNCHANGED <<spc, cproc, idx, lock>> BY DEF Builds
    <3>2. CASE e = c BY <3>1, <3>2, Parts, <1>r, <1>p, <1>f, CpuFrame DEF Builds
    <3>3. CASE e # c
      <4>1. cproc[e] # 0 => cproc[e] \in Slots \ {p, q} BY <3>3, CpusOK, <1>r, <1>f
      <4>2. QED BY <3>1, <4>1, Parts, CpuFrame DEF Builds
    <3>4. QED BY <3>2, <3>3
  <2>2. QED BY <2>1, Parts DEF CpuInv, Builds
<1>3. ThreadInv'
  <2>1. ASSUME NEW r \in Slots \ {p, q} PROVE ThreadOK(r)'
    <3>1. state[r] = "RUNNING" => \E d \in Cpus : Runs(d, r)'
      <4>1. UNCHANGED <<spc, cproc>> BY DEF Builds
      <4>2. QED BY <4>1, ThreadsOK DEF ThreadOK, Runs
    <3>2. QED BY <3>1, ThreadsOK, ThreadFrame DEF Builds
  <2>2. ThreadOK(p)'
    BY <1>r, <1>p, <1>f DEF ThreadOK, Runs, Live, Builds
  <2>3. QED BY <2>1, <2>2 DEF ThreadInv
<1>4. ForkInv'
  <2>1. ASSUME NEW r \in Slots \ {p, q} PROVE ForkOK(r)'
    <3>1. at(r)' = at(r) BY DEF at, Builds
    <3>2. np[r] # 0 => np[r] \in Slots \ {p, q} BY ForksOK, <1>f
    <3>3. np[r] # 0 => state'[r] \in {"RUNNABLE", "RUNNING"} BY ForksOK DEF ForkOK, Builds
    <3>4. QED BY <3>1, <3>2, <3>3, Typed, ForksOK, ForkFrame DEF Builds
  <2>2. ForkOK(q)'
    <3>1. np'[q] = 0 BY <1>f DEF Builds
    <3>2. at(q)' \notin InFork BY <1>f DEF at, InFork, Builds
    <3>3. QED BY <3>1, <3>2 DEF ForkOK, InFork
  <2>3. ASSUME NEW r \in Slots, NEW s \in Slots, np'[r] = np'[s], r # s PROVE np'[r] = 0
    <3>1. CASE r = p BY <2>3, <3>1, <1>f DEF Builds
    <3>2. CASE s = p BY <2>3, <3>2, <1>f DEF Builds
    <3>3. CASE r # p /\ s # p
      <4>1. np'[r] = np[r] /\ np'[s] = np[s] BY <3>3 DEF Builds
      <4>2. np[r] = np[s] => np[r] = 0 BY <2>3, Parts DEF ForkInv
      <4>3. QED BY Zenon, <2>3, <4>1, <4>2
    <3>4. QED BY <3>1, <3>2, <3>3
  <2>4. QED BY <2>1, <2>2, <2>3 DEF ForkInv
<1>5. SlotInv'
  <2>1. ASSUME NEW r \in Slots, r # q PROVE SlotOK(r)'
    <3>1. \A s \in Slots : np[s] = r => np'[s] = r
      <4>1. ASSUME NEW s \in Slots, np[s] = r PROVE np'[s] = r
        <5>1. CASE s = p
          <6>1. pc[p] = "fork" BY <2>1, <4>1, <5>1 DEF Builds, NewSlot
          <6>2. np[p] = 0 BY <6>1, ForksOK DEF ForkOK, at, InFork
          <6>3. QED BY <6>2, <4>1, <5>1
        <5>2. CASE s # p BY <4>1, <5>2 DEF Builds
        <5>3. QED BY <5>1, <5>2
      <4>2. QED BY <4>1
    <3>2. QED BY <2>1, <3>1, Parts, SlotFrame DEF Builds
  <2>2. QED BY <2>1 DEF SlotInv
<1>6. FamilyInv'
  <2>1. ASSUME NEW r \in Slots, r # q PROVE FamilyOK(r)'
    <3>1. state'[r] = state[r] /\ parent'[r] = parent[r] BY <2>1 DEF Builds
    <3>2. ASSUME NEW k \in Slots, state[k] \in Live PROVE state'[k] \in Live
      BY <3>2, <1>f DEF Builds
    <3>3. QED BY <3>1, <3>2, Parts DEF FamilyOK
  <2>2. state'[initproc] \in Live /\ parent'[initproc] = 0
    BY <1>f, Parts DEF FamilyInv, Builds, Live
  <2>3. QED BY <2>1, <2>2 DEF FamilyInv
<1>7. WaitInv'
  <2>1. ASSUME NEW r \in Slots PROVE WaitOK(r)'
    <3>1. CASE r = p BY <3>1, <1>r, <1>f DEF WaitOK, Builds
    <3>2. CASE r = q BY <3>2 DEF WaitOK, Builds
    <3>3. CASE r # p /\ r # q
      <4>1. WaitOK(r) /\ state'[r] = state[r] /\ pc'[r] = pc[r] /\ killed' = killed
        BY <3>3, Parts DEF Builds
      <4>a. r # 0 /\ r # p BY <3>3
      <4>b. parent'[q] # r /\ parent[q] # r BY <4>a, <1>f DEF Builds
      <4>c. \A k \in Slots \ {q} : parent'[k] = parent[k] /\ state'[k] = state[k] BY DEF Builds
      <4>2. \A k \in Slots : parent'[k] = r => parent[k] = r /\ state'[k] = state[k]
        BY <4>b, <4>c
      <4>3. \A k \in Slots : parent[k] = r => parent'[k] = r
        BY <4>b, <4>c
      <4>4. QED BY <4>1, <4>2, <4>3 DEF WaitOK
    <3>4. QED BY <3>1, <3>2, <3>3
  <2>2. QED BY <2>1 DEF WaitInv
<1>8. QED BY <1>1, <1>2, <1>3, <1>4, <1>5, <1>6, <1>7 DEF IInv

\* allocproc() claiming a slot under the lock preserves the invariant.
LEMMA AllocprocInv ==
  ASSUME IInv, NEW c \in Cpus, NEW p \in Slots, allocproc(c, p)
  PROVE  IInv'
<1>1. PICK q \in Slots :
        /\ state[q] = "UNUSED"
        /\ state' = [state EXCEPT ![q] = "EMBRYO"]
        /\ pid' = [pid EXCEPT ![q] = nextpid]
        /\ np' = [np EXCEPT ![p] = q]
  BY Zenon DEF allocproc, IsFirst, Unused
<1>2. /\ Runs(c, p) /\ pc[p] = "fork" /\ nextpid' = nextpid + 1
      /\ pc' = [pc EXCEPT ![p] = "fork_kstack"]
      /\ UNCHANGED <<parent, chan, killed, kstack, pgdir, resume, cpu>>
  BY DEF allocproc
<1>n. NewSlot(p, q) BY <1>1, <1>2 DEF NewSlot
<1>f. q # p /\ pc[q] \in {"none", "forkret"} /\ parent[q] \in {0, p}
  BY <1>n, <1>2, Forking
<1>o. /\ ~kstack[q] /\ pgdir[q] # "live" /\ parent[q] = 0 /\ pc[q] = "none"
      /\ chan[q] = 0
  BY <1>1, Parts DEF SlotOK, ThreadOK
<1>r. state[p] = "RUNNING" BY <1>2, Running
<1>v. /\ state'[q] = "EMBRYO" /\ np'[p] = q /\ pc'[p] = "fork_kstack" /\ pc'[q] = pc[q]
      /\ state'[p] = "RUNNING"
  BY <1>1, <1>2, <1>f, <1>r, Typed DEF TypeOK
<1>3. Builds(c, p, q)
  <2>1. /\ state' \in [Slots -> States] /\ np' \in [Slots -> Pointers] /\ pc' \in [Slots -> PCs]
        /\ pid' \in [Slots -> Nat] /\ nextpid' \in Nat
    <3>1. state' \in [Slots -> States] BY <1>1, Typed DEF TypeOK, States
    <3>2. np' \in [Slots -> Pointers] BY <1>1, Typed DEF TypeOK
    <3>3. pc' \in [Slots -> PCs] BY <1>2, Typed DEF TypeOK, PCs, Preemptible
    <3>4. pid' \in [Slots -> Nat] /\ nextpid' \in Nat BY <1>1, <1>2, Typed DEF TypeOK
    <3>5. QED BY <3>1, <3>2, <3>3, <3>4
  <2>2. /\ \A r \in Slots \ {q} : state'[r] = state[r]
        /\ \A r \in Slots \ {p} : np'[r] = np[r] /\ pc'[r] = pc[r]
    BY <1>1, <1>2, Typed DEF TypeOK
  <2>3. parent' \in [Slots -> Pointers] /\ kstack' \in [Slots -> BOOLEAN]
        /\ pgdir' \in [Slots -> {"null", "live", "freed"}]
    BY <1>2, Typed DEF TypeOK
  <2>4. QED BY <2>1, <2>2, <2>3, <1>2, <1>n, <1>f, <1>v DEF Builds, Preemptible
<1>4. ThreadOK(q)'
  BY <1>v, <1>o, <1>2 DEF ThreadOK, Live
<1>5. ForkOK(p)'
  <2>1. at(p)' = "fork_kstack" /\ q # 0 BY <1>v DEF at
  <2>2. QED BY <2>1, <1>v, <1>o, <1>2 DEF ForkOK, InFork
<1>6. SlotOK(q)'
  BY <1>v DEF SlotOK
<1>7. FamilyOK(q)'
  BY <1>v, <1>o, <1>2 DEF FamilyOK, Live
<1>8. QED BY <1>3, <1>4, <1>5, <1>6, <1>7, BuildsInv

\* What ForkOK says of the slot at each point of fork().
LEMMA ForkPoint ==
  ASSUME IInv, NEW c \in Cpus, NEW p \in Slots, Runs(c, p), pc[p] \in InFork
  PROVE  /\ np[p] \in Slots /\ np[p] # 0 /\ np[p] # p /\ NewSlot(p, np[p])
         /\ state[np[p]] = "EMBRYO" /\ chan[np[p]] = 0 /\ state[p] = "RUNNING"
         /\ pc[p] = "fork_kstack" => ~kstack[np[p]] /\ pgdir[np[p]] # "live"
                                     /\ parent[np[p]] = 0 /\ pc[np[p]] = "none"
         /\ pc[p] = "fork_copy" => kstack[np[p]] /\ pgdir[np[p]] # "live"
                                   /\ parent[np[p]] = 0 /\ pc[np[p]] = "forkret"
         /\ pc[p] = "fork_publish" => kstack[np[p]] /\ pgdir[np[p]] = "live"
                                      /\ parent[np[p]] = p /\ pc[np[p]] = "forkret"
<1>1. NewSlot(p, np[p]) BY DEF NewSlot
<1>2. /\ np[p] \in Slots /\ np[p] # p /\ at(p) = pc[p] /\ chan[np[p]] = 0
  BY SMTT(30), <1>1, Forking
<1>3. ForkOK(p) /\ state[p] = "RUNNING" BY Parts, Running
<1>4. np[p] # 0 /\ state[np[p]] = "EMBRYO" BY <1>2, <1>3 DEF ForkOK
<1>5. QED BY <1>1, <1>2, <1>3, <1>4 DEF ForkOK

\* allocproc() getting a kernel stack preserves the invariant.
LEMMA AllocKstackInv ==
  ASSUME IInv, NEW c \in Cpus, NEW p \in Slots, AllocKstack(c, p)
  PROVE  IInv'
<1>1. PICK q \in Slots :
      /\ q = np[p] /\ q # 0 /\ q # p /\ NewSlot(p, q) /\ state[q] = "EMBRYO" /\ chan[q] = 0
      /\ pgdir[q] # "live" /\ parent[q] = 0 /\ Runs(c, p) /\ pc[p] = "fork_kstack"
      /\ state[p] = "RUNNING"
  BY ForkPoint DEF AllocKstack, InFork
<1>2. /\ kstack' = [kstack EXCEPT ![q] = TRUE]
      /\ pc' = [pc EXCEPT ![p] = "fork_copy", ![q] = "forkret"]
      /\ UNCHANGED <<state, pid, parent, chan, killed, pgdir, nextpid, resume, np, cpu>>
  BY <1>1 DEF AllocKstack
<1>v. /\ kstack'[q] /\ pc'[p] = "fork_copy" /\ pc'[q] = "forkret"
      /\ \A r \in Slots \ {q} : kstack'[r] = kstack[r]
      /\ \A r \in Slots \ {p, q} : pc'[r] = pc[r]
  BY <1>1, <1>2, Typed DEF TypeOK
<1>3. Builds(c, p, q)
  <2>1. /\ kstack' \in [Slots -> BOOLEAN] /\ pc' \in [Slots -> PCs]
    BY <1>2, Typed DEF TypeOK, PCs, Preemptible, Switched
  <2>2. QED BY <2>1, <1>1, <1>2, <1>v, Typed DEF Builds, Preemptible, TypeOK
<1>4. ThreadOK(q)'
  BY <1>v, <1>1, <1>2 DEF ThreadOK, Live
<1>5. ForkOK(p)'
  <2>1. at(p)' = "fork_copy" BY <1>v DEF at
  <2>2. QED BY <2>1, <1>v, <1>1, <1>2 DEF ForkOK, InFork
<1>6. SlotOK(q)'
  BY <1>1, <1>2 DEF SlotOK
<1>7. FamilyOK(q)'
  BY <1>1, <1>2 DEF FamilyOK, Live
<1>8. QED BY <1>3, <1>4, <1>5, <1>6, <1>7, BuildsInv

\* allocproc() giving the slot back without the lock preserves the invariant.
LEMMA AllocKstackFailsInv ==
  ASSUME IInv, NEW c \in Cpus, NEW p \in Slots, AllocKstackFails(c, p)
  PROVE  IInv'
<1>1. PICK q \in Slots :
      /\ q = np[p] /\ q # 0 /\ q # p /\ NewSlot(p, q) /\ state[q] = "EMBRYO" /\ chan[q] = 0
      /\ ~kstack[q] /\ pgdir[q] # "live" /\ parent[q] = 0 /\ pc[q] = "none"
      /\ Runs(c, p) /\ pc[p] = "fork_kstack" /\ state[p] = "RUNNING"
  BY ForkPoint DEF AllocKstackFails, InFork
<1>2. /\ state' = [state EXCEPT ![q] = "UNUSED"]
      /\ pc' = [pc EXCEPT ![p] = "user"]
      /\ np' = [np EXCEPT ![p] = 0]
      /\ UNCHANGED <<pid, parent, chan, killed, kstack, pgdir, nextpid, resume, cpu>>
  BY <1>1 DEF AllocKstackFails
<1>v. /\ state'[q] = "UNUSED" /\ pc'[p] = "user" /\ pc'[q] = "none" /\ np'[p] = 0
      /\ \A r \in Slots \ {q} : state'[r] = state[r]
      /\ \A r \in Slots \ {p} : pc'[r] = pc[r] /\ np'[r] = np[r]
  BY <1>1, <1>2, Typed DEF TypeOK
<1>3. Builds(c, p, q)
  <2>1. /\ state' \in [Slots -> States] /\ pc' \in [Slots -> PCs] /\ np' \in [Slots -> Pointers]
    <3>1. state' \in [Slots -> States] BY <1>2, Typed DEF TypeOK, States
    <3>2. np' \in [Slots -> Pointers] BY <1>2, Typed DEF TypeOK
    <3>3. pc' \in [Slots -> PCs] BY <1>2, Typed DEF TypeOK, PCs, Preemptible
    <3>4. QED BY <3>1, <3>2, <3>3
  <2>2. QED BY <2>1, <1>1, <1>2, <1>v, Typed DEF Builds, Preemptible, TypeOK
<1>4. ThreadOK(q)'
  BY <1>v, <1>1, <1>2 DEF ThreadOK, Live
<1>5. ForkOK(p)'
  <2>1. at(p)' = "user" BY <1>v DEF at
  <2>2. QED BY <2>1, <1>v DEF ForkOK, InFork
<1>6. SlotOK(q)'
  BY <1>1, <1>2, <1>v DEF SlotOK
<1>7. FamilyOK(q)'
  BY <1>1, <1>2, <1>v DEF FamilyOK, Live
<1>8. QED BY <1>3, <1>4, <1>5, <1>6, <1>7, BuildsInv

\* fork() filling in the child without the lock preserves the invariant.
LEMMA ForkCopyInv ==
  ASSUME IInv, NEW c \in Cpus, NEW p \in Slots, ForkCopy(c, p)
  PROVE  IInv'
<1>1. PICK q \in Slots :
      /\ q = np[p] /\ q # 0 /\ q # p /\ NewSlot(p, q) /\ state[q] = "EMBRYO" /\ chan[q] = 0
      /\ kstack[q] /\ pc[q] = "forkret" /\ Runs(c, p) /\ pc[p] = "fork_copy"
      /\ state[p] = "RUNNING"
  BY ForkPoint DEF ForkCopy, InFork
<1>2. /\ pgdir' = [pgdir EXCEPT ![q] = "live"] /\ parent' = [parent EXCEPT ![q] = p]
      /\ pc' = [pc EXCEPT ![p] = "fork_publish"]
      /\ UNCHANGED <<state, pid, chan, killed, kstack, nextpid, resume, np, cpu>>
  BY <1>1 DEF ForkCopy
<1>v. /\ pgdir'[q] = "live" /\ parent'[q] = p /\ pc'[p] = "fork_publish" /\ pc'[q] = "forkret"
      /\ \A r \in Slots \ {q} : pgdir'[r] = pgdir[r] /\ parent'[r] = parent[r]
      /\ \A r \in Slots \ {p} : pc'[r] = pc[r]
  BY <1>1, <1>2, Typed DEF TypeOK
<1>3. Builds(c, p, q)
  <2>1. pgdir' \in [Slots -> {"null", "live", "freed"}] /\ parent' \in [Slots -> Pointers]
    BY <1>2, Typed DEF TypeOK
  <2>2. pc' \in [Slots -> PCs] BY <1>2, Typed DEF TypeOK, PCs, Preemptible
  <2>3. QED BY <2>1, <2>2, <1>1, <1>2, <1>v, Typed DEF Builds, Preemptible, TypeOK
<1>4. ThreadOK(q)'
  BY <1>v, <1>1, <1>2 DEF ThreadOK, Live
<1>5. ForkOK(p)'
  <2>1. at(p)' = "fork_publish" BY <1>v DEF at
  <2>2. QED BY <2>1, <1>v, <1>1, <1>2 DEF ForkOK, InFork
<1>6. SlotOK(q)'
  BY <1>1, <1>2 DEF SlotOK
<1>7. FamilyOK(q)'
  BY <1>1, <1>2, <1>v DEF FamilyOK, Live
<1>8. QED BY <1>3, <1>4, <1>5, <1>6, <1>7, BuildsInv

\* fork() undoing the child without the lock preserves the invariant.
LEMMA ForkCopyFailsInv ==
  ASSUME IInv, NEW c \in Cpus, NEW p \in Slots, ForkCopyFails(c, p)
  PROVE  IInv'
<1>1. PICK q \in Slots :
      /\ q = np[p] /\ q # 0 /\ q # p /\ NewSlot(p, q) /\ state[q] = "EMBRYO" /\ chan[q] = 0
      /\ parent[q] = 0 /\ Runs(c, p) /\ pc[p] = "fork_copy" /\ state[p] = "RUNNING"
  BY ForkPoint DEF ForkCopyFails, InFork
<1>2. /\ pgdir' = [pgdir EXCEPT ![q] = "null"] /\ kstack' = [kstack EXCEPT ![q] = FALSE]
      /\ state' = [state EXCEPT ![q] = "UNUSED"]
      /\ pc' = [pc EXCEPT ![p] = "user", ![q] = "none"]
      /\ np' = [np EXCEPT ![p] = 0]
      /\ UNCHANGED <<pid, parent, chan, killed, nextpid, resume, cpu>>
  BY <1>1 DEF ForkCopyFails
<1>v. /\ pgdir'[q] = "null" /\ ~kstack'[q] /\ state'[q] = "UNUSED"
      /\ pc'[p] = "user" /\ pc'[q] = "none" /\ np'[p] = 0
  BY <1>1, <1>2, Typed DEF TypeOK
<1>w. /\ \A r \in Slots \ {q} : pgdir'[r] = pgdir[r] /\ kstack'[r] = kstack[r] /\ state'[r] = state[r]
      /\ \A r \in Slots \ {p, q} : pc'[r] = pc[r]
      /\ \A r \in Slots \ {p} : np'[r] = np[r]
  BY <1>2, Typed DEF TypeOK
<1>3. Builds(c, p, q)
  <2>1. pgdir' \in [Slots -> {"null", "live", "freed"}] /\ kstack' \in [Slots -> BOOLEAN]
    BY <1>2, Typed DEF TypeOK
  <2>2. state' \in [Slots -> States] /\ np' \in [Slots -> Pointers]
    BY <1>2, Typed DEF TypeOK, States
  <2>3. pc' \in [Slots -> PCs] BY <1>2, Typed DEF TypeOK, PCs, Preemptible
  <2>4. QED BY <2>1, <2>2, <2>3, <1>1, <1>2, <1>v, <1>w, Typed DEF Builds, Preemptible, TypeOK
<1>4. ThreadOK(q)'
  BY <1>v, <1>1, <1>2 DEF ThreadOK, Live
<1>5. ForkOK(p)'
  <2>1. at(p)' = "user" BY <1>v DEF at
  <2>2. QED BY <2>1, <1>v DEF ForkOK, InFork
<1>6. SlotOK(q)'
  BY <1>1, <1>2, <1>v DEF SlotOK
<1>7. FamilyOK(q)'
  BY <1>1, <1>2, <1>v DEF FamilyOK, Live
<1>8. QED BY <1>3, <1>4, <1>5, <1>6, <1>7, BuildsInv

\* fork() making the child RUNNABLE preserves the invariant.
LEMMA ForkPublishInv ==
  ASSUME IInv, NEW c \in Cpus, NEW p \in Slots, ForkPublish(c, p)
  PROVE  IInv'
<1>1. PICK q \in Slots :
      /\ q = np[p] /\ q # 0 /\ q # p /\ NewSlot(p, q) /\ state[q] = "EMBRYO" /\ chan[q] = 0
      /\ kstack[q] /\ pgdir[q] = "live" /\ parent[q] = p /\ pc[q] = "forkret"
      /\ Runs(c, p) /\ pc[p] = "fork_publish" /\ state[p] = "RUNNING"
  BY ForkPoint DEF ForkPublish, InFork
<1>2. /\ state' = [state EXCEPT ![q] = "RUNNABLE"]
      /\ pc' = [pc EXCEPT ![p] = "user"]
      /\ np' = [np EXCEPT ![p] = 0]
      /\ UNCHANGED <<pid, parent, chan, killed, kstack, pgdir, nextpid, resume, cpu>>
  BY <1>1 DEF ForkPublish
<1>v. /\ state'[q] = "RUNNABLE" /\ state'[p] = "RUNNING"
      /\ pc'[p] = "user" /\ pc'[q] = "forkret" /\ np'[p] = 0
      /\ \A r \in Slots \ {q} : state'[r] = state[r]
      /\ \A r \in Slots \ {p} : pc'[r] = pc[r] /\ np'[r] = np[r]
  BY <1>1, <1>2, Typed DEF TypeOK
<1>3. Builds(c, p, q)
  <2>1. state' \in [Slots -> States] /\ np' \in [Slots -> Pointers]
    BY <1>2, Typed DEF TypeOK, States
  <2>2. pc' \in [Slots -> PCs] BY <1>2, Typed DEF TypeOK, PCs, Preemptible
  <2>3. QED BY <2>1, <2>2, <1>1, <1>2, <1>v, Typed DEF Builds, Preemptible, TypeOK
<1>4. ThreadOK(q)'
  BY <1>v, <1>1, <1>2 DEF ThreadOK, Switched, Live
<1>5. ForkOK(p)'
  <2>1. at(p)' = "user" BY <1>v DEF at
  <2>2. QED BY <2>1, <1>v DEF ForkOK, InFork
<1>6. SlotOK(q)'
  BY <1>v DEF SlotOK
<1>7. FamilyOK(q)'
  BY <1>1, <1>2, <1>v DEF FamilyOK, Live
<1>8. QED BY <1>3, <1>4, <1>5, <1>6, <1>7, BuildsInv

=============================================================================
