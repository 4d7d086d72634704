----------------------------- MODULE AtomicDisk -----------------------------
(***************************************************************************)
(* What log.c promises to the file system: the writes of the operations    *)
(* between two moments with no operation in progress reach the disk        *)
(* together or not at all, and a crash loses only what was not committed.  *)
(***************************************************************************)
CONSTANTS Procs, Blocks, Vals

VARIABLES
  current,  \* the blocks as the running operations see them
  durable,  \* the blocks as a crash and a recovery would leave them
  active    \* the processes between begin_op() and end_op()

vars == <<current, durable, active>>

Init ==
  /\ durable \in [Blocks -> Vals]
  /\ current = durable
  /\ active = {}

Begin(p) ==
  /\ p \notin active
  /\ active' = active \cup {p}
  /\ UNCHANGED <<current, durable>>

Write(p, b, v) ==
  /\ p \in active
  /\ current' = [current EXCEPT ![b] = v]
  /\ UNCHANGED <<durable, active>>

End(p) ==
  /\ p \in active
  /\ active' = active \ {p}
  /\ UNCHANGED <<current, durable>>

\* Everything written so far becomes durable at once, between operations.
Commit ==
  /\ active = {}
  /\ durable' = current
  /\ UNCHANGED <<current, active>>

Crash ==
  /\ current' = durable
  /\ active' = {}
  /\ UNCHANGED durable

Next ==
  \/ \E p \in Procs : Begin(p) \/ End(p)
  \/ \E p \in Procs, b \in Blocks, v \in Vals : Write(p, b, v)
  \/ Commit \/ Crash

Spec == Init /\ [][Next]_vars

=============================================================================
