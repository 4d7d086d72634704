------------------------------ MODULE BlockStore ------------------------------
(***************************************************************************)
(* What the buffer cache promises its callers (the head of bio.c): every   *)
(* block has one content, and one process at a time has the use of it.     *)
(***************************************************************************)
CONSTANTS Procs, None, Blocks, Values

VARIABLES
  content,  \* of each block
  user      \* the process that has the block, or None

Init ==
  /\ content \in [Blocks -> Values]
  /\ user = [k \in Blocks |-> None]

\* bread() returns the block.
Take(p, k) ==
  /\ user[k] = None
  /\ user' = [user EXCEPT ![k] = p]
  /\ UNCHANGED content

\* Its data is changed.
Put(p, k, v) ==
  /\ user[k] = p
  /\ content' = [content EXCEPT ![k] = v]
  /\ UNCHANGED user

\* brelse()
Give(p, k) ==
  /\ user[k] = p
  /\ user' = [user EXCEPT ![k] = None]
  /\ UNCHANGED content

Next ==
  \E p \in Procs, k \in Blocks :
    Take(p, k) \/ Give(p, k) \/ \E v \in Values : Put(p, k, v)

Spec == Init /\ [][Next]_<<content, user>>

=============================================================================
