-------------------------------- MODULE Fifo --------------------------------
(***************************************************************************)
(* What a pipe promises: a bounded queue of bytes.                         *)
(***************************************************************************)
EXTENDS Naturals, Sequences

CONSTANTS Bytes, Capacity

VARIABLE queue

Init == queue = <<>>

Put(v) ==
  /\ Len(queue) < Capacity
  /\ queue' = Append(queue, v)

Get ==
  /\ queue # <<>>
  /\ queue' = Tail(queue)

Next == Get \/ \E v \in Bytes : Put(v)

Spec == Init /\ [][Next]_queue

=============================================================================
