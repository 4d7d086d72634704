-------------------------------- MODULE Lines --------------------------------
(***************************************************************************)
(* What the console's input promises (console.c): characters are edited in *)
(* a line of their own until the line is ended, by a newline, an end of    *)
(* file or because there is no room for more; what has been ended is given *)
(* to the reads in order, each character once, a read ending with the line *)
(* or before the end of file.                                              *)
(***************************************************************************)
EXTENDS Integers, Sequences, SequencesExt, FiniteSets

CONSTANTS Readers, Chars, Newline, EndOfFile, Room

VARIABLES
  ready,   \* ended and not read yet
  line,    \* being edited
  wants,   \* wants[p]: how much the read of p asks for; 0 if there is none
  got      \* got[p]: what the present or the last read of p has got

vars == <<ready, line, wants, got>>

Init ==
  /\ ready = <<>> /\ line = <<>>
  /\ wants = [p \in Readers |-> 0]
  /\ got = [p \in Readers |-> <<>>]

Type(c) ==
  /\ Len(ready) + Len(line) < Room
  /\ IF c \in {Newline, EndOfFile} \/ Len(ready) + Len(line) = Room - 1
     THEN ready' = ready \o Append(line, c) /\ line' = <<>>
     ELSE line' = Append(line, c) /\ UNCHANGED ready
  /\ UNCHANGED <<wants, got>>

Erase == line # <<>> /\ line' = Front(line) /\ UNCHANGED <<ready, wants, got>>

KillLine == line' = <<>> /\ UNCHANGED <<ready, wants, got>>

Read(p, n) ==
  /\ wants[p] = 0
  /\ wants' = [wants EXCEPT ![p] = n]
  /\ got' = [got EXCEPT ![p] = <<>>]
  /\ UNCHANGED <<ready, line>>

\* A read takes the next k characters, none after a newline, and goes on, is
\* done, or finds the end of file, which it takes if it got nothing.
Take(p, k) ==
  LET more == got[p] \o SubSeq(ready, 1, k)
      done == Len(more) = wants[p] \/ (k > 0 /\ ready[k] = Newline)
      end  == ~done /\ k < Len(ready)
  IN  /\ wants[p] > 0 /\ Len(more) <= wants[p]
      /\ \A i \in 1..k : ready[i] # EndOfFile /\ (ready[i] = Newline => i = k)
      /\ end => ready[k + 1] = EndOfFile
      /\ ready' = SubSeq(ready, (IF end /\ more = <<>> THEN 2 ELSE k + 1), Len(ready))
      /\ got' = [got EXCEPT ![p] = more]
      /\ wants' = [wants EXCEPT ![p] = IF done \/ end THEN 0 ELSE @]
      /\ UNCHANGED line

\* The read of a process that is killed is given up when there is nothing to read.
GiveUp(p) ==
  /\ ready = <<>> /\ wants[p] > 0
  /\ wants' = [wants EXCEPT ![p] = 0]
  /\ UNCHANGED <<ready, line, got>>

Next ==
  \/ \E c \in Chars : Type(c)
  \/ Erase
  \/ KillLine
  \/ \E p \in Readers : \/ \E n \in 1..(Room + 1) : Read(p, n)
                        \/ \E k \in 0..Len(ready) : Take(p, k)
                        \/ GiveUp(p)

Spec == Init /\ [][Next]_vars

=============================================================================
