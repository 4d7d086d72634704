----------------------------- MODULE PipeProofs -----------------------------
(***************************************************************************)
(* Proofs about Pipe, for every set of processes, every size of the ring   *)
(* and every range of its counters: nobody uses a pipe that has been       *)
(* freed, no wakeup is lost, and the ring is a bounded queue.              *)
(***************************************************************************)
EXTENDS Pipe, SequenceTheorems, TLAPS

Reading == {"readLock", "read", "readSleep", "readAsleep", "copy"}
Writing == {"writeLock", "write", "writeSleep", "writeAsleep"}

\* Who is in a call has the end it uses, and who closes an end is the last one
\* that had it, and the only one that closes it.
EndsInv ==
  /\ freed <=> readopen = 0 /\ writeopen = 0
  /\ readers # {} => readopen = 1
  /\ writers # {} => writeopen = 1
  /\ \A p \in Procs :
       /\ pc[p] \in Reading => p \in readers
       /\ pc[p] \in Writing => p \in writers
       /\ pc[p] = "closeRead" => readers = {} /\ readopen = 1
       /\ pc[p] = "closeWrite" => writers = {} /\ writeopen = 1
  /\ \A p, q \in Procs : pc[p] = pc[q] /\ pc[p] \in {"closeRead", "closeWrite"} => p = q

\* Who is about to sleep has a reason to as long as it has the lock; who sleeps
\* has one, or the process with the lock will wake it before it gives the lock up.
SleepInv ==
  \A p \in Procs :
    /\ pc[p] = "readSleep" => Empty /\ writeopen = 1
    /\ pc[p] = "writeSleep" => Full /\ readopen = 1
    /\ pc[p] = "readAsleep" =>
         abandoned \/ (Empty /\ writeopen = 1) \/ (\E q \in Procs : pc[q] = "write")
    /\ pc[p] = "writeAsleep" =>
         (Full /\ readopen = 1) \/ (\E q \in Procs : pc[q] = "copy")

IInv == TypeOK /\ EndsInv /\ SleepInv

-----------------------------------------------------------------------------
\* The initial state satisfies the invariant.
LEMMA InitInv == Init => IInv
  <1> SUFFICES ASSUME Init PROVE IInv
    OBVIOUS
  <1> USE PipeAssumption
  <1>1. TypeOK
    <2>1. data \in [0..(PIPESIZE - 1) -> Bytes]
      BY DEF Init
    <2>2. killed \in [Procs -> BOOLEAN] /\ abandoned \in BOOLEAN /\ freed \in BOOLEAN
      BY Zenon DEF Init
    <2>3. \A p \in Procs : lock = p <=> pc[p] \in Locked
      BY DEF Init, Locked
    <2> QED BY <2>1, <2>2, <2>3 DEF Init, TypeOK
  <1>2. EndsInv
    BY DEF Init, EndsInv, Reading, Writing
  <1>3. SleepInv
    BY DEF Init, SleepInv
  <1> QED BY <1>1, <1>2, <1>3 DEF IInv

-----------------------------------------------------------------------------
\* Every step keeps the types, and the lock with the process whose code holds it.
LEMMA TypeStep == ASSUME IInv, Next PROVE TypeOK'
  <1> USE PipeAssumption DEF IInv
  <1>1. PICK p \in Procs :
          \/ acquire(p) \/ Goes(p) \/ pipeclose(p)
          \/ \E k \in 1..MaxN : pipewrite(p, k) \/ piperead(p, k)
          \/ \E q \in Procs \ {p} : filedup(p, q)
          \/ CloseReader(p) \/ CloseWriter(p) \/ kill(p)
    BY DEF Next
  <1>2. CASE acquire(p)
    BY <1>2 DEF acquire, goto, pipe, TypeOK, Asleep, Spinning, Locked
  <1>3. CASE sleep(p)
    BY <1>3 DEF sleep, goto, pipe, TypeOK, Asleep, Spinning, Locked
  <1>4. CASE WriteByte(p)
    BY <1>4 DEF WriteByte, TypeOK, Asleep, Spinning, Locked
  <1>5. CASE WriteFails(p)
    BY <1>5 DEF WriteFails, return, goto, pipe, TypeOK, Asleep, Spinning, Locked
  <1>6. CASE WriteWaits(p)
    BY <1>6 DEF WriteWaits, goto, pipe, TypeOK, Asleep, Spinning, Locked
  <1>7. CASE WriteDone(p)
    BY <1>7 DEF WriteDone, return, goto, pipe, TypeOK, Asleep, Spinning, Locked
  <1>8. CASE ReadFails(p)
    BY <1>8 DEF ReadFails, return, goto, pipe, TypeOK, Asleep, Spinning, Locked
  <1>9. CASE ReadWaits(p)
    BY <1>9 DEF ReadWaits, goto, pipe, TypeOK, Asleep, Spinning, Locked
  <1>10. CASE ReadStarts(p)
    BY <1>10 DEF ReadStarts, goto, pipe, TypeOK, Asleep, Spinning, Locked
  <1>11. CASE ReadByte(p)
    BY <1>11 DEF ReadByte, TypeOK, Asleep, Spinning, Locked
  <1>12. CASE ReadDone(p)
    BY <1>12 DEF ReadDone, return, goto, pipe, TypeOK, Asleep, Spinning, Locked
  <1>13. CASE pipeclose(p)
    <2>1. freed' \in BOOLEAN
      BY <1>13, Zenon DEF pipeclose
    <2>2. {readopen', writeopen'} \subseteq {0, 1}
      BY <1>13 DEF pipeclose, TypeOK
    <2>3. /\ pc' \in [Procs -> {"user"} \cup Asleep \cup Spinning \cup Locked]
          /\ \A q \in Procs : lock' = q <=> pc'[q] \in Locked
      BY <1>13 DEF pipeclose, goto, TypeOK, Asleep, Spinning, Locked
    <2>4. UNCHANGED <<data, nread, nwrite, lock, readers, writers, n, killed, abandoned>>
      BY <1>13, Zenon DEF pipeclose
    <2> QED BY <2>1, <2>2, <2>3, <2>4 DEF TypeOK
  <1>14. CASE \E k \in 1..MaxN : pipewrite(p, k) \/ piperead(p, k)
    <2>1. PICK k \in 1..MaxN : pipewrite(p, k) \/ piperead(p, k)
      BY <1>14
    <2>2. CASE pipewrite(p, k)
      BY <2>2 DEF pipewrite, goto, pipe, TypeOK, Asleep, Spinning, Locked
    <2>3. CASE piperead(p, k)
      BY <2>3 DEF piperead, goto, pipe, TypeOK, Asleep, Spinning, Locked
    <2> QED BY <2>1, <2>2, <2>3
  <1>15. CASE \E q \in Procs \ {p} : filedup(p, q)
    <2>1. readers' \subseteq Procs /\ writers' \subseteq Procs
      BY <1>15 DEF filedup, TypeOK
    <2>2. killed' \in [Procs -> BOOLEAN]
      BY <1>15, Zenon DEF filedup, TypeOK
    <2>3. UNCHANGED <<data, nread, nwrite, readopen, writeopen, freed, lock, pc, n, abandoned>>
      BY <1>15, Zenon DEF filedup, pipe
    <2> QED BY <2>1, <2>2, <2>3 DEF TypeOK
  <1>16. CASE CloseReader(p)
    BY <1>16 DEF CloseReader, goto, pipe, TypeOK, Asleep, Spinning, Locked
  <1>17. CASE CloseWriter(p)
    BY <1>17 DEF CloseWriter, goto, pipe, TypeOK, Asleep, Spinning, Locked
  <1>18. CASE kill(p)
    BY <1>18 DEF kill, goto, pipe, TypeOK, Asleep, Spinning, Locked
  <1> QED BY <1>1, <1>2, <1>3, <1>4, <1>5, <1>6, <1>7, <1>8, <1>9, <1>10, <1>11, <1>12,
             <1>13, <1>14, <1>15, <1>16, <1>17, <1>18 DEF Goes
-----------------------------------------------------------------------------
\* Every step keeps the ends with the processes that use them.
LEMMA EndsStep == ASSUME IInv, Next PROVE EndsInv'
  <1> USE PipeAssumption DEF IInv
  <1>1. PICK p \in Procs :
          \/ acquire(p) \/ Goes(p) \/ pipeclose(p)
          \/ \E k \in 1..MaxN : pipewrite(p, k) \/ piperead(p, k)
          \/ \E q \in Procs \ {p} : filedup(p, q)
          \/ CloseReader(p) \/ CloseWriter(p) \/ kill(p)
    BY DEF Next
  <1>2. CASE acquire(p)
    BY <1>2 DEF acquire, goto, pipe, TypeOK, Locked, EndsInv, Reading, Writing
  <1>3. CASE sleep(p)
    BY <1>3 DEF sleep, goto, pipe, TypeOK, Locked, EndsInv, Reading, Writing
  <1>4. CASE WriteByte(p)
    BY <1>4 DEF WriteByte, TypeOK, Locked, EndsInv, Reading, Writing
  <1>5. CASE WriteFails(p)
    BY <1>5 DEF WriteFails, return, goto, pipe, TypeOK, Locked, EndsInv, Reading, Writing
  <1>6. CASE WriteWaits(p)
    BY <1>6 DEF WriteWaits, goto, pipe, TypeOK, Locked, EndsInv, Reading, Writing
  <1>7. CASE WriteDone(p)
    BY <1>7 DEF WriteDone, return, goto, pipe, TypeOK, Locked, EndsInv, Reading, Writing
  <1>8. CASE ReadFails(p)
    BY <1>8 DEF ReadFails, return, goto, pipe, TypeOK, Locked, EndsInv, Reading, Writing
  <1>9. CASE ReadWaits(p)
    BY <1>9 DEF ReadWaits, goto, pipe, TypeOK, Locked, EndsInv, Reading, Writing
  <1>10. CASE ReadStarts(p)
    BY <1>10 DEF ReadStarts, goto, pipe, TypeOK, Locked, EndsInv, Reading, Writing
  <1>11. CASE ReadByte(p)
    BY <1>11 DEF ReadByte, TypeOK, Locked, EndsInv, Reading, Writing
  <1>12. CASE ReadDone(p)
    BY <1>12 DEF ReadDone, return, goto, pipe, TypeOK, Locked, EndsInv, Reading, Writing
  <1>13. CASE pipeclose(p)
    <2>1. freed' <=> readopen' = 0 /\ writeopen' = 0
      BY <1>13, Zenon DEF pipeclose
    <2>2. UNCHANGED <<readers, writers>>
      BY <1>13, Zenon DEF pipeclose
    <2>3. CASE pc[p] = "closeWrite"
      <3>1. writeopen' = 0 /\ readopen' = readopen /\ goto(p, "user", {"readAsleep"})
        BY <1>13, <2>3 DEF pipeclose
      <3> QED BY <2>1, <2>2, <2>3, <3>1 DEF goto, TypeOK, EndsInv, Reading, Writing
    <2>4. CASE pc[p] = "closeRead"
      <3>1. readopen' = 0 /\ writeopen' = writeopen /\ goto(p, "user", {"writeAsleep"})
        BY <1>13, <2>4 DEF pipeclose
      <3> QED BY <2>1, <2>2, <2>4, <3>1 DEF goto, TypeOK, EndsInv, Reading, Writing
    <2> QED BY <1>13, <2>3, <2>4 DEF pipeclose
  <1>14. CASE \E k \in 1..MaxN : pipewrite(p, k)
    BY <1>14 DEF pipewrite, goto, pipe, TypeOK, Locked, EndsInv, Reading, Writing
  <1>15. CASE \E k \in 1..MaxN : piperead(p, k)
    BY <1>15 DEF piperead, goto, pipe, TypeOK, Locked, EndsInv, Reading, Writing
  <1>16. CASE \E q \in Procs \ {p} : filedup(p, q)
    BY <1>16 DEF filedup, pipe, TypeOK, Locked, EndsInv, Reading, Writing
  <1>17. CASE CloseReader(p)
    BY <1>17 DEF CloseReader, goto, pipe, TypeOK, Locked, EndsInv, Reading, Writing
  <1>18. CASE CloseWriter(p)
    BY <1>18 DEF CloseWriter, goto, pipe, TypeOK, Locked, EndsInv, Reading, Writing
  <1>19. CASE kill(p)
    BY <1>19 DEF kill, goto, pipe, TypeOK, Locked, EndsInv, Reading, Writing
  <1> QED BY <1>1, <1>2, <1>3, <1>4, <1>5, <1>6, <1>7, <1>8, <1>9, <1>10, <1>11, <1>12, <1>13, <1>14, <1>15, <1>16, <1>17, <1>18, <1>19 DEF Goes
-----------------------------------------------------------------------------
\* Every step leaves who sleeps with a reason to.
LEMMA SleepStep == ASSUME IInv, Next PROVE SleepInv'
  <1> USE PipeAssumption DEF IInv
  <1>1. PICK p \in Procs :
          \/ acquire(p) \/ Goes(p) \/ pipeclose(p)
          \/ \E k \in 1..MaxN : pipewrite(p, k) \/ piperead(p, k)
          \/ \E q \in Procs \ {p} : filedup(p, q)
          \/ CloseReader(p) \/ CloseWriter(p) \/ kill(p)
    BY DEF Next
  <1>2. CASE acquire(p)
    BY <1>2 DEF acquire, goto, pipe, TypeOK, Locked, SleepInv, Empty, Full
  <1>3. CASE sleep(p)
    BY <1>3 DEF sleep, goto, pipe, TypeOK, Locked, SleepInv, Empty, Full
  <1>4. CASE WriteByte(p)
    BY <1>4 DEF WriteByte, TypeOK, Locked, SleepInv, Empty, Full
  <1>5. CASE WriteFails(p)
    BY <1>5 DEF WriteFails, return, goto, pipe, TypeOK, Locked, SleepInv, Empty, Full
  <1>6. CASE WriteWaits(p)
    BY <1>6 DEF WriteWaits, goto, pipe, TypeOK, Locked, SleepInv, Empty, Full
  <1>7. CASE WriteDone(p)
    BY <1>7 DEF WriteDone, return, goto, pipe, TypeOK, Locked, SleepInv, Empty, Full
  <1>8. CASE ReadFails(p)
    BY <1>8 DEF ReadFails, return, goto, pipe, TypeOK, Locked, SleepInv, Empty, Full
  <1>9. CASE ReadWaits(p)
    BY <1>9 DEF ReadWaits, goto, pipe, TypeOK, Locked, SleepInv, Empty, Full
  <1>10. CASE ReadStarts(p)
    BY <1>10 DEF ReadStarts, goto, pipe, TypeOK, Locked, SleepInv, Empty, Full
  <1>11. CASE ReadByte(p)
    BY <1>11 DEF ReadByte, TypeOK, Locked, SleepInv, Empty, Full
  <1>12. CASE ReadDone(p)
    BY <1>12 DEF ReadDone, return, goto, pipe, TypeOK, Locked, SleepInv, Empty, Full
  <1>13. CASE pipeclose(p)
    BY <1>13 DEF pipeclose, goto, TypeOK, Locked, SleepInv, Empty, Full
  <1>14. CASE \E k \in 1..MaxN : pipewrite(p, k)
    BY <1>14 DEF pipewrite, goto, pipe, TypeOK, Locked, SleepInv, Empty, Full
  <1>15. CASE \E k \in 1..MaxN : piperead(p, k)
    BY <1>15 DEF piperead, goto, pipe, TypeOK, Locked, SleepInv, Empty, Full
  <1>16. CASE \E q \in Procs \ {p} : filedup(p, q)
    BY <1>16 DEF filedup, pipe, TypeOK, Locked, SleepInv, Empty, Full
  <1>17. CASE CloseReader(p)
    BY <1>17 DEF CloseReader, goto, pipe, TypeOK, Locked, SleepInv, Empty, Full
  <1>18. CASE CloseWriter(p)
    BY <1>18 DEF CloseWriter, goto, pipe, TypeOK, Locked, SleepInv, Empty, Full
  <1>19. CASE kill(p)
    BY <1>19 DEF kill, goto, pipe, TypeOK, Locked, SleepInv, Empty, Full
  <1> QED BY <1>1, <1>2, <1>3, <1>4, <1>5, <1>6, <1>7, <1>8, <1>9, <1>10, <1>11, <1>12, <1>13, <1>14, <1>15, <1>16, <1>17, <1>18, <1>19 DEF Goes

\* A stuttering step changes nothing that the invariant is about.
LEMMA StepInv == ASSUME IInv, [Next]_vars PROVE IInv'
  <1>1. CASE Next
    BY <1>1, TypeStep, EndsStep, SleepStep DEF IInv
  <1>2. CASE UNCHANGED vars
    <2>1. TypeOK'
      BY <1>2, Zenon DEF IInv, TypeOK, vars
    <2>2. EndsInv'
      BY <1>2 DEF IInv, EndsInv, vars
    <2>3. SleepInv'
      BY <1>2 DEF IInv, SleepInv, Empty, Full, vars
    <2> QED BY <2>1, <2>2, <2>3 DEF IInv
  <1> QED BY <1>1, <1>2

\* The ends of the pipe and the reasons of the sleepers are invariants, whatever
\* reads, writes, forks, closes and kills come in whatever order.
THEOREM Invariance == Spec => []IInv
  BY InitInv, StepInv, PTL DEF Spec

\* The pipe is freed with the last of its ends, and nobody is in its code or has
\* an end of it from then on (pipeclose, fileclose).
THEOREM FreedLastHolds == Spec => []FreedLast
  <1>1. IInv => FreedLast
    BY DEF IInv, TypeOK, EndsInv, FreedLast, Reading, Writing, Asleep, Spinning, Locked
  <1> QED BY <1>1, Invariance, PTL

\* No wakeup of piperead, pipewrite or pipeclose is lost.
THEOREM SleepsForAReasonHolds == Spec => []SleepsForAReason
  <1>1. IInv => SleepsForAReason
    BY PipeAssumption DEF IInv, TypeOK, SleepInv, SleepsForAReason, Locked
  <1> QED BY <1>1, Invariance, PTL

-----------------------------------------------------------------------------
(* The counters.                                                            *)

\* The remainder is the one number below b that differs from a by a multiple of b.
LEMMA ModUnique ==
  ASSUME NEW a \in Int, NEW b \in Nat \ {0}, NEW k \in Int, NEW r \in 0..(b - 1),
         a = b * k + r
  PROVE  a % b = r
  <1> DEFINE q == a \div b
             s == a % b
  <1>1. q \in Int /\ s \in 0..(b - 1) /\ a = b * q + s
    OBVIOUS
  <1> HIDE DEF q, s
  <1>2. b * (q - k) = r - s
    BY <1>1
  <1>3. ~(q - k >= 1)
    <2> SUFFICES ASSUME q - k >= 1 PROVE FALSE
      OBVIOUS
    <2>1. b * (q - k) >= b
      BY <1>1
    <2> QED BY <1>1, <1>2, <2>1
  <1>4. ~(q - k <= -1)
    <2> SUFFICES ASSUME q - k <= -1 PROVE FALSE
      OBVIOUS
    <2>1. b * (q - k) <= -b
      BY <1>1
    <2> QED BY <1>1, <1>2, <2>1
  <1>5. q = k
    BY <1>1, <1>3, <1>4
  <1>6. s = r
    BY <1>1, <1>2, <1>5
  <1> QED BY <1>6 DEF s

\* One turn of the counters more or less does not change the remainder.
LEMMA ModPeriod ==
  ASSUME NEW x \in Int
  PROVE  (x + Wrap) % PIPESIZE = x % PIPESIZE
  <1> USE PipeAssumption
  <1> DEFINE q == x \div PIPESIZE
             w == Wrap \div PIPESIZE
             r == x % PIPESIZE
  <1>1. q \in Int /\ r \in 0..(PIPESIZE - 1) /\ x = PIPESIZE * q + r
    OBVIOUS
  <1>2. w \in Int /\ Wrap = PIPESIZE * w
    OBVIOUS
  <1> HIDE DEF q, w, r
  <1>3. x + Wrap = PIPESIZE * (q + w) + r
    BY <1>1, <1>2
  <1>4. (x + Wrap) % PIPESIZE = r
    BY <1>1, <1>2, <1>3, ModUnique
  <1> QED BY <1>4 DEF r

\* Two places less than a round of the ring apart are different places.
LEMMA ModDiffer ==
  ASSUME NEW x \in Int, NEW m \in 1..(PIPESIZE - 1)
  PROVE  x % PIPESIZE # (x + m) % PIPESIZE
  <1> USE PipeAssumption
  <1> DEFINE q == x \div PIPESIZE
             t == (x + m) \div PIPESIZE
             r == x % PIPESIZE
  <1> SUFFICES ASSUME (x + m) % PIPESIZE = r PROVE FALSE
    OBVIOUS
  <1>1. q \in Int /\ r \in Int /\ x = PIPESIZE * q + r
    OBVIOUS
  <1>2. t \in Int /\ x + m = PIPESIZE * t + r
    OBVIOUS
  <1> HIDE DEF q, t, r
  <1>3. m = PIPESIZE * (t - q)
    BY <1>1, <1>2
  <1>4. CASE t - q >= 1
    <2>1. PIPESIZE * (t - q) >= PIPESIZE
      BY <1>1, <1>2, <1>4
    <2> QED BY <1>3, <2>1
  <1>5. CASE t - q <= 0
    <2>1. PIPESIZE * (t - q) <= 0
      BY <1>1, <1>2, <1>5
    <2> QED BY <1>3, <2>1
  <1> QED BY <1>1, <1>2, <1>4, <1>5

\* A counter less than one turn out of range is brought back by one turn.
LEMMA WrapOnce ==
  ASSUME NEW x \in (-Wrap)..(2 * Wrap - 1)
  PROVE  x % Wrap = IF x < 0 THEN x + Wrap ELSE IF x < Wrap THEN x ELSE x - Wrap
  <1> USE PipeAssumption
  <1>1. CASE x < 0
    <2>1. x = Wrap * (-1) + (x + Wrap) /\ x + Wrap \in 0..(Wrap - 1)
      BY <1>1
    <2> QED BY <1>1, <2>1, ModUnique
  <1>2. CASE x >= 0 /\ x < Wrap
    <2>1. x = Wrap * 0 + x /\ x \in 0..(Wrap - 1)
      BY <1>2
    <2> QED BY <1>2, <2>1, ModUnique
  <1>3. CASE x >= Wrap
    <2>1. x = Wrap * 1 + (x - Wrap) /\ x - Wrap \in 0..(Wrap - 1)
      BY <1>3
    <2> QED BY <1>3, <2>1, ModUnique
  <1> QED BY <1>1, <1>2, <1>3

-----------------------------------------------------------------------------
(* The ring is a queue.                                                     *)

\* How many bytes are in the ring, and that they fit.
Length == (nwrite - nread) % Wrap
QueueInv == Length <= PIPESIZE

\* The tests for a full and for an empty pipe are exact, and the writer's place
\* in the ring is the one after the last byte.
LEMMA LengthFacts ==
  ASSUME TypeOK, QueueInv
  PROVE  /\ Length \in 0..PIPESIZE
         /\ Full <=> Length = PIPESIZE
         /\ Empty <=> Length = 0
         /\ nwrite % PIPESIZE = (nread + Length) % PIPESIZE
  <1> USE PipeAssumption
  <1>1. nread \in 0..(Wrap - 1) /\ nwrite \in 0..(Wrap - 1)
    BY DEF TypeOK
  <1>2. Length = IF nwrite < nread THEN nwrite - nread + Wrap ELSE nwrite - nread
    BY <1>1, WrapOnce DEF Length
  <1>3. (nread + PIPESIZE) % Wrap =
          IF nread + PIPESIZE < Wrap THEN nread + PIPESIZE ELSE nread + PIPESIZE - Wrap
    BY <1>1, WrapOnce
  <1>4. Length \in 0..PIPESIZE
    BY <1>1, <1>2 DEF QueueInv
  <1>5. Full <=> Length = PIPESIZE
    BY <1>1, <1>2, <1>3, <1>4 DEF Full
  <1>6. Empty <=> Length = 0
    BY <1>1, <1>2, <1>4 DEF Empty
  <1>7. nwrite % PIPESIZE = (nread + Length) % PIPESIZE
    <2>1. CASE nwrite < nread
      <3>1. nread + Length = nwrite + Wrap
        BY <1>1, <1>2, <2>1
      <3>2. nwrite \in Int
        BY <1>1
      <3>3. (nwrite + Wrap) % PIPESIZE = nwrite % PIPESIZE
        BY <3>2, ModPeriod
      <3> QED BY <3>1, <3>3
    <2>2. CASE ~(nwrite < nread)
      <3>1. nread + Length = nwrite
        BY <1>1, <1>2, <2>2
      <3> QED BY <3>1
    <2> QED BY <2>1, <2>2
  <1> QED BY <1>4, <1>5, <1>6, <1>7

\* The bytes in the ring are a sequence as long as the counters are apart.
LEMMA ContentsSeq ==
  ASSUME TypeOK, QueueInv
  PROVE  Contents \in Seq(Bytes) /\ Len(Contents) = Length
  <1> USE PipeAssumption
  <1>1. Length \in Nat
    BY LengthFacts
  <1>2. \A k \in 1..Length : data[(nread + k - 1) % PIPESIZE] \in Bytes
    <2> SUFFICES ASSUME NEW k \in 1..Length
                 PROVE  data[(nread + k - 1) % PIPESIZE] \in Bytes
      OBVIOUS
    <2>1. (nread + k - 1) % PIPESIZE \in 0..(PIPESIZE - 1)
      BY <1>1 DEF TypeOK
    <2> QED BY <2>1 DEF TypeOK
  <1>3. Contents = [k \in 1..Length |-> data[(nread + k - 1) % PIPESIZE]]
    BY DEF Contents, Length
  <1> HIDE DEF Length
  <1>4. Contents \in [1..Length -> Bytes]
    BY <1>2, <1>3
  <1> QED BY <1>1, <1>3, <1>4

\* A turn of pipewrite's loop appends one byte, and overwrites none.
LEMMA PutStep ==
  ASSUME TypeOK, TypeOK', QueueInv, NEW p \in Procs, WriteByte(p)
  PROVE  QueueInv' /\ F!Next
  <1> USE PipeAssumption
  <1>1. nread \in 0..(Wrap - 1) /\ nwrite \in 0..(Wrap - 1)
    BY DEF TypeOK
  <1>2. PICK v \in Bytes : data' = [data EXCEPT ![nwrite % PIPESIZE] = v]
    BY DEF WriteByte
  <1>3. nread' = nread /\ nwrite' = (nwrite + 1) % Wrap
    BY DEF WriteByte
  <1>4. Length < PIPESIZE /\ Length \in Nat
    BY LengthFacts DEF WriteByte
  <1>5. Length' = Length + 1
    <2>1. nwrite' = IF nwrite + 1 < Wrap THEN nwrite + 1 ELSE nwrite + 1 - Wrap
      BY <1>1, <1>3, WrapOnce
    <2>2. Length = IF nwrite < nread THEN nwrite - nread + Wrap ELSE nwrite - nread
      BY <1>1, WrapOnce DEF Length
    <2>3. nwrite' - nread \in (-Wrap)..(2 * Wrap - 1)
      BY <1>1, <2>1
    <2>4. (nwrite' - nread) % Wrap =
            IF nwrite' < nread THEN nwrite' - nread + Wrap ELSE nwrite' - nread
      BY <1>1, <2>1, <2>3, WrapOnce
    <2>5. Length' = (nwrite' - nread) % Wrap
      BY <1>3 DEF Length
    <2> QED BY <1>1, <1>4, <2>1, <2>2, <2>4, <2>5
  <1>6. QueueInv'
    BY <1>4, <1>5 DEF QueueInv
  <1>7. /\ Contents \in Seq(Bytes) /\ Len(Contents) = Length
        /\ Contents' \in Seq(Bytes) /\ Len(Contents') = Length + 1
    <2>1. TypeOK /\ QueueInv => Contents \in Seq(Bytes) /\ Len(Contents) = Length
      BY ContentsSeq
    <2>2. (TypeOK /\ QueueInv => Contents \in Seq(Bytes) /\ Len(Contents) = Length)'
      BY ContentsSeq, PTL
    <2> QED BY <1>5, <1>6, <2>1, <2>2
  <1>8. \A k \in 1..Length : Contents'[k] = Contents[k]
    <2> SUFFICES ASSUME NEW k \in 1..Length PROVE Contents'[k] = Contents[k]
      OBVIOUS
    <2> DEFINE i == (nread + k - 1) % PIPESIZE
    <2>1. i # (nread + Length) % PIPESIZE
      <3>1. nread + k - 1 \in Int /\ Length - k + 1 \in 1..(PIPESIZE - 1)
        BY <1>1, <1>4
      <3>2. (nread + k - 1) % PIPESIZE # ((nread + k - 1) + (Length - k + 1)) % PIPESIZE
        BY <3>1, ModDiffer
      <3>3. (nread + k - 1) + (Length - k + 1) = nread + Length
        BY <1>1, <1>4
      <3> QED BY <3>2, <3>3
    <2>2. i # nwrite % PIPESIZE
      BY <2>1, LengthFacts
    <2>3. i \in 0..(PIPESIZE - 1)
      BY <1>1, <1>4
    <2>4. Contents[k] = data[i]
      BY DEF Contents, Length
    <2>5. Contents'[k] = data'[i]
      <3>1. k \in 1..Length'
        BY <1>4, <1>5
      <3> QED BY <1>3, <3>1 DEF Contents, Length
    <2> HIDE DEF i
    <2>6. data'[i] = data[i]
      BY <1>2, <2>2, <2>3 DEF TypeOK
    <2> QED BY <2>4, <2>5, <2>6
  <1>9. Contents'[Length + 1] = v
    <2>1. Length + 1 \in 1..Length'
      BY <1>4, <1>5
    <2>2. Contents'[Length + 1] = data'[(nread + (Length + 1) - 1) % PIPESIZE]
      BY <1>3, <2>1 DEF Contents, Length
    <2>3. nread + (Length + 1) - 1 = nread + Length
      BY <1>1, <1>4
    <2>4. (nread + Length) % PIPESIZE = nwrite % PIPESIZE
      BY LengthFacts
    <2>5. nwrite % PIPESIZE \in 0..(PIPESIZE - 1)
      BY <1>1
    <2>6. data'[nwrite % PIPESIZE] = v
      BY <1>2, <2>5 DEF TypeOK
    <2> QED BY <2>2, <2>3, <2>4, <2>6
  <1>10. Contents' = Append(Contents, v)
    BY <1>4, <1>7, <1>8, <1>9, AppendProperties, SeqEqual
  <1>11. F!Put(v)
    BY <1>4, <1>7, <1>10 DEF F!Put
  <1> QED BY <1>6, <1>11 DEF F!Next

\* A turn of piperead's copying loop takes the oldest byte.
LEMMA GetStep ==
  ASSUME TypeOK, TypeOK', QueueInv, NEW p \in Procs, ReadByte(p)
  PROVE  QueueInv' /\ F!Next
  <1> USE PipeAssumption
  <1>1. nread \in 0..(Wrap - 1) /\ nwrite \in 0..(Wrap - 1)
    BY DEF TypeOK
  <1>2. data' = data /\ nwrite' = nwrite /\ nread' = (nread + 1) % Wrap
    BY DEF ReadByte
  <1>3. Length > 0 /\ Length \in 0..PIPESIZE
    BY LengthFacts DEF ReadByte
  <1>4. nread' = IF nread + 1 < Wrap THEN nread + 1 ELSE nread + 1 - Wrap
    BY <1>1, <1>2, WrapOnce
  <1>5. Length' = Length - 1
    <2>1. Length = IF nwrite < nread THEN nwrite - nread + Wrap ELSE nwrite - nread
      BY <1>1, WrapOnce DEF Length
    <2>2. nwrite - nread' \in (-Wrap)..(2 * Wrap - 1)
      BY <1>1, <1>4
    <2>3. (nwrite - nread') % Wrap =
            IF nwrite < nread' THEN nwrite - nread' + Wrap ELSE nwrite - nread'
      BY <1>1, <1>4, <2>2, WrapOnce
    <2>4. Length' = (nwrite - nread') % Wrap
      BY <1>2 DEF Length
    <2> QED BY <1>1, <1>3, <1>4, <2>1, <2>3, <2>4
  <1>6. QueueInv'
    BY <1>3, <1>5 DEF QueueInv
  <1>7. /\ Contents \in Seq(Bytes) /\ Len(Contents) = Length
        /\ Contents' \in Seq(Bytes) /\ Len(Contents') = Length - 1
    <2>1. TypeOK /\ QueueInv => Contents \in Seq(Bytes) /\ Len(Contents) = Length
      BY ContentsSeq
    <2>2. (TypeOK /\ QueueInv => Contents \in Seq(Bytes) /\ Len(Contents) = Length)'
      BY ContentsSeq, PTL
    <2> QED BY <1>5, <1>6, <2>1, <2>2
  <1>8. \A k \in 1..(Length - 1) : Contents'[k] = Contents[k + 1]
    <2> SUFFICES ASSUME NEW k \in 1..(Length - 1) PROVE Contents'[k] = Contents[k + 1]
      OBVIOUS
    <2>1. k + 1 \in 1..Length /\ k \in 1..Length'
      BY <1>3, <1>5
    <2>2. Contents[k + 1] = data[(nread + (k + 1) - 1) % PIPESIZE]
      BY <2>1 DEF Contents, Length
    <2>3. Contents'[k] = data[(nread' + k - 1) % PIPESIZE]
      BY <1>2, <2>1 DEF Contents, Length
    <2>4. nread + (k + 1) - 1 = nread + k
      BY <1>1
    <2>5. (nread' + k - 1) % PIPESIZE = (nread + k) % PIPESIZE
      <3>1. CASE nread + 1 < Wrap
        <4>1. nread' + k - 1 = nread + k
          BY <1>1, <1>4, <3>1
        <4> QED BY <4>1
      <3>2. CASE ~(nread + 1 < Wrap)
        <4>1. nread' + k - 1 \in Int /\ (nread' + k - 1) + Wrap = nread + k
          BY <1>1, <1>4, <3>2
        <4>2. ((nread' + k - 1) + Wrap) % PIPESIZE = (nread' + k - 1) % PIPESIZE
          BY <4>1, ModPeriod
        <4> QED BY <4>1, <4>2
      <3> QED BY <3>1, <3>2
    <2> QED BY <2>2, <2>3, <2>4, <2>5
  <1>9. Contents # <<>>
    BY <1>3, <1>7, EmptySeq
  <1>10. Contents' = Tail(Contents)
    BY <1>3, <1>7, <1>8, <1>9, HeadTailProperties, SeqEqual
  <1>11. F!Get
    BY <1>9, <1>10 DEF F!Get
  <1> QED BY <1>6, <1>11 DEF F!Next

\* Every other step leaves the bytes in the ring alone.
LEMMA OtherStep ==
  ASSUME UNCHANGED <<data, nread, nwrite>>
  PROVE  (QueueInv => QueueInv') /\ UNCHANGED Contents
  BY DEF QueueInv, Length, Contents

\* The pipe implements a bounded queue: bytes come out in the order they went in,
\* and none is lost, duplicated or overwritten, for every size of the ring and
\* every range of the counters that is a multiple of it.
THEOREM PipeIsFifo == Spec => IsFifo
  <1> USE PipeAssumption
  <1>1. Init => QueueInv /\ F!Init
    <2> SUFFICES ASSUME Init PROVE QueueInv /\ F!Init
      OBVIOUS
    <2>1. 0 \in (-Wrap)..(2 * Wrap - 1) /\ nwrite - nread = 0
      BY DEF Init
    <2>2. Length = 0
      BY <2>1, WrapOnce DEF Length
    <2>3. QueueInv
      BY <2>2 DEF QueueInv
    <2>4. Contents \in Seq(Bytes) /\ Len(Contents) = 0
      BY <2>2, <2>3, InitInv, ContentsSeq DEF IInv
    <2> QED BY <2>3, <2>4, EmptySeq DEF F!Init
  <1>2. IInv /\ IInv' /\ QueueInv /\ [Next]_vars => QueueInv' /\ [F!Next]_Contents
    <2> SUFFICES ASSUME IInv, IInv', QueueInv, [Next]_vars
                 PROVE  QueueInv' /\ [F!Next]_Contents
      OBVIOUS
    <2>1. CASE \E p \in Procs : WriteByte(p)
      BY <2>1, PutStep DEF IInv
    <2>2. CASE \E p \in Procs : ReadByte(p)
      BY <2>2, GetStep DEF IInv
    <2>3. CASE UNCHANGED <<data, nread, nwrite>>
      BY <2>3, OtherStep
    <2>4. \/ \E p \in Procs : WriteByte(p) \/ ReadByte(p)
          \/ UNCHANGED <<data, nread, nwrite>>
      BY Zenon DEF Next, vars, Goes, acquire, sleep, pipeclose, pipewrite, piperead, filedup,
             CloseReader, CloseWriter, kill, WriteFails, WriteWaits, WriteDone, ReadFails,
             ReadWaits, ReadStarts, ReadDone, pipe
    <2> QED BY <2>1, <2>2, <2>3, <2>4
  <1> QED BY <1>1, <1>2, Invariance, PTL DEF Spec, IsFifo, F!Spec
=============================================================================
