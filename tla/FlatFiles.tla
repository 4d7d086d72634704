------------------------------ MODULE FlatFiles ------------------------------
(***************************************************************************)
(* What programs are promised of files: a file is a sequence of bytes, an  *)
(* open file a position in it, and a read returns what is at the position. *)
(***************************************************************************)
EXTENDS Integers, Sequences

CONSTANTS Inodes, Opens, Bytes, MaxSize

VARIABLES
  content,  \* the bytes of each file
  file,     \* the file that each open file is of
  pos,      \* its position
  got       \* what the latest step has read

flat == <<content, file, pos, got>>

Init ==
  /\ content = [i \in Inodes |-> <<>>]
  /\ file \in [Opens -> Inodes] /\ pos = [o \in Opens |-> 0]
  /\ got = <<>>

Open(o, i) ==
  /\ file' = [file EXCEPT ![o] = i] /\ pos' = [pos EXCEPT ![o] = 0]
  /\ got' = <<>> /\ UNCHANGED content

\* Bytes from the position on are replaced, or extend the file; the others stay.
Write(o, n) ==
  LET i == file[o]
      last == IF Len(content[i]) > pos[o] + n THEN Len(content[i]) ELSE pos[o] + n
  IN  /\ pos[o] <= Len(content[i]) /\ pos[o] + n <= MaxSize
      /\ \A j \in Inodes \ {i} : content'[j] = content[j]
      /\ Len(content'[i]) = last
      /\ \A k \in 1..last : IF k \in (pos[o] + 1)..(pos[o] + n) THEN content'[i][k] \in Bytes
                             ELSE content'[i][k] = content[i][k]
      /\ pos' = [pos EXCEPT ![o] = @ + n]
      /\ got' = <<>> /\ UNCHANGED file

Read(o, n) ==
  /\ pos[o] + n <= Len(content[file[o]])
  /\ got' = SubSeq(content[file[o]], pos[o] + 1, pos[o] + n)
  /\ pos' = [pos EXCEPT ![o] = @ + n]
  /\ UNCHANGED <<content, file>>

\* A file that is removed vanishes when it is not open any more; its inode may
\* become that of a new, empty file.
Vanish(i) == content' = [content EXCEPT ![i] = <<>>] /\ got' = <<>>

Close(o, i) ==
  /\ Vanish(file[o]) \/ (got' = <<>> /\ UNCHANGED content)
  /\ file' = [file EXCEPT ![o] = i] /\ pos' = [pos EXCEPT ![o] = 0]

Next ==
  \/ got' = <<>> /\ UNCHANGED <<content, file, pos>>
  \/ \E i \in Inodes :
       \/ Vanish(i) /\ UNCHANGED <<file, pos>>
       \/ \E o \in Opens : Open(o, i) \/ Close(o, i)
  \/ \E o \in Opens :
       \E n \in 0..MaxSize : Read(o, n) \/ Write(o, n)

Spec == Init /\ [][Next]_flat
=============================================================================
