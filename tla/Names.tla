-------------------------------- MODULE Names --------------------------------
(***************************************************************************)
(* The inode cache and the directory tree (fs.c) under the system calls    *)
(* that work on path names (sysfile.c).                                    *)
(*                                                                         *)
(* A step runs from one acquisition of an inode's sleep-lock to the next;  *)
(* a lock taken and released within one step is not seen held.  What a     *)
(* file contains, and the transaction around each call, are left out.      *)
(***************************************************************************)
EXTENDS Integers, Sequences, FiniteSets, FiniteSetsExt

CONSTANTS
  Procs, None,  \* the processes, and "none" for a process or a slot
  NInodes,      \* sb.ninodes - 1: inodes are numbered from 1, ROOTINO
  NSlots,       \* NINODE: the slots of icache.inode
  Elems,        \* file names, "." and ".." aside
  MaxLinks,     \* a bound on nlink, for link()
  Programs      \* sets of calls [op, abs, path, toabs, to]: what is run at a time

Inums == 1..NInodes
Slots == 1..NSlots
Root == 1
AllElems == Elems \cup {".", ".."}
Ops == {"open", "openw", "create", "mkdir", "mknod", "link", "unlink", "chdir", "close"}
Types == {"free", "dir", "file", "dev"}

ASSUME NamesAssumption ==
  /\ NInodes \in Nat \ {0} /\ NSlots \in Nat \ {0}
  /\ None \notin Procs \cup Slots
  /\ \A c \in UNION Programs :
                      /\ c.op \in Ops
                      /\ c.path \in Seq(AllElems) /\ c.to \in Seq(AllElems)
                      /\ c.abs \in BOOLEAN /\ c.toabs \in BOOLEAN

VARIABLES
  dinode,    \* the inodes on the disk: type and nlink
  dir,       \* what is in the directory i: an inode, 0 if nothing, under each name
  icache,    \* struct inode: inum, ref, valid, type, nlink, and the holder of ip->lock
  cwd, file, \* the current directory and the open file (one at most) of a process
  calls,     \* what the programs that run call, one of Programs
  call,      \* the system call a process is in
  stray,     \* the inodes that got a name in a directory that had been removed
  panicked   \* what panic() said, "" while the kernel runs

vars == <<dinode, dir, icache, cwd, file, calls, call, stray, panicked>>

NoEntries == [n \in AllElems |-> 0]
Idle == [op |-> "none", pc |-> "idle", path |-> <<>>, toabs |-> FALSE, to |-> <<>>,
         parent |-> FALSE, name |-> ".", at |-> None, ip |-> None, dp |-> None,
         put |-> None, then |-> "", strayed |-> FALSE]

EmptySlot == [inum |-> 0, ref |-> 0, valid |-> FALSE, type |-> "free", nlink |-> 0, owner |-> None]

PCs == {"idle", "walk", "found", "unlinkIp", "unlinked", "notEmpty", "createIp", "exists",
        "created", "present", "cleanup", "iput", "free", "freed", "drop"}

SlotOrNone == Slots \cup {None}
TypeOK ==
  /\ dinode \in [Inums -> [type : Types, nlink : 0..(MaxLinks + NInodes)]]
  /\ dir \in [Inums -> [AllElems -> Inums \cup {0}]]
  /\ icache \in [Slots -> [inum : Inums \cup {0}, ref : Nat, valid : BOOLEAN,
                           type : Types, nlink : Nat, owner : Procs \cup {None}]]
  /\ cwd \in [Procs -> Slots] /\ file \in [Procs -> SlotOrNone]
  /\ \A p \in Procs : /\ call[p].pc \in PCs /\ call[p].op \in Ops \cup {"none"}
                      /\ {call[p].at, call[p].ip, call[p].dp, call[p].put} \subseteq SlotOrNone
  /\ stray \subseteq Inums /\ calls \in Programs

\* mkfs's disk with an empty root directory; every process starts in it, and init
\* (init.c) stays there.
Init ==
  /\ dinode = [i \in Inums |-> IF i = Root THEN [type |-> "dir", nlink |-> 1]
                                           ELSE [type |-> "free", nlink |-> 0]]
  /\ dir = [i \in Inums |-> IF i = Root THEN [NoEntries EXCEPT !["."] = Root, ![".."] = Root]
                                        ELSE NoEntries]
  /\ icache = [s \in Slots |-> IF s = 1 THEN [EmptySlot EXCEPT !.inum = Root, !.ref = Cardinality(Procs) + 1]
                                ELSE EmptySlot]
  /\ cwd = [p \in Procs |-> 1] /\ file = [p \in Procs |-> None]
  /\ call = [p \in Procs |-> Idle]
  /\ stray = {} /\ panicked = "" /\ calls \in Programs

-----------------------------------------------------------------------------
(* The inode cache, on a value c of icache. *)

Cached(c, i) == {s \in Slots : c[s].ref > 0 /\ c[s].inum = i}
Empty(c) == {s \in Slots : c[s].ref = 0}
igetSlot(c, i) == IF Cached(c, i) # {} THEN Min(Cached(c, i)) ELSE Min(Empty(c))
iget(c, i) ==
  LET s == igetSlot(c, i)
  IN  IF Cached(c, i) # {} THEN [c EXCEPT ![s].ref = @ + 1]
      ELSE [c EXCEPT ![s].inum = i, ![s].ref = 1, ![s].valid = FALSE,
                     ![s].type = "free", ![s].nlink = 0]
idup(c, s) == [c EXCEPT ![s].ref = @ + 1]

\* ilock() reads the inode unless it is valid, and iupdate() writes it through.
ilock(c, s) ==
  IF c[s].valid THEN c
  ELSE [c EXCEPT ![s].valid = TRUE, ![s].type = dinode[c[s].inum].type,
                 ![s].nlink = dinode[c[s].inum].nlink]
keep(c, s, p) == [c EXCEPT ![s].owner = p]
iunlock(c, s) == [c EXCEPT ![s].owner = None]
addLinks(c, s, n) == [c EXCEPT ![s].nlink = @ + n]

\* Mutants: the slot stays valid; ip stays locked; nothing is taken back.
forgetNothing(c, s) == c
countLocked(c, s, p) == keep(addLinks(c, s, 1), s, p)
takeNothing(c, s) == c

\* iget() of what an entry of the directory s says, with s locked by p
lockedIget(c, i, s, p) == keep(iget(c, i), s, p)
forget(c, s) == [c EXCEPT ![s].valid = FALSE]
unlinkOne(c, s) == addLinks(c, s, -1)
Linkable(t) == t # "dir"
count(c, s, p) == addLinks(c, s, 1)
takeBack(c, s) == addLinks(c, s, -1)
iupdate(d, c, s) == [d EXCEPT ![c[s].inum] = [type |-> c[s].type, nlink |-> c[s].nlink]]

\* The entry n of the directory in slot s, 0 if there is none; a new entry.
dirlookup(c, s, n) == dir[c[s].inum][n]
dirlink(e, d, n, i) == [e EXCEPT ![d][n] = i]

\* The inode a process locks in its next step, None if it locks none.
Wants(p) ==
  LET f == call[p]
  IN  CASE f.pc = "walk" -> f.at
        [] f.pc = "found" -> IF f.dp # None THEN f.dp ELSE f.ip
        [] f.pc \in {"unlinkIp", "createIp", "exists", "cleanup"} -> f.ip
        [] f.pc = "iput" -> f.put
        [] OTHER -> None

NoType(s) == ~icache[s].valid /\ dinode[icache[s].inum].type = "free"
at(p, l) == panicked = "" /\ call[p].pc = l
locks(p, l) == at(p, l) /\ icache[Wants(p)].owner = None
ilocks(p, l) == locks(p, l) /\ ~NoType(Wants(p))

-----------------------------------------------------------------------------
(* How a call goes on. *)

goto(p, f) == call' = [call EXCEPT ![p] = f]

\* iput(s), which leads to l; c is the cache by then, f the rest of the frame.
puts(p, f, s, l) == goto(p, [f EXCEPT !.pc = "iput", !.put = s, !.then = l])

\* The call fails before it has its directory: sys_link takes its count back.
failed(f) == IF f.op = "link" /\ f.ip # None THEN "cleanup" ELSE "idle"

\* namex() starts at the root or at the current directory.
namexAt(c, p, abs) == IF abs THEN igetSlot(c, Root) ELSE cwd[p]
namexRef(c, p, abs) == IF abs THEN iget(c, Root) ELSE idup(c, cwd[p])

\* namex() comes to s: more elements, a path without a parent, or the inode itself.
arrives(f, s) ==
  IF f.path # <<>> THEN [f EXCEPT !.pc = "walk", !.at = s]
  ELSE IF f.parent THEN [f EXCEPT !.pc = "iput", !.at = None, !.put = s, !.then = failed(f)]
  ELSE [f EXCEPT !.pc = "found", !.at = None, !.ip = s]

Parents == {"create", "mkdir", "mknod", "unlink"}
Call(p, c) ==
  LET f == [Idle EXCEPT !.op = c.op, !.path = c.path, !.toabs = c.toabs, !.to = c.to,
                        !.parent = c.op \in Parents]
  IN  /\ at(p, "idle") /\ c.op # "close"
      /\ icache' = namexRef(icache, p, c.abs)
      /\ goto(p, arrives(f, namexAt(icache, p, c.abs)))
      /\ UNCHANGED <<calls, dinode, dir, cwd, file, stray, panicked>>

\* sys_close() of the last descriptor: fileclose() puts the inode.
Close(p) ==
  /\ at(p, "idle") /\ file[p] # None /\ (\E c \in calls : c.op = "close")
  /\ file' = [file EXCEPT ![p] = None]
  /\ puts(p, [Idle EXCEPT !.op = "close"], file[p], "idle")
  /\ UNCHANGED <<calls, dinode, dir, icache, cwd, stray, panicked>>

-----------------------------------------------------------------------------
\* The directory in slot s has been removed, or is below one that has.
CutOff(c, s) == c[s].nlink = 0 \/ c[s].inum \in stray

(* namex(), one element of the path at a time. *)

WalkFails(p) ==
  LET f == call[p]
      c == ilock(icache, f.at)
  IN  /\ ilocks(p, "walk")
      /\ \/ c[f.at].type # "dir"
         \/ ~(f.parent /\ Len(f.path) = 1) /\ dirlookup(c, f.at, Head(f.path)) = 0
      /\ icache' = c
      /\ puts(p, [f EXCEPT !.at = None], f.at, failed(f))
      /\ UNCHANGED <<calls, dinode, dir, cwd, file, stray, panicked>>

WalkStops(p) ==
  LET f == call[p]
      c == ilock(icache, f.at)
  IN  /\ f.parent /\ Len(f.path) = 1 /\ ilocks(p, "walk")
      /\ c[f.at].type = "dir"
      /\ icache' = c
      /\ goto(p, [f EXCEPT !.pc = "found", !.path = <<>>, !.dp = f.at, !.at = None,
                           !.name = Head(f.path)])
      /\ UNCHANGED <<calls, dinode, dir, cwd, file, stray, panicked>>

Walk(p) ==
  LET f == call[p]
      c == ilock(icache, f.at)
      i == dirlookup(c, f.at, Head(f.path))
      up == Head(f.path) = ".." /\ CutOff(c, f.at)
      g == arrives([f EXCEPT !.path = Tail(f.path), !.strayed = @ \/ up], igetSlot(c, i))
  IN  /\ ilocks(p, "walk")
      /\ c[f.at].type = "dir" /\ ~(f.parent /\ Len(f.path) = 1) /\ i # 0
      /\ icache' = iget(c, i)
      /\ puts(p, g, f.at, g.pc)
      /\ UNCHANGED <<calls, dinode, dir, cwd, file, stray, panicked>>

-----------------------------------------------------------------------------
(* iput(), which the calls go through with whatever locks they hold. *)

\* Mutant: the other references are not looked at.
ToFreeAnyRef(x) == x.valid /\ x.nlink = 0
ToFree(x) == x.valid /\ x.nlink = 0 /\ x.ref = 1

\* The lock is taken to look at nlink, and kept only to free the inode.
Iput(p) ==
  LET f == call[p]
      last == ToFree(icache[f.put])
  IN  /\ locks(p, "iput")
      /\ icache' = IF last THEN keep(icache, f.put, p) ELSE icache
      /\ goto(p, [f EXCEPT !.pc = IF last THEN "free" ELSE "drop"])
      /\ UNCHANGED <<calls, dinode, dir, cwd, file, stray, panicked>>

\* itrunc(), type = 0, iupdate()
IputFrees(p) ==
  LET f == call[p]
      i == icache[f.put].inum
      c == [icache EXCEPT ![f.put].type = "free"]
  IN  /\ at(p, "free")
      /\ icache' = c /\ dinode' = iupdate(dinode, c, f.put)
      /\ dir' = [dir EXCEPT ![i] = NoEntries]
      /\ stray' = stray \ {i}
      /\ goto(p, [f EXCEPT !.pc = "freed"])
      /\ UNCHANGED <<calls, cwd, file, panicked>>

\* valid = 0, and the lock is released
IputForgets(p) ==
  LET f == call[p]
  IN  /\ at(p, "freed")
      /\ icache' = iunlock(forget(icache, f.put), f.put)
      /\ goto(p, [f EXCEPT !.pc = "drop"])
      /\ UNCHANGED <<calls, dinode, dir, cwd, file, stray, panicked>>

\* ref--, and back to the caller of iput(); sys_link() goes on to iput(ip)
Back(f) ==
  CASE f.then = "idle" -> Idle
    [] f.then = "linked" -> [f EXCEPT !.pc = "iput", !.put = f.ip, !.ip = None, !.then = "idle"]
    [] OTHER -> [f EXCEPT !.pc = f.then, !.put = None, !.then = ""]
Drop(p) ==
  LET s == call[p].put
  IN  /\ at(p, "drop")
      /\ icache' = [icache EXCEPT ![s] = IF icache[s].ref > 1 THEN [icache[s] EXCEPT !.ref = @ - 1]
                                         ELSE [EmptySlot EXCEPT !.owner = icache[s].owner]]
      /\ goto(p, Back(call[p]))
      /\ UNCHANGED <<calls, dinode, dir, cwd, file, stray, panicked>>

-----------------------------------------------------------------------------
(* open() without O_CREATE, and chdir() *)

\* The descriptor table has room for one file; there may be no room.
Open(p) ==
  LET f == call[p]
      c == ilock(icache, f.ip)
      refused == \/ f.op = "openw" /\ c[f.ip].type = "dir"
                 \/ file[p] # None
  IN  /\ f.op \in {"open", "openw"} /\ ilocks(p, "found")
      /\ icache' = c
      /\ IF refused THEN puts(p, [f EXCEPT !.ip = None], f.ip, "idle") /\ UNCHANGED file
         ELSE goto(p, Idle) /\ file' = [file EXCEPT ![p] = f.ip]
      /\ UNCHANGED <<calls, dinode, dir, cwd, stray, panicked>>

Chdir(p) ==
  LET f == call[p]
      c == ilock(icache, f.ip)
      old == IF c[f.ip].type = "dir" THEN cwd[p] ELSE f.ip
  IN  /\ f.op = "chdir" /\ ilocks(p, "found")
      /\ icache' = c
      /\ cwd' = IF c[f.ip].type = "dir" THEN [cwd EXCEPT ![p] = f.ip] ELSE cwd
      /\ puts(p, [f EXCEPT !.ip = None], old, "idle")
      /\ UNCHANGED <<calls, dinode, dir, file, stray, panicked>>

-----------------------------------------------------------------------------
(* unlink() *)

\* With dp locked, either the call fails or the entry's inode is looked up.
Unlink(p) ==
  LET f == call[p]
      c == ilock(icache, f.dp)
      i == dirlookup(c, f.dp, f.name)
  IN  /\ f.op = "unlink" /\ ilocks(p, "found")
      /\ IF f.name \in {".", ".."} \/ i = 0
         THEN icache' = c /\ puts(p, [f EXCEPT !.dp = None], f.dp, "idle")
         ELSE /\ icache' = lockedIget(c, i, f.dp, p)
              /\ goto(p, [f EXCEPT !.pc = "unlinkIp", !.ip = igetSlot(c, i)])
      /\ UNCHANGED <<calls, dinode, dir, cwd, file, stray, panicked>>

isdirempty(i) == \A n \in Elems : dir[i][n] = 0

UnlinkNotEmpty(p) ==
  LET f == call[p]
      c == ilock(icache, f.ip)
  IN  /\ ilocks(p, "unlinkIp") /\ c[f.ip].nlink >= 1
      /\ c[f.ip].type = "dir" /\ ~isdirempty(c[f.ip].inum)
      /\ icache' = c
      /\ puts(p, [f EXCEPT !.ip = None], f.ip, "notEmpty")
      /\ UNCHANGED <<calls, dinode, dir, cwd, file, stray, panicked>>

\* The entry goes, dp is unlocked and put while ip stays locked.
UnlinkEntry(p) ==
  LET f == call[p]
      c == ilock(icache, f.ip)
      e == IF c[f.ip].type = "dir" THEN addLinks(c, f.dp, -1) ELSE c
  IN  /\ ilocks(p, "unlinkIp") /\ c[f.ip].nlink >= 1
      /\ c[f.ip].type # "dir" \/ isdirempty(c[f.ip].inum)
      /\ dir' = [dir EXCEPT ![c[f.dp].inum][f.name] = 0]
      /\ dinode' = iupdate(dinode, e, f.dp)
      /\ icache' = keep(iunlock(e, f.dp), f.ip, p)
      /\ puts(p, [f EXCEPT !.dp = None], f.dp, "unlinked")
      /\ UNCHANGED <<calls, cwd, file, stray, panicked>>

\* ip->nlink--, iupdate(), iunlockput()
Unlinked(p) ==
  LET f == call[p]
      c == unlinkOne(icache, f.ip)
  IN  /\ at(p, "unlinked")
      /\ dinode' = iupdate(dinode, c, f.ip)
      /\ icache' = iunlock(c, f.ip)
      /\ puts(p, [f EXCEPT !.ip = None], f.ip, "idle")
      /\ UNCHANGED <<calls, dir, cwd, file, stray, panicked>>

\* iunlockput(dp) at the end of a call that fails with dp locked
ReleaseDp(p) ==
  LET f == call[p]
  IN  /\ at(p, "notEmpty") \/ at(p, "present")
      /\ icache' = iunlock(icache, f.dp)
      /\ puts(p, [f EXCEPT !.dp = None], f.dp, failed(f))
      /\ UNCHANGED <<calls, dinode, dir, cwd, file, stray, panicked>>

-----------------------------------------------------------------------------
(* create(), for open() with O_CREATE, mkdir() and mknod() *)

Creators == {"create", "mkdir", "mknod"}
NewType(op) == CASE op = "mkdir" -> "dir" [] op = "mknod" -> "dev" [] OTHER -> "file"
FreeInodes == {i \in Inums : dinode[i].type = "free"}
ialloc(type) == [dinode EXCEPT ![Min(FreeInodes)] = [type |-> type, nlink |-> 0]]

CreateFinds(p) ==
  LET f == call[p]
      c == ilock(icache, f.dp)
      i == dirlookup(c, f.dp, f.name)
  IN  /\ f.op \in Creators /\ ilocks(p, "found") /\ i # 0
      /\ icache' = iget(c, i)
      /\ puts(p, [f EXCEPT !.dp = None, !.ip = igetSlot(c, i)], f.dp, "exists")
      /\ UNCHANGED <<calls, dinode, dir, cwd, file, stray, panicked>>

\* Only a file may exist already, and only for open().
CreateExists(p) ==
  LET f == call[p]
      c == ilock(icache, f.ip)
      ok == f.op = "create" /\ c[f.ip].type = "file"
  IN  /\ ilocks(p, "exists")
      /\ icache' = IF ok THEN keep(c, f.ip, p) ELSE c
      /\ IF ok THEN goto(p, [f EXCEPT !.pc = "created"])
         ELSE puts(p, [f EXCEPT !.ip = None], f.ip, "idle")
      /\ UNCHANGED <<calls, dinode, dir, cwd, file, stray, panicked>>

\* ialloc(), or its panic; dp stays locked.
CreateAllocates(p) ==
  LET f == call[p]
      c == ilock(icache, f.dp)
      i == Min(FreeInodes)
  IN  /\ f.op \in Creators /\ ilocks(p, "found") /\ dirlookup(c, f.dp, f.name) = 0
      /\ IF FreeInodes = {}
         THEN panicked' = "ialloc: no inodes" /\ UNCHANGED <<dinode, icache, call>>
         ELSE /\ dinode' = ialloc(NewType(f.op))
              /\ icache' = lockedIget(c, i, f.dp, p)
              /\ goto(p, [f EXCEPT !.pc = "createIp", !.ip = igetSlot(c, i)])
              /\ UNCHANGED panicked
      /\ UNCHANGED <<calls, dir, cwd, file, stray>>

\* The new inode gets its name, and a directory its dots; dp is unlocked and put.
CreateLinks(p) ==
  LET f == call[p]
      new == [ilock(icache, f.ip) EXCEPT ![f.ip].nlink = 1]
      c == IF f.op = "mkdir" THEN addLinks(new, f.dp, 1) ELSE new
      i == c[f.ip].inum
      d == c[f.dp].inum
      dots == IF f.op = "mkdir" THEN [NoEntries EXCEPT !["."] = i, ![".."] = d] ELSE NoEntries
  IN  /\ ilocks(p, "createIp")
      /\ dinode' = iupdate(iupdate(dinode, c, f.ip), c, f.dp)
      /\ dir' = dirlink([dir EXCEPT ![i] = dots], d, f.name, i)
      /\ stray' = IF CutOff(new, f.dp) THEN stray \cup {i} ELSE stray
      /\ icache' = keep(iunlock(c, f.dp), f.ip, p)
      /\ puts(p, [f EXCEPT !.dp = None], f.dp, "created")
      /\ UNCHANGED <<calls, cwd, file, panicked>>

\* open() keeps the inode if there is a descriptor for it; mkdir() and mknod() put it.
OpenCreated(p) ==
  LET f == call[p]
  IN  /\ at(p, "created") /\ f.op = "create"
      /\ icache' = iunlock(icache, f.ip)
      /\ IF file[p] = None
         THEN goto(p, Idle) /\ file' = [file EXCEPT ![p] = f.ip]
         ELSE puts(p, [f EXCEPT !.ip = None], f.ip, "idle") /\ UNCHANGED file
      /\ UNCHANGED <<calls, dinode, dir, cwd, stray, panicked>>

PutCreated(p) ==
  LET f == call[p]
  IN  /\ at(p, "created") /\ f.op # "create"
      /\ icache' = iunlock(icache, f.ip)
      /\ puts(p, [f EXCEPT !.ip = None], f.ip, "idle")
      /\ UNCHANGED <<calls, dinode, dir, cwd, file, stray, panicked>>

-----------------------------------------------------------------------------
(* link() *)

\* The old name's inode counts the link before the new name is looked up.
LinkOld(p) ==
  LET f == call[p]
      c == ilock(icache, f.ip)
      e == count(c, f.ip, p)
  IN  /\ f.op = "link" /\ f.dp = None /\ ilocks(p, "found") /\ c[f.ip].nlink < MaxLinks
      /\ IF ~Linkable(c[f.ip].type)
         THEN icache' = c /\ puts(p, [f EXCEPT !.ip = None], f.ip, "idle") /\ UNCHANGED dinode
         ELSE /\ dinode' = iupdate(dinode, e, f.ip)
              /\ icache' = namexRef(e, p, f.toabs)
              /\ goto(p, arrives([f EXCEPT !.path = f.to, !.parent = TRUE],
                                 namexAt(e, p, f.toabs)))
      /\ UNCHANGED <<calls, dir, cwd, file, stray, panicked>>

\* dirlink(): a name that is there is put back, with dp locked.
LinkPresent(p) ==
  LET f == call[p]
      c == ilock(icache, f.dp)
      i == dirlookup(c, f.dp, f.name)
  IN  /\ f.op = "link" /\ f.dp # None /\ ilocks(p, "found") /\ i # 0
      /\ icache' = lockedIget(c, i, f.dp, p)
      /\ puts(p, f, igetSlot(c, i), "present")
      /\ UNCHANGED <<calls, dinode, dir, cwd, file, stray, panicked>>

LinkNew(p) ==
  LET f == call[p]
      c == ilock(icache, f.dp)
      d == c[f.dp].inum
  IN  /\ f.op = "link" /\ f.dp # None /\ ilocks(p, "found") /\ dirlookup(c, f.dp, f.name) = 0
      /\ dir' = dirlink(dir, d, f.name, c[f.ip].inum)
      /\ stray' = IF CutOff(c, f.dp) THEN stray \cup {c[f.ip].inum} ELSE stray
      /\ icache' = c
      /\ puts(p, [f EXCEPT !.dp = None], f.dp, "linked")
      /\ UNCHANGED <<calls, dinode, cwd, file, panicked>>

cleanupsyslink(p) ==
  LET f == call[p]
      c == takeBack(ilock(icache, f.ip), f.ip)
  IN  /\ ilocks(p, "cleanup")
      /\ dinode' = iupdate(dinode, c, f.ip)
      /\ icache' = c
      /\ puts(p, [f EXCEPT !.ip = None], f.ip, "idle")
      /\ UNCHANGED <<calls, dir, cwd, file, stray, panicked>>

-----------------------------------------------------------------------------
\* ilock() finds a free inode, or sys_unlink() one without links.
Panics(p) ==
  LET s == Wants(p)
      unlinked == call[p].pc = "unlinkIp" /\ ilock(icache, s)[s].nlink < 1
  IN  /\ panicked = "" /\ call[p].pc # "iput" /\ s # None
      /\ icache[s].owner = None
      /\ NoType(s) \/ unlinked
      /\ panicked' = IF NoType(s) THEN "ilock: no type" ELSE "unlink: nlink < 1"
      /\ UNCHANGED <<calls, dinode, dir, icache, cwd, file, call, stray>>

Step(p) ==
  \/ Close(p) \/ (\E c \in calls : Call(p, c))
  \/ WalkFails(p) \/ WalkStops(p) \/ Walk(p)
  \/ Iput(p) \/ IputFrees(p) \/ IputForgets(p) \/ Drop(p)
  \/ Open(p) \/ Chdir(p)
  \/ Unlink(p) \/ UnlinkNotEmpty(p) \/ UnlinkEntry(p) \/ Unlinked(p) \/ ReleaseDp(p)
  \/ CreateFinds(p) \/ CreateExists(p) \/ CreateAllocates(p) \/ CreateLinks(p) \/ OpenCreated(p) \/ PutCreated(p)
  \/ LinkOld(p) \/ LinkPresent(p) \/ LinkNew(p) \/ cleanupsyslink(p)
  \/ Panics(p)

Next == \E p \in Procs : Step(p)
Spec == Init /\ [][Next]_vars

-----------------------------------------------------------------------------
\* The pointers to slots that process p has.
Pointers(p) ==
  <<cwd[p], file[p], call[p].at, call[p].ip, call[p].dp, call[p].put>>

\* fs.c:236, 262, 327, 332: an inode has at most one slot; its ref is the number
\* of pointers to the slot (a current directory, init's being the first slot, an
\* open file, a call's variable); and what a valid slot says of type and links is
\* what the disk says, even while its lock is held. Only iput() may still hold
\* the slot of an inode that ialloc() gives out again.
SlotsExact ==
  /\ \A s, t \in Slots : s # t /\ icache[s].ref > 0 /\ icache[t].ref > 0
                           => icache[s].inum # icache[t].inum
  /\ \A s \in Slots :
       icache[s].ref = Cardinality({x \in Procs \X (1..6) : Pointers(x[1])[x[2]] = s})
                         + (IF s = 1 THEN 1 ELSE 0)
  /\ \A s \in Slots : icache[s].ref > 0 /\ icache[s].valid
                        /\ ~(\E p \in Procs : icache[s].owner = p /\ call[p].pc = "freed")
       => dinode[icache[s].inum] = [type |-> icache[s].type, nlink |-> icache[s].nlink]

EntriesOf(i) == {x \in Inums \X Elems : dir[x[1]][x[2]] = i}
Named(i) == i = Root \/ EntriesOf(i) # {}
Children(i) == {c \in Inums \ {i} : dinode[c].type = "dir" /\ Named(c) /\ dir[c][".."] = i}

\* A call that has counted a link that is not in a directory yet, or no longer.
Ahead(p, i) ==
  LET f == call[p]
  IN  /\ f.ip # None /\ icache[f.ip].inum = i
      /\ \/ f.op = "link" /\ f.parent /\ f.then # "linked"
         \/ f.op = "unlink" /\ "unlinked" \in {f.pc, f.then}

\* sysfile.c:137, 143, 234, 269, 272: nlink is the number of names an inode has
\* plus, for a directory, of its subdirectories, whatever calls are under way,
\* except for an inode that got a name in a directory after that was removed
\* (create() and link() do not look whether it still has links); and a directory
\* has one name, in the directory that its ".." says.
LinksExact ==
  /\ \A i \in Inums : dinode[i].type # "free" /\ i \notin stray =>
       dinode[i].nlink = Cardinality(EntriesOf(i)) + Cardinality(Children(i))
                           + (IF i = Root THEN 1 ELSE 0)
                           + Cardinality({p \in Procs : Ahead(p, i)})
  /\ \A i \in Inums \ {Root} : dinode[i].type = "dir" /\ EntriesOf(i) # {} =>
       \E d \in Inums, n \in Elems : EntriesOf(i) = {<<d, n>>} /\ dir[i][".."] = d

\* fs.c:294, 316, sysfile.c:214: no entry of a directory, and no pointer of a
\* process, is left to an inode that iput() has freed, and no call panics over
\* one, unless the process went up from a removed directory: the ".." of such a
\* directory may be gone.
InUse ==
  /\ \A d \in Inums, n \in AllElems :
       dir[d][n] # 0 /\ (n = ".." => Named(d)) => dinode[dir[d][n]].type # "free"
  /\ \A p \in Procs : ~call[p].strayed =>
       \A s \in {cwd[p], file[p], call[p].at, call[p].ip, call[p].dp} \ {None} :
         dinode[icache[s].inum].type # "free"
  /\ panicked \in {"ilock: no type", "unlink: nlink < 1"} => \E p \in Procs : call[p].strayed

\* fs.c:312, "If that was the last reference and the inode has no links to it,
\* free the inode": an inode that nothing refers to any more has a name.
NoLeak ==
  \A i \in Inums \ (stray \cup {Root}) :
    dinode[i].type # "free" /\ Cached(icache, i) = {} => EntriesOf(i) # {}

Holds(p) == {s \in Slots : icache[s].owner = p}
WaitsFor(p, q) == Wants(p) # None /\ icache[Wants(p)].owner = q

\* fs.c:143: calls wait for each other in a circle only when one of them is in
\* iput() with another inode locked: every other wait is for an inode below the
\* one that is held.
CircleInIput ==
  \A p, q \in Procs : WaitsFor(p, q) /\ WaitsFor(q, p) =>
    \E r \in {p, q} : call[r].pc = "iput" /\ Holds(r) # {}

\* usertests.c:850, "another concurrent link/unlink/create test, to look for
\* deadlocks": no two calls wait for each other, and none for itself.
NoDeadlock == \A p, q \in Procs : ~(WaitsFor(p, q) /\ WaitsFor(q, p))
=============================================================================
