-------------------------------- MODULE Shell --------------------------------
(***************************************************************************)
(* The shell (sh.c) and init (init.c): lines are read, parsed and run by   *)
(* processes that fork, redirect, connect pipes, exec and wait.            *)
(*                                                                         *)
(* A step is one or a few system calls of a process that concern nobody    *)
(* else. Programs are external: "e" writes one item and exits, "c" copies  *)
(* until its input ends, and no other program exists. A pipe holds one     *)
(* item (full); files may fail to open. A process slot that is missing     *)
(* makes fork() fail.                                                      *)
(***************************************************************************)
EXTENDS ShellParser

CONSTANTS
  NPROC,     \* process slots besides init
  NOFILE,    \* descriptors of a process
  Sessions   \* sequences of lines that are typed; an empty line is the end of file

VARIABLES
  session,   \* what is typed
  number,    \* how many lines of it have been read
  proc,      \* the processes
  full,      \* the pipes that hold an item
  parsed,    \* what the last line was parsed as
  forkFailed \* some fork() failed

vars == <<session, number, proc, full, parsed, forkFailed>>

Slots == 1..NPROC
sh == 1      \* the slot of the shell
initProc == 0

open(kind, id, end) == [kind |-> kind, id |-> id, end |-> end]
Closed == open("closed", <<>>, "")
Console == open("console", <<>>, "")
Nothing == execcmd(<<>>)

Unused == [pc |-> "free", cmd |-> Nothing, path |-> <<>>, parent |-> initProc, back |-> FALSE,
           fd |-> [d \in 0..(NOFILE - 1) |-> Closed], want |-> <<>>]
\* main() opens the console until there are three descriptors of it.
Standard == [d \in 0..(NOFILE - 1) |-> IF d < 3 THEN Console ELSE Closed]
Started == [Unused EXCEPT !.pc = "getcmd", !.fd = Standard]

Init ==
  /\ session \in Sessions
  /\ number = 0
  /\ proc = [p \in Slots |-> IF p = sh THEN Started ELSE Unused]
  /\ full = {}
  /\ parsed = Error
  /\ forkFailed = FALSE

-----------------------------------------------------------------------------
(* System calls *)

live(p) == proc[p].pc \notin {"free", "zombie"}
frees == {p \in Slots : proc[p].pc = "free"}

close(fd, d) == [fd EXCEPT ![d] = Closed]
lowest(fd) == Min({d \in DOMAIN fd : fd[d] = Closed})
opened(fd, f) == [fd EXCEPT ![lowest(fd)] = f]
dup(fd, d) == opened(fd, fd[d])

Zombie(parent, back) == [Unused EXCEPT !.pc = "zombie", !.parent = parent, !.back = back]
exited(ps, p) ==
  [q \in Slots |-> IF q = p THEN Zombie(ps[p].parent, ps[p].back)
                   ELSE IF ps[q].parent = p THEN [ps[q] EXCEPT !.parent = initProc]
                   ELSE ps[q]]
exit(p) == proc' = exited(proc, p)

rest == <<session, number, full, parsed>>

\* fork1(): the child starts as given; without a slot the process panics.
fork1(p, child, next) ==
  IF frees = {} THEN exit(p) /\ forkFailed' = TRUE
  ELSE /\ proc' = [proc EXCEPT ![Min(frees)] = [child EXCEPT !.parent = p], ![p] = next]
       /\ UNCHANGED forkFailed

\* wait() for a child that is a zombie; whoever calls it has a child.
wait(p, next) ==
  /\ \E q \in Slots : /\ proc[q].pc = "zombie" /\ proc[q].parent = p
                      /\ proc' = [proc EXCEPT ![q] = Unused, ![p] = next]
  /\ UNCHANGED forkFailed

-----------------------------------------------------------------------------
(* runcmd(). path says which part of the line it is, want where its input  *)
(* and its output are meant to go.                                         *)

down(r, cmd, step) == [r EXCEPT !.pc = "run", !.cmd = cmd, !.path = Append(@, step)]
at_(p, pc) == proc[p].pc = pc
goes(p, pc) == [proc[p] EXCEPT !.pc = pc]

Exists(name) == name \in {<<"e">>, <<"c">>}

runExec(p) ==
  /\ at_(p, "run") /\ proc[p].cmd.type = "EXEC"
  /\ IF proc[p].cmd.argv # <<>> /\ Exists(proc[p].cmd.argv[1])
     THEN proc' = [proc EXCEPT ![p] = goes(p, "prog")]
     ELSE exit(p)
  /\ UNCHANGED forkFailed

\* close(fd) and open(): the lowest descriptor is the one just closed.
runRedir(p) ==
  /\ at_(p, "run") /\ proc[p].cmd.type = "REDIR"
  /\ LET r == proc[p]
         f == open("file", r.cmd.file, "")
     IN  \/ proc' = [proc EXCEPT ![p] =
                       [down(r, r.cmd.cmd, "redir") EXCEPT
                          !.fd = opened(close(@, r.cmd.fd), f), !.want[r.cmd.fd + 1] = f]]
         \/ exit(p)
  /\ UNCHANGED forkFailed

runList(p) ==
  /\ at_(p, "run") /\ proc[p].cmd.type = "LIST"
  /\ fork1(p, down(proc[p], proc[p].cmd.left, "left"), goes(p, "list"))
waitList(p) == at_(p, "list") /\ wait(p, down(proc[p], proc[p].cmd.right, "right"))

runBack(p) ==
  /\ at_(p, "run") /\ proc[p].cmd.type = "BACK"
  /\ fork1(p, [down(proc[p], proc[p].cmd.cmd, "back") EXCEPT !.back = TRUE], goes(p, "exit"))

\* pipe(): two descriptors.
PipeEnd(r, end) == open("pipe", r.path, end)
runPipe(p) ==
  /\ at_(p, "run") /\ proc[p].cmd.type = "PIPE"
  /\ proc' = [proc EXCEPT ![p] = [goes(p, "fork left") EXCEPT
                                    !.fd = opened(opened(@, PipeEnd(proc[p], "r")),
                                                  PipeEnd(proc[p], "w"))]]
  /\ UNCHANGED forkFailed
forkLeft(p) == at_(p, "fork left") /\ fork1(p, goes(p, "left"), goes(p, "fork right"))
forkRight(p) == at_(p, "fork right") /\ fork1(p, goes(p, "right"), goes(p, "close"))

\* The descriptors p[0] and p[1] of a process that has called pipe().
Ends(r) == [i \in 0..1 |-> CHOOSE d \in DOMAIN r.fd : d > 2 /\ r.fd[d] = PipeEnd(r, <<"r", "w">>[i + 1])]
closeEnds(fd, e) == close(close(fd, e[0]), e[1])

\* Mutant: p[1] stays open in the process that waits.
closeBothButOne(p) ==
  /\ at_(p, "close")
  /\ proc' = [proc EXCEPT ![p] = [goes(p, "wait") EXCEPT !.fd = close(@, Ends(proc[p])[0])]]
  /\ UNCHANGED forkFailed
closeBoth(p) ==
  /\ at_(p, "close")
  /\ proc' = [proc EXCEPT ![p] = [goes(p, "wait") EXCEPT !.fd = closeEnds(@, Ends(proc[p]))]]
  /\ UNCHANGED forkFailed
waitFirst(p) == at_(p, "wait") /\ wait(p, goes(p, "wait again"))
\* Mutant: one wait() is missing.
waitSecondNot(p) ==
  /\ at_(p, "wait again")
  /\ exit(p)
  /\ UNCHANGED forkFailed
waitSecond(p) == at_(p, "wait again") /\ wait(p, goes(p, "exit"))
runExit(p) == at_(p, "exit") /\ exit(p) /\ UNCHANGED forkFailed

\* Mutant: the descriptor is not free when the pipe is put in its place.
connectedLate(r, d, side) == closeEnds(dup(r.fd, Ends(r)[side]), Ends(r))
\* close(d); dup(p[side]); close(p[0]); close(p[1])
connected(r, d, side) == closeEnds(dup(close(r.fd, d), Ends(r)[side]), Ends(r))
runLeft(p) ==
  /\ at_(p, "left")
  /\ proc' = [proc EXCEPT ![p] =
                [down(@, @.cmd.left, "left") EXCEPT !.fd = connected(proc[p], 1, 1),
                                                    !.want[2] = PipeEnd(proc[p], "w")]]
  /\ UNCHANGED forkFailed
runRight(p) ==
  /\ at_(p, "right")
  /\ proc' = [proc EXCEPT ![p] =
                [down(@, @.cmd.right, "right") EXCEPT !.fd = connected(proc[p], 0, 0),
                                                      !.want[1] = PipeEnd(proc[p], "r")]]
  /\ UNCHANGED forkFailed

runcmd(p) ==
  /\ \/ runExec(p) \/ runRedir(p) \/ runList(p) \/ waitList(p) \/ runBack(p)
     \/ runPipe(p) \/ forkLeft(p) \/ forkRight(p) \/ closeBoth(p) \/ waitFirst(p)
     \/ waitSecond(p) \/ runExit(p) \/ runLeft(p) \/ runRight(p)
  /\ UNCHANGED rest

-----------------------------------------------------------------------------
(* Programs; external *)

Holds(f) == \E q \in Slots : live(q) /\ \E d \in DOMAIN proc[q].fd : proc[q].fd[d] = f
Other(f, end) == [f EXCEPT !.end = end]
program(p) == proc[p].cmd.argv[1]
others == <<session, number, parsed, forkFailed>>

\* One item to descriptor 1; without a reader the program gives up.
write(p, next) ==
  LET f == proc[p].fd[1]
  IN  IF f.kind # "pipe" THEN next /\ UNCHANGED full
      ELSE IF ~Holds(Other(f, "r")) THEN exit(p) /\ UNCHANGED full
      ELSE f.id \notin full /\ full' = full \cup {f.id} /\ next
echo(p) == at_(p, "prog") /\ program(p) = <<"e">> /\ write(p, exit(p)) /\ UNCHANGED others
cat(p) ==
  /\ \/ /\ at_(p, "prog") /\ program(p) = <<"c">>
        /\ LET f == proc[p].fd[0]
           IN  IF f.kind # "pipe" THEN exit(p) /\ UNCHANGED full
               ELSE IF f.id \in full
               THEN full' = full \ {f.id} /\ proc' = [proc EXCEPT ![p].pc = "copy"]
               ELSE ~Holds(Other(f, "w")) /\ exit(p) /\ UNCHANGED full
     \/ at_(p, "copy") /\ write(p, proc' = [proc EXCEPT ![p].pc = "prog"])
  /\ UNCHANGED others

-----------------------------------------------------------------------------
(* main() and init *)

\* getcmd(); the command cd is run by the shell itself.
getcmd ==
  /\ at_(sh, "getcmd") /\ number < Len(session)
  /\ number' = number + 1
  /\ LET b == session[number + 1]
         child == [goes(sh, "parse") EXCEPT !.path = <<number'>>,
                                            !.want = <<Console, Console>>]
     IN  CASE b = <<>> -> exit(sh) /\ UNCHANGED forkFailed
           [] IsPrefix(<<"c", "d", " ">>, b) -> UNCHANGED <<proc, forkFailed>>
           [] OTHER -> fork1(sh, child, goes(sh, "waitcmd"))
  /\ UNCHANGED <<session, full, parsed>>
\* The lines and what they are parsed as, and should be.
Lines == UNION {{t[i] : i \in DOMAIN t} : t \in Sessions}
Parses == [b \in Lines |-> parsecmd(b)]
Meanings == [b \in Lines |-> Meaning(b)]

\* runcmd(parsecmd(buf)) in the child.
parse(p) ==
  /\ at_(p, "parse")
  /\ parsed' = Parses[session[number]]
  /\ IF parsed' = Error THEN exit(p)
     ELSE proc' = [proc EXCEPT ![p].pc = "run", ![p].cmd = parsed']
  /\ UNCHANGED <<session, number, full, forkFailed>>
waitcmd == at_(sh, "waitcmd") /\ wait(sh, goes(sh, "getcmd")) /\ UNCHANGED rest

\* init waits for whatever process; the shell is started again when it is gone.
initWait ==
  /\ \E q \in Slots :
       /\ proc[q].pc = "zombie" /\ proc[q].parent = initProc
       /\ proc' = [proc EXCEPT ![q] = IF q = sh THEN Started ELSE Unused]
  /\ UNCHANGED <<rest, forkFailed>>

Step(p) == runcmd(p) \/ echo(p) \/ cat(p) \/ parse(p)
Next == (\E p \in Slots : Step(p)) \/ getcmd \/ waitcmd \/ initWait

\* Every process that can go on does so; nobody has to type.
Spec ==
  /\ Init /\ [][Next]_vars
  /\ \A p \in Slots : WF_vars(Step(p))
  /\ WF_vars(waitcmd) /\ WF_vars(initWait)

-----------------------------------------------------------------------------

TypeOK ==
  /\ number \in 0..Len(session)
  /\ \A p \in Slots : proc[p].parent \in {initProc} \cup (Slots \ {p})
  /\ \A p \in Slots : live(p) => proc[p].fd[2] = Console  \* where messages go
  /\ forkFailed \in BOOLEAN

\* sh.c:249-479: what the child runs is what the grammar says of the line: operators
\* bind as they should, redirections and arguments mix, words keep their text when
\* NULs are written after them, and lines outside the grammar are refused.
ParsesRight ==
  at_(sh, "waitcmd") /\ (\A p \in Slots : ~at_(p, "parse")) =>
    parsed = Meanings[session[number]]

\* sh.c:82-124: every program is started with the files and pipes that the line says
\* on 0 and 1, and with no descriptor of a pipe besides, however redirections, pipes
\* and blocks are nested. (Of several redirections the first one counts.)
FdsAsWritten ==
  \A p \in Slots : at_(p, "prog") =>
    /\ proc[p].fd[0] = proc[p].want[1] /\ proc[p].fd[1] = proc[p].want[2]
    /\ \A d \in 3..(NOFILE - 1) : proc[p].fd[d] = Closed

\* sh.c:97, 122-123, 171: when the shell asks for the next line, everything that the
\* lines before have started and not put into the background is over and waited for,
\* unless a fork() failed.
PromptWaits ==
  at_(sh, "getcmd") /\ ~forkFailed =>
    \A p \in Slots \ {sh} : proc[p].pc = "free" \/ proc[p].back

\* sh.c:120-123, 159-172: every line comes to an end and the shell asks for the next
\* one. No descriptor of a pipe that is left open keeps a program waiting for the end
\* of its input, and no process waits for a child for ever.
PromptReturns == at_(sh, "waitcmd") ~> at_(sh, "getcmd")

=============================================================================
