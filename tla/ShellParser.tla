----------------------------- MODULE ShellParser -----------------------------
(***************************************************************************)
(* The parser of the shell (sh.c) and, after it, the grammar it is for.    *)
(*                                                                         *)
(* A line is a sequence of characters, followed by NUL. Parsing functions  *)
(* take the line b and a position s and return the new position and what   *)
(* was parsed; position 0 stands for panic(), which ends the process.      *)
(* Words are first positions (q, eq) and become text in nulterminate().    *)
(***************************************************************************)
EXTENDS Integers, Sequences, FiniteSetsExt, SequencesExt

CONSTANT MAXARGS  \* 10

NUL == "NUL"
whitespace == {" "}
symbols == {"<", "|", ">", "&", ";", "(", ")"}

at(b, s) == IF s > Len(b) THEN NUL ELSE b[s]

\* The first position from s on that is not in set, or the end.
after(b, s, set) == Min({Len(b) + 1} \cup {i \in s..Len(b) : b[i] \notin set})
skip(b, s) == after(b, s, whitespace)

peek(b, s, toks) == at(b, skip(b, s)) \in toks

\* Mutant: >> is two tokens.
tokenEndShort(b, q) ==
  CASE at(b, q) = NUL -> q
    [] at(b, q) \in symbols -> q + 1
    [] OTHER -> Min({Len(b) + 1} \cup {i \in q..Len(b) : b[i] \in whitespace \cup symbols})
tokenEnd(b, q) ==
  CASE at(b, q) = NUL -> q
    [] at(b, q) \in symbols -> IF at(b, q) = ">" /\ at(b, q + 1) = ">" THEN q + 2 ELSE q + 1
    [] OTHER -> Min({Len(b) + 1} \cup {i \in q..Len(b) : b[i] \in whitespace \cup symbols})
tokenKind(b, q) == IF at(b, q) \in symbols \cup {NUL} THEN at(b, q) ELSE "a"
gettoken(b, s) ==
  LET q == skip(b, s)
  IN  [tok |-> tokenKind(b, q), word |-> [q |-> q, eq |-> tokenEnd(b, q)],
       s |-> skip(b, tokenEnd(b, q))]

-----------------------------------------------------------------------------

execcmd(argv) == [type |-> "EXEC", argv |-> argv]
redircmd(cmd, file, fd) == [type |-> "REDIR", cmd |-> cmd, file |-> file, fd |-> fd]
pipecmd(left, right) == [type |-> "PIPE", left |-> left, right |-> right]
listcmd(left, right) == [type |-> "LIST", left |-> left, right |-> right]
backcmd(cmd) == [type |-> "BACK", cmd |-> cmd]

\* A result of parsing; panic() never returns one.
result(s, cmd) == [s |-> s, cmd |-> cmd]
Panic == result(0, execcmd(<<>>))
Then(res, Op(_)) == IF res.s = 0 THEN Panic ELSE Op(res)

\* Redirections, in the order they are written, wrap a command.
redirected(cmd, redirs) ==
  FoldLeft(LAMBDA c, x : redircmd(c, x.word, IF x.tok = "<" THEN 0 ELSE 1), cmd, redirs)

RECURSIVE parseredirs(_, _, _), parseargs(_, _, _, _), parseexec(_, _), parsepipe(_, _),
          parseline(_, _), parsebacks(_, _)

\* parseredirs() adds to the redirections seen so far.
parseredirs(b, s, redirs) ==
  IF ~peek(b, s, {"<", ">"}) THEN result(skip(b, s), redirs)
  ELSE LET tok  == gettoken(b, s)
           file == gettoken(b, tok.s)
       IN  IF file.tok # "a" THEN Panic
           ELSE parseredirs(b, file.s, Append(redirs, [tok |-> tok.tok, word |-> file.word]))

\* The loop of parseexec(): arguments, each followed by redirections.
parseargs(b, s, argv, redirs) ==
  IF peek(b, s, {"|", ")", "&", ";"}) \/ gettoken(b, s).tok = NUL
  THEN result(skip(b, s), redirected(execcmd(argv), redirs))
  ELSE LET tok == gettoken(b, s)
       IN  IF tok.tok # "a" \/ Len(argv) + 1 >= MAXARGS THEN Panic
           ELSE Then(parseredirs(b, tok.s, redirs),
                     LAMBDA r : parseargs(b, r.s, Append(argv, tok.word), r.cmd))

parseblock(b, s) ==
  Then(parseline(b, gettoken(b, s).s),
       LAMBDA r : IF ~peek(b, r.s, {")"}) THEN Panic
                  ELSE Then(parseredirs(b, gettoken(b, r.s).s, <<>>),
                            LAMBDA x : result(x.s, redirected(r.cmd, x.cmd))))

parseexec(b, s) ==
  IF peek(b, s, {"("}) THEN parseblock(b, s)
  ELSE Then(parseredirs(b, s, <<>>), LAMBDA r : parseargs(b, r.s, <<>>, r.cmd))

parsepipe(b, s) ==
  Then(parseexec(b, s),
       LAMBDA r : IF ~peek(b, r.s, {"|"}) THEN r
                  ELSE Then(parsepipe(b, gettoken(b, r.s).s),
                            LAMBDA x : result(x.s, pipecmd(r.cmd, x.cmd))))

parsebacks(b, r) ==
  IF ~peek(b, r.s, {"&"}) THEN r
  ELSE parsebacks(b, result(gettoken(b, r.s).s, backcmd(r.cmd)))

parseline(b, s) ==
  Then(parsepipe(b, s),
       LAMBDA p : Then(parsebacks(b, p),
                       LAMBDA r : IF ~peek(b, r.s, {";"}) THEN r
                                  ELSE Then(parseline(b, gettoken(b, r.s).s),
                                            LAMBDA x : result(x.s, listcmd(r.cmd, x.cmd)))))

\* nulterminate() writes a NUL after every word of the command.
RECURSIVE ends(_), texts(_, _)
ends(cmd) ==
  CASE cmd.type = "EXEC"  -> {cmd.argv[i].eq : i \in DOMAIN cmd.argv}
    [] cmd.type = "REDIR" -> {cmd.file.eq} \cup ends(cmd.cmd)
    [] cmd.type = "BACK"  -> ends(cmd.cmd)
    [] OTHER              -> ends(cmd.left) \cup ends(cmd.right)
nulterminate(b, cmd) == [i \in DOMAIN b |-> IF i \in ends(cmd) THEN NUL ELSE b[i]]

\* The string that starts at a word's first character.
string(t, word) == SubSeq(t, word.q, Min({Len(t) + 1} \cup {i \in word.q..Len(t) : t[i] = NUL}) - 1)
texts(t, cmd) ==
  CASE cmd.type = "EXEC"  -> execcmd([i \in DOMAIN cmd.argv |-> string(t, cmd.argv[i])])
    [] cmd.type = "REDIR" -> redircmd(texts(t, cmd.cmd), string(t, cmd.file), cmd.fd)
    [] cmd.type = "BACK"  -> backcmd(texts(t, cmd.cmd))
    [] OTHER              -> [type |-> cmd.type, left |-> texts(t, cmd.left),
                              right |-> texts(t, cmd.right)]

Error == [type |-> "ERROR"]

parsecmd(b) ==
  LET r == parseline(b, 1)
  IN  IF r.s = 0 \/ skip(b, r.s) # Len(b) + 1 THEN Error
      ELSE texts(nulterminate(b, r.cmd), r.cmd)

-----------------------------------------------------------------------------
(* The grammar, over a line that is cut into words and symbols:            *)
(*   line   = pipe "&"* [";" line]      pipe = simple ["|" pipe]           *)
(*   simple = "(" line ")" redir*   or  words and redirs, in any order     *)
(*   redir  = "<" word   or   ">" word   or   ">>" word                    *)
(* An operator that is not inside parentheses is looked for as a whole.    *)

RECURSIVE Tokens(_), Line(_), Backs(_), PipeOf(_)
Symbol(t) == t[1] \in symbols
Tokens(b) ==
  IF b = <<>> THEN <<>>
  ELSE IF b[1] \in whitespace THEN Tokens(Tail(b))
  ELSE LET n == CASE IsPrefix(<<">", ">">>, b) -> 2
                  [] Symbol(b) /\ ~IsPrefix(<<">", ">">>, b) -> 1
                  [] OTHER -> Max({i \in DOMAIN b :
                                     \A j \in 1..i : b[j] \notin whitespace \cup symbols})
       IN  <<SubSeq(b, 1, n)>> \o Tokens(SubSeq(b, n + 1, Len(b)))

Depth(ts, i) ==
  Cardinality({j \in 1..i : ts[j] = <<"(">>}) - Cardinality({j \in 1..i : ts[j] = <<")">>})
Balanced(ts) == Depth(ts, Len(ts)) = 0 /\ \A i \in DOMAIN ts : Depth(ts, i) >= 0
Outside(ts, c) == {i \in DOMAIN ts : ts[i] = <<c>> /\ Depth(ts, i) = 0}
Before(ts, i) == SubSeq(ts, 1, i - 1)
After(ts, i) == SubSeq(ts, i + 1, Len(ts))

Both(Op(_, _), x, y) == IF Error \in {x, y} THEN Error ELSE Op(x, y)

IsRedir(t) == t \in {<<"<">>, <<">">>, <<">", ">">>}
Redirs(ts) == {i \in DOMAIN ts : IsRedir(ts[i])}
\* Every word is an argument or the file of a redirection.
WellFormed(ts) ==
  \A i \in DOMAIN ts : Symbol(ts[i]) => IsRedir(ts[i]) /\ i < Len(ts) /\ ~Symbol(ts[i + 1])
Arguments(ts) ==
  LET words == SetToSortSeq({i \in DOMAIN ts : ~Symbol(ts[i]) /\ (i = 1 \/ ~IsRedir(ts[i - 1]))},
                            LAMBDA i, j : i < j)
  IN  [k \in DOMAIN words |-> ts[words[k]]]
Wrapped(cmd, ts) ==
  LET rs == SetToSortSeq(Redirs(ts), LAMBDA i, j : i < j)
  IN  FoldLeft(LAMBDA c, i : redircmd(c, ts[i + 1], IF ts[i] = <<"<">> THEN 0 ELSE 1), cmd, rs)

Words(ts) ==
  IF ~WellFormed(ts) \/ Len(Arguments(ts)) >= MAXARGS THEN Error
  ELSE Wrapped(execcmd(Arguments(ts)), ts)
Block(ts) ==
  LET close == Min({i \in DOMAIN ts : Depth(ts, i) = 0})
      rest  == After(ts, close)
      line  == Line(SubSeq(ts, 2, close - 1))
  IN  IF line = Error \/ ~WellFormed(rest) \/ Arguments(rest) # <<>> THEN Error
      ELSE Wrapped(line, rest)
PipeOf(ts) ==
  LET simple(x) == IF x # <<>> /\ x[1] = <<"(">> THEN Block(x) ELSE Words(x)
      bars == Outside(ts, "|")
  IN  IF bars = {} THEN simple(ts)
      ELSE Both(pipecmd, simple(Before(ts, Min(bars))), PipeOf(After(ts, Min(bars))))
Backs(ts) ==
  IF ts # <<>> /\ Last(ts) = <<"&">>
  THEN LET c == Backs(Front(ts)) IN IF c = Error THEN Error ELSE backcmd(c)
  ELSE PipeOf(ts)
Line(ts) ==
  LET semicolons == Outside(ts, ";")
  IN  IF semicolons = {} THEN Backs(ts)
      ELSE Both(listcmd, Backs(Before(ts, Min(semicolons))), Line(After(ts, Min(semicolons))))

Meaning(b) == IF Balanced(Tokens(b)) THEN Line(Tokens(b)) ELSE Error

=============================================================================
