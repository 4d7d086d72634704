------------------------------- MODULE Console -------------------------------
(***************************************************************************)
(* The console (console.c) with its two sources of input, the keyboard     *)
(* (kbd.c) and the serial line (uart.c), its screen (Screen) and the       *)
(* processes that read, write, poll for keys and switch video modes.       *)
(*                                                                         *)
(* A character is a string. Keys are the ones named below, by their scan   *)
(* codes; program, chosen at the start, says what is typed, read and       *)
(* written. What is done under cons.lock is one step, but for consoleget() *)
(* and consoleread(), which wait with it. The loop of consoleintr() is a   *)
(* step for each character: whether the characters come while the handler  *)
(* runs or one by one makes no difference to anybody else.                 *)
(***************************************************************************)
EXTENDS Screen

CONSTANTS
  INPUT_BUF,   \* 128
  Modulus,     \* of unsigned int, a multiple of INPUT_BUF
  KbdQueue,    \* how many bytes the keyboard controller keeps
  Programs     \* what may happen: the keys pressed, the chars received; for each
               \* process the sizes read, the texts written, the modes asked for;
               \* the processes that are killed (kills), poll (gets) and draw (draws)

ASSUME ConsoleAssumption == Modulus % INPUT_BUF = 0 /\ Modulus > INPUT_BUF

VARIABLES
  program,
  lock,      \* cons.lock: "free", or who holds it
  buf, r, w, e,  \* input
  shift,     \* of kbdgetc(), as the set of its bits
  kbd, rx,   \* the bytes that wait in the keyboard controller and in the uart
  dump,      \* what procdump() has still to print
  st,        \* st[p]: where p is in consoleread() or consoleget()
  wants, got,  \* wants[p], got[p]: what its read asks for (target) and has got
  killed,
  held, twice, caps,  \* the keys held down; the pairs of them held together; the lock's state
  own        \* nothing but echo was printed since the line began

input == <<buf, r, w, e>>
keyboard == <<held, twice, caps>>
readers == <<st, wants, got, killed>>
vars == <<program, lock, input, shift, kbd, rx, dump, readers, keyboard, own, screen>>

EndOfFile == "^D"
NO == "NO"
Free == "free"

minus(a, b) == (a - b) % Modulus
at(i) == buf[i % INPUT_BUF]

Init ==
  /\ program \in Programs
  /\ lock = Free
  /\ buf = [i \in 0..(INPUT_BUF - 1) |-> NO] /\ r = 0 /\ w = 0 /\ e = 0
  /\ shift = {} /\ kbd = <<>> /\ rx = <<>> /\ dump = <<>>
  /\ st = [p \in Procs |-> "idle"]
  /\ wants = [p \in Procs |-> 0]
  /\ got = [p \in Procs |-> <<>>]
  /\ killed = [p \in Procs |-> FALSE]
  /\ held = {} /\ twice = {} /\ caps = FALSE
  /\ own = TRUE
  /\ ScreenInit

-----------------------------------------------------------------------------
(* The keyboard *)

E0 == 224
\* The scan codes of the keys, without the bit of a release; E0 comes first.
scancode ==
  [ctl |-> <<29>>, rightctl |-> <<E0, 29>>, shift |-> <<42>>, rightshift |-> <<54>>,
   capslock |-> <<58>>, a |-> <<30>>, u |-> <<22>>, enter |-> <<28>>, up |-> <<E0, 72>>]
pairs == [SHIFT |-> {"shift", "rightshift"}, CTL |-> {"ctl", "rightctl"}]

shiftcode(data) ==
  CASE data \in {29, 157} -> {"CTL"} [] data \in {42, 54} -> {"SHIFT"} [] OTHER -> {}
togglecode(data) == IF data = 58 THEN {"CAPSLOCK"} ELSE {}
normalmap(data) ==
  CASE data = 30 -> "a" [] data = 22 -> "u" [] data = 28 -> Newline [] data = 200 -> "UP"
    [] OTHER -> NO
shiftmap(data) ==
  CASE data = 30 -> "A" [] data = 22 -> "U" [] data = 28 -> Newline [] data = 200 -> "UP"
    [] OTHER -> NO
ctlmap(data) ==
  CASE data = 30 -> "^A" [] data = 22 -> "^U" [] data = 28 -> "\r" [] data = 200 -> "UP"
    [] OTHER -> NO

charcode(s, data) ==
  IF "CTL" \in s THEN ctlmap(data) ELSE IF "SHIFT" \in s THEN shiftmap(data) ELSE normalmap(data)
swapped == [a |-> "A", A |-> "a", u |-> "U", U |-> "u"]
cased(s, c) == IF "CAPSLOCK" \in s /\ c \in DOMAIN swapped THEN swapped[c] ELSE c

\* kbdgetc() of a byte: the character and what becomes of shift.
toggled(s, t) == (s \ t) \cup (t \ s)
pressed(s, data) ==
  LET s2 == toggled(s \cup shiftcode(data), togglecode(data))
  IN  [c |-> cased(s2, charcode(s2, data)), shift |-> s2]
\* Mutant: the release of a key leaves the escape before it.
releasedEscaped(data) ==
  [c |-> NO, shift |-> shift \ shiftcode(IF "E0ESC" \in shift THEN data ELSE data - 128)]
released(data) ==
  [c |-> NO,
   shift |-> shift \ (shiftcode(IF "E0ESC" \in shift THEN data ELSE data - 128) \cup {"E0ESC"})]
kbdgetc(data) ==
  CASE data = E0  -> [c |-> NO, shift |-> shift \cup {"E0ESC"}]
    [] data # E0 /\ data >= 128 -> released(data)
    [] OTHER -> pressed(shift \ {"E0ESC"}, IF "E0ESC" \in shift THEN data + 128 ELSE data)

\* A key goes down or up. The controller keeps what is not read; external.
Press(k) ==
  /\ k \in program.keys \ held
  /\ Len(kbd) + Len(scancode[k]) <= KbdQueue
  /\ held' = held \cup {k}
  /\ twice' = twice \cup {b \in DOMAIN pairs : pairs[b] \subseteq held'}
  /\ caps' = (caps # (k = "capslock"))
  /\ kbd' = kbd \o scancode[k]
  /\ UNCHANGED <<program, lock, input, shift, rx, dump, readers, own, screen>>
Release(k) ==
  /\ k \in held
  /\ Len(kbd) + Len(scancode[k]) <= KbdQueue
  /\ held' = held \ {k}
  /\ twice' = {b \in twice : pairs[b] \cap held' # {}}
  /\ kbd' = kbd \o Front(scancode[k]) \o <<Last(scancode[k]) + 128>>
  /\ UNCHANGED <<program, lock, input, shift, rx, dump, readers, caps, own, screen>>
\* A character comes in on the serial line; external.
Receive(c) ==
  /\ rx = <<>> /\ c \in program.chars
  /\ rx' = <<c>>
  /\ UNCHANGED <<program, lock, input, shift, kbd, dump, readers, keyboard, own, screen>>

-----------------------------------------------------------------------------
(* The interrupt handlers *)

\* wakeup(&input.r)
woken == [p \in Procs |-> IF st[p] = "asleep" THEN "read" ELSE st[p]]

\* The echo of what is typed.
echo(text) == consputc(text) /\ own' = (own \/ e' = w')
backspaces(n) == [i \in 1..n |-> BACKSPACE]

killLine ==
  /\ e' = w
  /\ UNCHANGED <<buf, r, w, st, dump>>
  /\ echo(backspaces(minus(e, w)))
erase ==
  /\ UNCHANGED <<buf, r, w, st, dump>>
  /\ IF e # w THEN e' = minus(e, 1) /\ echo(backspaces(1))
     ELSE UNCHANGED <<e, own, screen>>
ends(c) == c \in {Newline, EndOfFile} \/ e' = (r + INPUT_BUF) % Modulus
room == minus(e, r) < INPUT_BUF
typed(c) ==
  IF c # NO /\ room
  THEN /\ buf' = [buf EXCEPT ![e % INPUT_BUF] = c]
       /\ e' = (e + 1) % Modulus
       /\ IF ends(c) THEN w' = e' /\ st' = woken ELSE UNCHANGED <<w, st>>
       /\ echo(<<c>>)
       /\ UNCHANGED <<r, dump>>
  ELSE UNCHANGED <<input, st, dump, own, screen>>
Listing == <<"b", Newline>>
listing == dump' = Listing /\ UNCHANGED <<input, st, own, screen>>

\* The switch of consoleintr().
handle(c) ==
  CASE c = "^P"           -> listing
    [] c = "^U"           -> killLine
    [] c \in {"^H", "DEL"} -> erase
    [] c = "\r"           -> typed(Newline)
    [] OTHER              -> typed(c)

\* kbdintr() and uartintr() call consoleintr(). Both interrupts go to one CPU,
\* and none is taken between the handler's end and that of its procdump().
kbdintr ==
  /\ lock = Free /\ dump \in {<<>>, Listing} /\ kbd # <<>>
  /\ kbd' = Tail(kbd)
  /\ shift' = kbdgetc(Head(kbd)).shift
  /\ handle(kbdgetc(Head(kbd)).c)
  /\ UNCHANGED <<program, lock, rx, wants, got, killed, keyboard>>
uartintr ==
  /\ lock = Free /\ dump \in {<<>>, Listing} /\ rx # <<>>
  /\ rx' = <<>>
  /\ handle(rx[1])
  /\ UNCHANGED <<program, lock, kbd, shift, wants, got, killed, keyboard>>

\* Other output may come between what is typed.
output(text) == consputc(text) /\ own' = (e = w)

\* procdump() after the handler: one cprintf().
procdump ==
  /\ lock = Free /\ dump # <<>>
  /\ dump' = Tail(dump)
  /\ output(<<Head(dump)>>)
  /\ UNCHANGED <<program, lock, input, shift, kbd, rx, readers, keyboard>>

-----------------------------------------------------------------------------
(* The processes *)

idle(p) == st[p] = "idle" /\ pc[p] = "idle" /\ ~killed[p]
others == <<program, shift, kbd, rx, dump, keyboard>>

StartRead(p, n) ==
  /\ idle(p) /\ n \in program.sizes[p]
  /\ st' = [st EXCEPT ![p] = "read"]
  /\ wants' = [wants EXCEPT ![p] = n]
  /\ got' = [got EXCEPT ![p] = <<>>]
  /\ UNCHANGED <<others, lock, input, killed, own, screen>>

\* How many characters consoleread() looks at: up to the first that ends it.
looked(p) ==
  Min({wants[p] - Len(got[p]), minus(w, r)}
      \cup {i \in 1..minus(w, r) : at(r + i - 1) \in {Newline, EndOfFile}})
\* Mutant: the end of file is taken together with what comes before it.
keepsNoEnd(p, c) == FALSE
\* ^D is left for the next read if this one has got something.
keepsEnd(p, c) == c = EndOfFile /\ Len(got'[p]) > 0

\* consoleread() with cons.lock held and something to read.
consoleread(p) ==
  /\ st[p] = "read" /\ lock = Free /\ r # w
  /\ LET k    == looked(p)
         last == at(r + k - 1)
         n    == IF last = EndOfFile THEN k - 1 ELSE k
     IN  /\ got' = [got EXCEPT ![p] = @ \o [i \in 1..n |-> at(r + i - 1)]]
         /\ r' = (r + k - (IF keepsEnd(p, last) THEN 1 ELSE 0)) % Modulus
         /\ IF last \in {Newline, EndOfFile} \/ Len(got'[p]) = wants[p]
            THEN /\ st' = [st EXCEPT ![p] = "idle"]
                 /\ wants' = [wants EXCEPT ![p] = 0]
                 /\ UNCHANGED lock
            ELSE st' = [st EXCEPT ![p] = "empty"] /\ lock' = p /\ UNCHANGED wants
  /\ UNCHANGED <<others, buf, w, e, killed, own, screen>>

\* Nothing (more) to read: sleep(&input.r, &cons.lock).
sleep(p) ==
  /\ \/ st[p] = "empty" /\ lock = p /\ lock' = Free
     \/ st[p] = "read" /\ lock = Free /\ r = w /\ UNCHANGED lock
  /\ ~killed[p]
  /\ st' = [st EXCEPT ![p] = "asleep"]
  /\ UNCHANGED <<others, input, wants, got, killed, own, screen>>
\* The same for a process that has been killed: -1.
giveUp(p) ==
  /\ \/ st[p] = "empty" /\ lock = p /\ lock' = Free
     \/ st[p] = "read" /\ lock = Free /\ r = w /\ UNCHANGED lock
  /\ killed[p]
  /\ st' = [st EXCEPT ![p] = "idle"]
  /\ wants' = [wants EXCEPT ![p] = 0]
  /\ UNCHANGED <<others, input, got, killed, own, screen>>

\* Mutant: a process that sleeps is left asleep.
killAsleep(p) ==
  /\ p \in program.kills /\ st[p] \in {"read", "empty", "asleep"} /\ ~killed[p]
  /\ killed' = [killed EXCEPT ![p] = TRUE]
  /\ UNCHANGED <<others, lock, input, st, wants, got, own, screen>>
\* kill() (proc.c) of a process that reads.
kill(p) ==
  /\ p \in program.kills /\ st[p] \in {"read", "empty", "asleep"} /\ ~killed[p]
  /\ killed' = [killed EXCEPT ![p] = TRUE]
  /\ st' = IF st[p] = "asleep" THEN [st EXCEPT ![p] = "read"] ELSE st
  /\ UNCHANGED <<others, lock, input, wants, got, own, screen>>

consolewrite(p, text) ==
  /\ idle(p) /\ lock = Free /\ text \in program.texts[p]
  /\ output(text)
  /\ UNCHANGED <<others, lock, input, readers>>

\* consoleget() polls the keyboard with cons.lock held until there is a
\* character. The second kbdgetc() is made after a NO; what it gives is dropped.
StartGet(p) ==
  /\ idle(p) /\ lock = Free /\ p \in program.gets
  /\ lock' = p
  /\ st' = [st EXCEPT ![p] = "get"]
  /\ UNCHANGED <<others, input, wants, got, killed, own, screen>>
consoleget(p) ==
  /\ lock = p /\ st[p] \in {"get", "drop"}
  /\ \/ /\ kbd # <<>>
        /\ kbd' = Tail(kbd)
        /\ shift' = kbdgetc(Head(kbd)).shift
        /\ LET c == kbdgetc(Head(kbd)).c
               done == st[p] = "get" /\ c # NO
           IN  /\ st' = [st EXCEPT ![p] = IF done THEN "idle"
                                          ELSE IF @ = "get" THEN "drop" ELSE "get"]
               /\ lock' = IF done THEN Free ELSE lock
     \/ /\ kbd = <<>> /\ st[p] = "drop"
        /\ st' = [st EXCEPT ![p] = "get"]
        /\ UNCHANGED <<lock, kbd, shift>>
  /\ UNCHANGED <<program, rx, dump, keyboard, input, wants, got, killed, own, screen>>

\* setvideomode() and the drawing calls.
SwitchMode(p) ==
  /\ \/ idle(p) /\ \E m \in program.modes[p] : SetModeRead(p, m)
     \/ lock = Free /\ videosetmode(p)
  /\ UNCHANGED <<others, lock, input, readers, own>>
DrawOver(p) ==
  /\ idle(p) /\ p \in program.draws
  /\ Draw
  /\ UNCHANGED <<others, lock, input, readers, own>>

Next ==
  \/ \E k \in DOMAIN scancode : Press(k) \/ Release(k)
  \/ \E c \in program.chars : Receive(c)
  \/ kbdintr \/ uartintr \/ procdump
  \/ \E p \in Procs :
       \/ \E n \in program.sizes[p] : StartRead(p, n)
       \/ consoleread(p) \/ sleep(p) \/ giveUp(p) \/ kill(p)
       \/ \E text \in program.texts[p] : consolewrite(p, text)
       \/ StartGet(p) \/ consoleget(p)
       \/ SwitchMode(p) \/ DrawOver(p)

\* Nobody has to type; a process that reads goes on when it can.
Spec ==
  /\ Init /\ [][Next]_vars
  /\ \A p \in Procs : WF_vars(consoleread(p) \/ sleep(p) \/ giveUp(p))

-----------------------------------------------------------------------------

TypeOK ==
  /\ lock \in {Free} \cup Procs
  /\ {r, w, e} \subseteq 0..(Modulus - 1)
  /\ shift \subseteq {"SHIFT", "CTL", "CAPSLOCK", "E0ESC"}
  /\ Len(kbd) <= KbdQueue /\ Len(rx) <= 1
  /\ st \in [Procs -> {"idle", "read", "empty", "asleep", "get", "drop"}]
  /\ \A s \in {crt, consbuffer} : s.pos \in 0..((ROWS - 1) * COLS - 1)
  /\ textdisplayed \in {0, 1} /\ currentVideoMode \in Modes

\* kbd.c:19-36: whoever reads the bytes of the keyboard, an interrupt or getch(),
\* once they are read the bits of shift are those of the keys held down. A pair of
\* keys has one bit, which the first of them to be released clears.
ModifiersExact ==
  kbd = <<>> =>
    /\ "E0ESC" \notin shift
    /\ ("CAPSLOCK" \in shift) = caps
    /\ \A b \in DOMAIN pairs \ twice : b \in shift <=> pairs[b] \cap held # {}

\* console.c:276-293: what is edited stands before the cursor, on the screen and on
\* the serial line, however it was typed and erased, over the ends of rows and while
\* the screen scrolls, until something else is printed.
EchoMatches ==
  LET n == minus(e, w)
  IN  own =>
        \A i \in 0..(n - 1) :
          /\ spoiled = {} => Display.pos >= n /\ Display.cell[Display.pos - n + i] = at(w + i)
          /\ Len(serial) >= n /\ serial[Len(serial) - n + i + 1] = at(w + i)

\* console.c:265-343: the ring of input, its editing and consoleread() are lines.
Ready == [i \in 1..minus(w, r) |-> at(r + i - 1)]
Line == [i \in 1..minus(e, w) |-> at(w + i - 1)]
Chars == {"a", "c", "A", "u", "U", "^A", "UP", Newline, EndOfFile}
L == INSTANCE Lines WITH Readers <- Procs, Room <- INPUT_BUF, ready <- Ready, line <- Line
IsLines == L!Spec

\* console.c:296, 315-342: a process that reads returns, or everything there is to
\* read is read, unless getch() keeps the console; one that is killed returns.
ReadsEnd ==
  \A p \in Procs :
    /\ (st[p] # "idle" /\ wants[p] > 0 /\ r # w) ~>
         (wants[p] = 0 \/ r = w \/ \E q \in Procs : st[q] \in {"get", "drop"})
    /\ (killed[p] /\ wants[p] > 0) ~>
         (wants[p] = 0 \/ r # w \/ \E q \in Procs : st[q] \in {"get", "drop"})

=============================================================================
