------------------------------- MODULE Screen -------------------------------
(***************************************************************************)
(* The text screen (console.c) and the switching of video modes (vga.c).   *)
(*                                                                         *)
(* A text memory is its cells and its cursor. Zero and ' ' look the same   *)
(* and are both Blank; attributes are left out. Everything done under      *)
(* cons.lock is one step; the look at currentVideoMode before the lock is  *)
(* another. Output is followed, besides, by what it means: rows, the lines *)
(* that a terminal of ROWS - 1 rows shows, the cursor after the last one.  *)
(***************************************************************************)
EXTENDS Integers, Sequences, SequencesExt, FiniteSetsExt

CONSTANTS
  Procs,      \* the processes that call setvideomode() and write
  COLS, ROWS, \* 80 and 25
  Recent      \* how much of its current line the serial terminal is asked for

ASSUME ScreenAssumption == COLS \in Nat \ {0} /\ ROWS \in Nat \ (0..2) /\ Recent \in Nat

Newline == "\n"
BACKSPACE == "BACKSPACE"
Blank == " "
Noise == "#"       \* pixels and fonts, seen as text

Text == 3             \* 0x03
Modes == {3, 18, 19}  \* the supported modes 0x03, 0x12 and 0x13

VARIABLES
  currentVideoMode,
  crt,             \* the text memory at 0xb8000 and the hardware cursor
  consbuffer,      \* their saved copies
  textdisplayed,
  pc, mode, currentmode,  \* videosetmode(): control, argument, local variable
  serial,          \* what the terminal on the serial line shows of the last line
  rows,            \* what the screen should show
  spoiled          \* what happened so far of the things that may lose text

screen == <<currentVideoMode, crt, consbuffer, textdisplayed, pc, mode, currentmode, serial,
            rows, spoiled>>
switching == <<currentVideoMode, textdisplayed, pc, mode, currentmode, spoiled>>

Positions == 0..(ROWS * COLS - 1)
Empty == [cell |-> [i \in Positions |-> Blank], pos |-> 0]
Pixels == [cell |-> [i \in Positions |-> Noise], pos |-> 0]

ScreenInit ==
  /\ currentVideoMode = Text
  /\ crt = Empty
  /\ consbuffer = Empty
  /\ textdisplayed = 1
  /\ pc = [p \in Procs |-> "idle"]
  /\ mode = [p \in Procs |-> Text]
  /\ currentmode = [p \in Procs |-> Text]
  /\ serial = <<>>
  /\ rows = << <<>> >>
  /\ spoiled = {}

-----------------------------------------------------------------------------

\* The three cases of cgaputc().
written(s, c) ==
  CASE c = Newline   -> [s EXCEPT !.pos = @ + COLS - (@ % COLS)]
    [] c = BACKSPACE -> [s EXCEPT !.pos = IF @ > 0 THEN @ - 1 ELSE @]
    [] OTHER         -> [cell |-> [s.cell EXCEPT ![s.pos] = c], pos |-> s.pos + 1]

\* Mutant: one row too few is moved.
scrolledShort(s) ==
  IF s.pos \div COLS < ROWS - 1 THEN s
  ELSE [pos  |-> s.pos - COLS,
        cell |-> [i \in Positions |->
                    IF i \in (s.pos - COLS)..((ROWS - 1) * COLS - 1) THEN Blank
                    ELSE IF i < (ROWS - 3) * COLS THEN s.cell[i + COLS] ELSE s.cell[i]]]
\* Scrolling up when the cursor reaches the last row.
scrolled(s) ==
  IF s.pos \div COLS < ROWS - 1 THEN s
  ELSE [pos  |-> s.pos - COLS,
        cell |-> [i \in Positions |->
                    IF i \in (s.pos - COLS)..((ROWS - 1) * COLS - 1) THEN Blank
                    ELSE IF i < (ROWS - 2) * COLS THEN s.cell[i + COLS] ELSE s.cell[i]]]

cursor(s) == [s EXCEPT !.cell[s.pos] = Blank]

cgaputc(s, c) == cursor(scrolled(written(s, c)))

\* Mutant: the serial terminal is not told to go back.
uartputcOnly(line, c) ==
  CASE c = Newline   -> <<>>
    [] c = BACKSPACE -> line
    [] OTHER         -> Append(line, c)
\* What uartputc() makes of the line of a serial terminal; "\b \b" takes a character away.
uartputc(line, c) ==
  CASE c = Newline   -> <<>>
    [] c = BACKSPACE -> IF line = <<>> THEN line ELSE Front(line)
    [] OTHER         -> Append(line, c)

LastOf(line) == SubSeq(line, Max({1, Len(line) - Recent + 1}), Len(line))

\* The terminal that cgaputc() stands for: it goes back to the end of the line
\* before, which is then filled up, but not beyond the top.
FullRows(r) == IF Len(r) = ROWS THEN Tail(r) ELSE r
Wider(row) == row \o [i \in 1..(COLS - 1 - Len(row)) |-> Blank]
Back(r) ==
  IF Last(r) # <<>> THEN Append(Front(r), Front(Last(r)))
  ELSE IF Len(r) = 1 THEN r
  ELSE Append(Front(Front(r)), IF Len(Last(Front(r))) = COLS THEN Front(Last(Front(r)))
                               ELSE Wider(Last(Front(r))))
Typed(r, c) ==
  CASE c = Newline   -> FullRows(Append(r, <<>>))
    [] c = BACKSPACE -> Back(r)
    [] OTHER         -> LET row == Append(Last(r), c)
                        IN  IF Len(row) < COLS THEN Append(Front(r), row)
                            ELSE FullRows(Front(r) \o <<row, <<>> >>)

\* consputc() of the characters of a text, under cons.lock: to the serial line,
\* and to the screen or to the saved copy of it.
consputc(text) ==
  /\ IF textdisplayed = 0
     THEN consbuffer' = FoldLeft(cgaputc, consbuffer, text) /\ UNCHANGED crt
     ELSE crt' = FoldLeft(cgaputc, crt, text) /\ UNCHANGED consbuffer
  /\ serial' = LastOf(FoldLeft(uartputc, serial, text))
  /\ rows' = FoldLeft(Typed, rows, text)
  /\ UNCHANGED switching

-----------------------------------------------------------------------------

\* The head of videosetmode(): the current mode is read without cons.lock, and
\* nothing is to be done if it is the one asked for.
SetModeRead(p, m) ==
  /\ pc[p] = "idle"
  /\ m # currentVideoMode
  /\ pc' = [pc EXCEPT ![p] = "lock"]
  /\ mode' = [mode EXCEPT ![p] = m]
  /\ currentmode' = [currentmode EXCEPT ![p] = currentVideoMode]
  /\ spoiled' = spoiled \cup (IF \E q \in Procs : pc[q] = "lock" THEN {"overlap"} ELSE {})
  /\ UNCHANGED <<currentVideoMode, crt, consbuffer, textdisplayed, serial, rows>>

\* grabscreentobuffer(), if the mode that was read is the text mode.
Grabs(p) == currentmode[p] = Text

Grabbed(p) == IF Grabs(p) THEN crt ELSE consbuffer

\* case 0x03: registers, font, then outputbuffertoscreen().
ToText(p) ==
  /\ mode[p] = Text
  /\ currentVideoMode' = Text
  /\ crt' = Grabbed(p)
  /\ textdisplayed' = 1
  /\ UNCHANGED spoiled

\* case 0x12 and case 0x13: the text memory no longer holds text.
ToGraphics(p) ==
  /\ mode[p] \in Modes \ {Text}
  /\ currentVideoMode' = mode[p]
  /\ crt' = Pixels
  /\ textdisplayed' = IF Grabs(p) THEN 0 ELSE textdisplayed
  /\ UNCHANGED spoiled

\* default: -1 is returned, but the screen has been grabbed by then.
ToNowhere(p) ==
  /\ mode[p] \notin Modes
  /\ textdisplayed' = IF Grabs(p) THEN 0 ELSE textdisplayed
  /\ spoiled' = IF Grabs(p) THEN spoiled \cup {"invalid"} ELSE spoiled
  /\ UNCHANGED <<currentVideoMode, crt>>

\* videosetmode() from acquireconslock() to releaseconslock().
videosetmode(p) ==
  /\ pc[p] = "lock"
  /\ pc' = [pc EXCEPT ![p] = "idle"]
  /\ mode' = [mode EXCEPT ![p] = Text]
  /\ currentmode' = [currentmode EXCEPT ![p] = Text]
  /\ consbuffer' = Grabbed(p)
  /\ ToText(p) \/ ToGraphics(p) \/ ToNowhere(p)
  /\ UNCHANGED <<serial, rows>>

\* setpixel(), lineto() and fillrect() copy 128000 bytes to 0xA0000 whatever the
\* mode, which reaches the text memory when the text mode maps it.
Draw ==
  /\ IF currentVideoMode = Text
     THEN /\ crt' = [crt EXCEPT !.cell = Pixels.cell]
          /\ spoiled' = spoiled \cup {"draw"}
     ELSE UNCHANGED <<crt, spoiled>>
  /\ UNCHANGED <<currentVideoMode, consbuffer, textdisplayed, pc, mode, currentmode, serial,
                 rows>>

-----------------------------------------------------------------------------

Display == IF currentVideoMode = Text THEN crt ELSE consbuffer

\* console.c:177-218, vga.c:513-552: no output is lost by scrolling and by switching
\* modes. Unless two calls overlapped, an invalid mode was asked for or somebody
\* drew in text mode, the screen (in text mode) or the saved copy of it (in a
\* graphics mode) is that of a terminal of ROWS - 1 rows, cursor included.
ScreenShows ==
  spoiled = {} =>
    /\ Display.pos = (Len(rows) - 1) * COLS + Len(Last(rows))
    /\ \A i \in Positions :
         Display.cell[i] = IF i \div COLS < Len(rows) /\ i % COLS < Len(rows[(i \div COLS) + 1])
                           THEN rows[(i \div COLS) + 1][(i % COLS) + 1] ELSE Blank

=============================================================================
