-------------------------------- MODULE Paint --------------------------------
(***************************************************************************)
(* Drawing contexts and the palette (graphics.c): beginpaint(), endpaint(),*)
(* moveto(), selectpen() and setpencolour(), called by several processes.  *)
(*                                                                         *)
(* Nothing here takes a lock, so a step is one test, one group of writes   *)
(* to one context, or one port write.  Programs use the handle that        *)
(* beginpaint() gave them and close it once; a process that exits while    *)
(* painting never closes it.                                               *)
(***************************************************************************)
EXTENDS Integers, Sequences

CONSTANTS
  Procs,          \* process ids, positive numbers
  MAX_PROCESSES,  \* length of hdcArray
  Coords,         \* where moveto() may go
  Indices,        \* the palette indices the calls are made with, valid or not
  FirstPen,       \* the first index a program may define: 16
  NColours,       \* size of the palette: 256
  Colours,        \* the colours a program may ask for
  TooBright       \* those with a component of 64 or more

Contexts == 1..MAX_PROCESSES
Null == 0                   \* the null pointer: no context
Free == -1                  \* the pid of a free context
Palette == 0..(NColours - 1)
Boot == "boot"              \* the colours set up by the BIOS

ASSUME PaintAssumption ==
  /\ MAX_PROCESSES \in Nat \ {0} /\ Procs \subseteq Nat \ {0}
  /\ FirstPen \in Nat \ {0} /\ NColours \in Nat /\ FirstPen < NColours
  /\ Coords \subseteq Nat /\ Indices \subseteq Int
  /\ Boot \notin Colours /\ TooBright \subseteq Colours

VARIABLES
  firstTime,
  hpid, pen,     \* hdcArray[k].pid; hdcArray[k].colour, .x and .y
  palette, dac,  \* the VGA's palette; its index and the components received
  indexWritten,  \* the indices marked in indexWritten
  pc,            \* per process: control
  i,             \* the loop variable of initHdcArray() and allocateHDC()
  index, rgb,    \* the arguments of setpencolour()
  hdc,           \* the handle it holds
  want,          \* what it has set its pen to
  defined,       \* the colour each index was last defined as
  overlap        \* two calls have overlapped

contexts == <<firstTime, hpid, pen, i, hdc, want>>
colours == <<palette, dac, indexWritten, index, rgb, defined>>
vars == <<contexts, colours, pc, overlap>>

FreshPen == [colour |-> FirstPen - 1, x |-> 0]   \* x stands for both coordinates
Whole(c) == <<c, c, c>>  \* the three components of a colour, each known by it

InBegin == {"init", "set", "scan", "claim"}
InSet == {"address", "r", "g", "b", "mark"}

TypeOK ==
  /\ firstTime \in {0, 1}
  /\ hpid \in [Contexts -> Procs \cup {Free, 0}]
  /\ pen \in [Contexts -> [colour : Palette, x : Coords \cup {0}]]
  /\ palette \in [Palette -> Seq(Colours \cup {Boot})]
  /\ \A k \in Palette : Len(palette[k]) = 3
  /\ dac.index \in Palette /\ Len(dac.data) \in 0..2
  /\ indexWritten \subseteq FirstPen..(NColours - 1)
  /\ pc \in [Procs -> {"user", "reset"} \cup InBegin \cup InSet]
  /\ i \in [Procs -> 1..(MAX_PROCESSES + 1)]
  /\ index \in [Procs -> Palette] /\ rgb \in [Procs -> Colours \cup {Boot}]
  /\ hdc \in [Procs -> Contexts \cup {Null}]
  /\ want \in [Procs -> [colour : Palette, x : Coords \cup {0}]]
  /\ defined \in [Palette -> Colours \cup {Boot}]
  /\ overlap \in BOOLEAN

\* Static variables are zero at boot: no context is marked free yet.
Init ==
  /\ firstTime = 0
  /\ hpid = [k \in Contexts |-> 0]
  /\ pen = [k \in Contexts |-> [colour |-> 0, x |-> 0]]
  /\ palette = [k \in Palette |-> Whole(Boot)]
  /\ dac = [index |-> 0, data |-> <<>>]
  /\ indexWritten = {}
  /\ pc = [p \in Procs |-> "user"]
  /\ i = [p \in Procs |-> 1]
  /\ index = [p \in Procs |-> 0]
  /\ rgb = [p \in Procs |-> Boot]
  /\ hdc = [p \in Procs |-> Null]
  /\ want = [p \in Procs |-> FreshPen]
  /\ defined = [k \in Palette |-> Boot]
  /\ overlap = FALSE

\* A call starts now.
Enters(p) == overlap' = (overlap \/ \E q \in Procs \ {p} : pc[q] # "user")

goto(p, l) == pc' = [pc EXCEPT ![p] = l]

-----------------------------------------------------------------------------
(* beginpaint()                                                             *)

\* The test of firstTime.
sys_beginpaint(p) ==
  /\ pc[p] = "user" /\ hdc[p] = Null
  /\ goto(p, IF firstTime # 1 THEN "init" ELSE "scan")
  /\ Enters(p)
  /\ UNCHANGED <<contexts, colours>>

\* One turn of the loop in initHdcArray().
initHdcArray(p) ==
  /\ pc[p] = "init"
  /\ hpid' = [hpid EXCEPT ![i[p]] = Free]
  /\ pen' = [pen EXCEPT ![i[p]] = FreshPen]
  /\ IF i[p] < MAX_PROCESSES
     THEN i' = [i EXCEPT ![p] = @ + 1] /\ UNCHANGED pc
     ELSE i' = [i EXCEPT ![p] = 1] /\ goto(p, "set")
  /\ UNCHANGED <<firstTime, hdc, want, colours, overlap>>

\* Mutant: the table is never marked as initialised.
SetFirstTimeForgotten(p) ==
  /\ pc[p] = "set"
  /\ goto(p, "scan")
  /\ UNCHANGED <<contexts, colours, overlap>>

SetFirstTime(p) ==
  /\ pc[p] = "set"
  /\ firstTime' = 1
  /\ goto(p, "scan")
  /\ UNCHANGED <<hpid, pen, i, hdc, want, colours, overlap>>

\* The loop of allocateHDC(): look at a context, then claim it.
ScanTaken(p) ==
  /\ pc[p] = "scan" /\ i[p] <= MAX_PROCESSES
  /\ hpid[i[p]] # Free
  /\ i' = [i EXCEPT ![p] = @ + 1]
  /\ UNCHANGED <<firstTime, hpid, pen, hdc, want, colours, pc, overlap>>

ScanFree(p) ==
  /\ pc[p] = "scan" /\ i[p] <= MAX_PROCESSES
  /\ hpid[i[p]] = Free
  /\ goto(p, "claim")
  /\ UNCHANGED <<contexts, colours, overlap>>

Claim(p) ==
  /\ pc[p] = "claim"
  /\ hpid' = [hpid EXCEPT ![i[p]] = p]
  /\ hdc' = [hdc EXCEPT ![p] = i[p]]
  /\ i' = [i EXCEPT ![p] = 1]
  /\ want' = [want EXCEPT ![p] = FreshPen]
  /\ goto(p, "user")
  /\ UNCHANGED <<firstTime, pen, colours, overlap>>

\* No free context: beginpaint() returns the null pointer, and what the process
\* then draws with it lands in its own memory at address 0.
ScanFull(p) ==
  /\ pc[p] = "scan" /\ i[p] > MAX_PROCESSES
  /\ i' = [i EXCEPT ![p] = 1]
  /\ goto(p, "user")
  /\ UNCHANGED <<firstTime, hpid, pen, hdc, want, colours, overlap>>

-----------------------------------------------------------------------------
(* endpaint(), moveto() and the end of a process.                           *)

\* releaseHDC() frees the context first ...
sys_endpaint(p) ==
  /\ pc[p] = "user" /\ hdc[p] # Null
  /\ hpid' = [hpid EXCEPT ![hdc[p]] = Free]
  /\ goto(p, "reset")
  /\ Enters(p)
  /\ UNCHANGED <<firstTime, pen, i, hdc, want, colours>>

\* ... and resets the pen afterwards.
ResetPen(p) ==
  /\ pc[p] = "reset"
  /\ pen' = [pen EXCEPT ![hdc[p]] = FreshPen]
  /\ hdc' = [hdc EXCEPT ![p] = Null]
  /\ want' = [want EXCEPT ![p] = FreshPen]
  /\ goto(p, "user")
  /\ UNCHANGED <<firstTime, hpid, i, colours, overlap>>

sys_moveto(p, v) ==
  /\ pc[p] = "user" /\ hdc[p] # Null
  /\ pen' = [pen EXCEPT ![hdc[p]].x = v]
  /\ want' = [want EXCEPT ![p].x = v]
  /\ UNCHANGED <<firstTime, hpid, i, hdc, colours, pc, overlap>>

\* A process exits while painting: exit() knows nothing of contexts, and the
\* one it held stays marked with its pid.
exit(p) ==
  /\ pc[p] = "user" /\ hdc[p] # Null
  /\ hdc' = [hdc EXCEPT ![p] = Null]
  /\ want' = [want EXCEPT ![p] = FreshPen]
  /\ UNCHANGED <<firstTime, hpid, pen, i, colours, pc, overlap>>

-----------------------------------------------------------------------------
(* The DAC.  It collects three components and goes on to the next index.    *)

\* outb(0x3C8, k)
Address(k) ==
  /\ dac' = [index |-> k, data |-> <<>>]
  /\ UNCHANGED palette

\* outb(0x3C9, a component of c)
Data(c) ==
  IF Len(dac.data) < 2
  THEN dac' = [dac EXCEPT !.data = Append(@, c)] /\ UNCHANGED palette
  ELSE /\ palette' = [palette EXCEPT ![dac.index] = Append(dac.data, c)]
       /\ dac' = [index |-> (dac.index + 1) % NColours, data |-> <<>>]

-----------------------------------------------------------------------------
(* setpencolour() and selectpen()                                           *)

ValidIndex(k) == ~(k < FirstPen \/ k >= NColours)

\* Up to the first port write; invalid arguments change nothing.
sys_setpencolour(p, k, c) ==
  /\ pc[p] = "user"
  /\ ValidIndex(k) /\ c \notin TooBright
  /\ goto(p, "address")
  /\ index' = [index EXCEPT ![p] = k]
  /\ rgb' = [rgb EXCEPT ![p] = c]
  /\ Enters(p)
  /\ UNCHANGED <<contexts, palette, dac, indexWritten, defined>>

\* Mutant: the index is not written to port 0x3C8.
OutIndexForgotten(p) ==
  /\ pc[p] = "address"
  /\ goto(p, "r")
  /\ UNCHANGED <<contexts, colours, overlap>>

OutIndex(p) ==
  /\ pc[p] = "address"
  /\ Address(index[p])
  /\ goto(p, "r")
  /\ UNCHANGED <<contexts, indexWritten, index, rgb, defined, overlap>>

\* The three writes of r, g and b.
OutData(p) ==
  /\ pc[p] \in {"r", "g", "b"}
  /\ Data(rgb[p])
  /\ goto(p, [r |-> "g", g |-> "b", b |-> "mark"][pc[p]])
  /\ UNCHANGED <<contexts, indexWritten, index, rgb, defined, overlap>>

\* indexWritten[index] = 1.  The array is one entry short for the last index;
\* in the build that entry falls into unused padding and works.
Mark(p) ==
  /\ pc[p] = "mark"
  /\ indexWritten' = indexWritten \cup {index[p]}
  /\ defined' = [defined EXCEPT ![index[p]] = rgb[p]]
  /\ goto(p, "user")
  /\ index' = [index EXCEPT ![p] = 0]
  /\ rgb' = [rgb EXCEPT ![p] = Boot]
  /\ UNCHANGED <<contexts, palette, dac, overlap>>

Selectable(k) == k < FirstPen \/ k \in indexWritten

\* An index that is not selectable changes nothing.
sys_selectpen(p, k) ==
  /\ pc[p] = "user" /\ hdc[p] # Null
  /\ Selectable(k)
  /\ pen' = [pen EXCEPT ![hdc[p]].colour = k]
  /\ want' = [want EXCEPT ![p].colour = k]
  /\ UNCHANGED <<firstTime, hpid, i, hdc, colours, pc, overlap>>

Next ==
  \E p \in Procs :
    \/ sys_beginpaint(p) \/ initHdcArray(p) \/ SetFirstTime(p)
    \/ ScanTaken(p) \/ ScanFree(p) \/ Claim(p) \/ ScanFull(p)
    \/ sys_endpaint(p) \/ ResetPen(p) \/ exit(p)
    \/ \E v \in Coords : sys_moveto(p, v)
    \/ \E k \in Indices, c \in Colours : sys_setpencolour(p, k, c)
    \/ OutIndex(p) \/ OutData(p) \/ Mark(p)
    \/ \E k \in Indices : sys_selectpen(p, k)

Spec == Init /\ [][Next]_vars

-----------------------------------------------------------------------------

\* As long as calls do not overlap, the context a process paints with is its
\* own: marked with its pid, held by nobody else, and with the pen it has set
\* (sys_beginpaint, allocateHDC, releaseHDC).
PrivateContext ==
  ~overlap =>
    \A p \in Procs :
      hdc[p] # Null /\ pc[p] # "reset" =>
        /\ hpid[hdc[p]] = p /\ pen[hdc[p]] = want[p]
        /\ \A q \in Procs \ {p} : hdc[q] # hdc[p]

\* As long as calls do not overlap, every colour that is not being redefined,
\* the standard ones included, is what it was last defined as, and every pen in
\* use is a standard one or one that has been defined (sys_setpencolour,
\* sys_selectpen and the DAC's own index).
ColoursAsDefined ==
  ~overlap =>
    /\ \A k \in Palette :
         (\A p \in Procs : pc[p] \in InSet => index[p] # k) => palette[k] = Whole(defined[k])
    /\ \A k \in Contexts : pen[k].colour < FirstPen \/ defined[pen[k].colour] # Boot

\* The context a process paints with carries its pid (graphics.c: "Creates an
\* array of hdcs that can be assigned to processes", "Brush Process ID").
ContextAssigned ==
  \A p \in Procs : hdc[p] # Null /\ pc[p] # "reset" => hpid[hdc[p]] = p

=============================================================================
