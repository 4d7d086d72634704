-------------------------------- MODULE Draw --------------------------------
(***************************************************************************)
(* The drawing algorithms of graphics.c: lineto() and fillrect(), one call *)
(* at a time, on a screen of W by H pixels.                                *)
(*                                                                         *)
(* A pixel is a pair of coordinates; BressenhamLine() is run one turn of   *)
(* its loop per step, the straight loops in one step each.                 *)
(***************************************************************************)
EXTENDS Integers

CONSTANTS W, H   \* 320 and 200

Screen == (0..(W - 1)) \X (0..(H - 1))

ASSUME DrawAssumption == W \in Nat \ {0} /\ H \in Nat \ {0}

VARIABLES
  pc,        \* in a call: "line" or "rect"; after it: "lined" or "filled"
  hdc,       \* the brush position <<hdc->x, hdc->y>>
  from, to,  \* where the brush was and the arguments; two corners for fillrect
  x, y, slope_error_new,  \* the local variables of BressenhamLine()
  pixels     \* the pixels drawn by the call

vars == <<pc, hdc, from, to, x, y, slope_error_new, pixels>>

\* BressenhamLine() may take the brush off the screen, but not far.
TypeOK ==
  /\ pc \in {"idle", "line", "lined", "rect", "filled"}
  /\ hdc \in (0..(W - 1)) \X ((-W)..(H + 1))
  /\ from \in Screen /\ to \in Screen
  /\ x \in 0..W /\ y \in (-W)..(H + 1) /\ slope_error_new \in Int
  /\ pixels \subseteq (0..(W - 1)) \X ((-W)..(H + 1))

Init ==
  /\ pc = "idle"
  /\ hdc = <<0, 0>>
  /\ from = hdc
  /\ to = hdc
  /\ x = 0 /\ y = 0 /\ slope_error_new = 0
  /\ pixels = {}

lesser(a, b) == IF a < b THEN a ELSE b
greater(a, b) == IF a < b THEN b ELSE a

dx == to[1] - from[1]
dy == to[2] - from[2]
m_new == 2 * dy

\* Between two calls.  Bound: lines and rectangles are drawn with the brush on
\* the screen, where it is after moveto().
Ready == pc \in {"idle", "lined", "filled"} /\ hdc \in Screen

-----------------------------------------------------------------------------

sys_moveto(u) ==
  /\ pc \in {"idle", "lined", "filled"}
  /\ hdc' = u
  /\ pc' = "idle"
  /\ from' = u /\ to' = u
  /\ x' = 0 /\ y' = 0 /\ slope_error_new' = 0
  /\ pixels' = {}

\* VerticalLine(): from the smaller to the larger y; the direction flag makes
\* the brush end at the target.
VerticalLine(u) ==
  /\ u[1] = hdc[1]
  /\ pixels' = {hdc[1]} \X (lesser(hdc[2], u[2])..greater(hdc[2], u[2]))
  /\ hdc' = <<hdc[1], u[2]>>
  /\ pc' = "lined"
  /\ x' = 0 /\ y' = 0 /\ slope_error_new' = 0

HorizontalLine(u) ==
  /\ u[1] # hdc[1] /\ u[2] = hdc[2]
  /\ pixels' = (lesser(hdc[1], u[1])..greater(hdc[1], u[1])) \X {hdc[2]}
  /\ hdc' = <<u[1], hdc[2]>>
  /\ pc' = "lined"
  /\ x' = 0 /\ y' = 0 /\ slope_error_new' = 0

\* BressenhamLine() up to its loop.
BressenhamStart(u) ==
  /\ u[1] # hdc[1] /\ u[2] # hdc[2]
  /\ x' = hdc[1]
  /\ y' = hdc[2]
  /\ slope_error_new' = 2 * (u[2] - hdc[2]) - (u[1] - hdc[1])
  /\ pc' = "line"
  /\ pixels' = {}
  /\ UNCHANGED hdc

sys_lineto(u) ==
  /\ Ready
  /\ from' = hdc
  /\ to' = u
  /\ IF u[1] = hdc[1] \/ u[2] = hdc[2]
     THEN VerticalLine(u) \/ HorizontalLine(u)
     ELSE BressenhamStart(u)

\* Whether y is advanced after this pixel, with the error e = slope_error_new
\* plus the slope.
Advances(e) == (e >= 0 /\ dy > 0) \/ (e <= 0 /\ dy < 0)

\* Mutant: one pixel too many.
ContinuesPast == x <= to[1] + 1

\* The condition of the loop.
Continues == x <= to[1]

\* One turn of the loop in BressenhamLine(), and its end.
BressenhamLine ==
  /\ pc = "line" /\ Continues
  /\ LET e == slope_error_new + m_new
         y_new == IF Advances(e) THEN y + (IF dy > 0 THEN 1 ELSE -1) ELSE y
     IN  /\ pixels' = pixels \cup {<<x, y>>}
         /\ y' = y_new
         /\ slope_error_new' = IF Advances(e) THEN e - 2 * dx ELSE e
         /\ hdc' = <<x, y_new>>
  /\ x' = x + 1
  /\ UNCHANGED <<pc, from, to>>

BressenhamEnd ==
  /\ pc = "line" /\ ~Continues
  /\ pc' = "lined"
  /\ UNCHANGED <<hdc, from, to, x, y, slope_error_new, pixels>>

-----------------------------------------------------------------------------

\* sys_fillrect(): the rows from the smaller to the larger y, each drawn by
\* HorizontalLine(), which draws nothing when x1 > x2 but moves the brush.
sys_fillrect(a, b) ==
  /\ Ready
  /\ from' = a
  /\ to' = b
  /\ y' = lesser(a[2], b[2])
  /\ pc' = "rect"
  /\ x' = 0 /\ slope_error_new' = 0
  /\ pixels' = {}
  /\ UNCHANGED hdc

\* Mutant: the last row is left out.
FillRowShort ==
  /\ pc = "rect"
  /\ pixels' = pixels \cup ((from[1]..to[1]) \X {y})
  /\ hdc' = <<to[1], hdc[2]>>
  /\ y' = y + 1
  /\ pc' = IF y + 1 >= greater(from[2], to[2]) THEN "filled" ELSE "rect"
  /\ UNCHANGED <<from, to, x, slope_error_new>>

FillRow ==
  /\ pc = "rect"
  /\ pixels' = pixels \cup ((from[1]..to[1]) \X {y})
  /\ hdc' = <<to[1], hdc[2]>>
  /\ y' = y + 1
  /\ pc' = IF y + 1 > greater(from[2], to[2]) THEN "filled" ELSE "rect"
  /\ UNCHANGED <<from, to, x, slope_error_new>>

Next ==
  \/ \E u \in Screen : sys_moveto(u) \/ sys_lineto(u)
  \/ BressenhamLine \/ BressenhamEnd
  \/ \E a, b \in Screen : sys_fillrect(a, b)
  \/ FillRow

Spec == Init /\ [][Next]_vars

-----------------------------------------------------------------------------

\* A horizontal or vertical line, in either direction, is exactly the segment and
\* leaves the brush at the target (VerticalLine, HorizontalLine). A line to the
\* right and down that is no steeper than the diagonal has one pixel in every
\* column, each at most one pixel from the true line, starts at the brush and
\* leaves the brush in the last column (BressenhamLine).
LinesClose ==
  pc = "lined" =>
    /\ dx = 0 \/ dy = 0 =>
         /\ pixels = (lesser(from[1], to[1])..greater(from[1], to[1]))
                      \X (lesser(from[2], to[2])..greater(from[2], to[2]))
         /\ hdc = to
    /\ 0 < dy /\ dy <= dx =>
         /\ from \in pixels /\ hdc[1] = to[1]
         /\ \A c \in from[1]..to[1] : \E r \in from[2]..(to[2] + 1) :
              /\ \A q \in pixels : q[1] = c <=> q = <<c, r>>
              /\ (r - from[2]) * dx - (c - from[1]) * dy \in (-dx)..dx
         /\ \A q \in pixels : q[1] \in from[1]..to[1]

\* fillrect() with x1 <= x2 fills exactly the rectangle, whatever the order of
\* y1 and y2 (sys_fillrect).
FillExact ==
  pc = "filled" /\ from[1] <= to[1] =>
    pixels = (from[1]..to[1]) \X (lesser(from[2], to[2])..greater(from[2], to[2]))

\* lineto() leaves the brush at its arguments (graphics.c: "Target X coord",
\* "Target Y coord").
BrushAtTarget == pc = "lined" => hdc = to

=============================================================================
