------------------------------- MODULE MCPaint -------------------------------
(***************************************************************************)
(* Instances of Paint for TLC: three processes, two contexts, a palette of *)
(* four colours of which two are standard, and arguments on both sides of  *)
(* every bound.  Contexts that are never closed fill the table.            *)
(***************************************************************************)
EXTENDS Paint

\* Nothing is claimed of behaviours in which calls have overlapped, and overlap
\* stays TRUE: they are not followed any further.
NoOverlap == ~overlap

=============================================================================
