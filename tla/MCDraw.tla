------------------------------- MODULE MCDraw -------------------------------
(***************************************************************************)
(* Draw on a screen small enough to try every line and every rectangle.    *)
(***************************************************************************)
EXTENDS Draw

=============================================================================
