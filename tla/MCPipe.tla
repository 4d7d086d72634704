-------------------------------- MODULE MCPipe -------------------------------
(***************************************************************************)
(* Instances of Pipe for TLC: two processes, either of which may hold both *)
(* ends, and a pipe of two bytes whose counters wrap after two rounds.     *)
(***************************************************************************)
EXTENDS Pipe

=============================================================================
