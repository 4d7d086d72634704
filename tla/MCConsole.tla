------------------------------ MODULE MCConsole ------------------------------
(***************************************************************************)
(* Instances of Console for TLC: a process that reads and another one that *)
(* reads, polls or switches modes.                                         *)
(***************************************************************************)
EXTENDS Console

Nothing == [p \in Procs |-> {}]
None == [keys |-> {}, chars |-> {}, sizes |-> Nothing, texts |-> Nothing, modes |-> Nothing,
         gets |-> {}, kills |-> {}, draws |-> {}]

\* Lines typed on the serial line, edited, and read by two processes.
Reading == [None EXCEPT !.chars = {"a", "^D"}, !.sizes = [p1 |-> {2}, p2 |-> {1}],
                        !.kills = {"p1"}]
Lining == [None EXCEPT !.chars = {"a", "\r"}, !.sizes["p1"] = {4}]
Editing == [None EXCEPT !.chars = {"a", "c", "^U", "DEL"}, !.sizes["p1"] = {1}]
\* Keys held down in every order, read by interrupts and by getch().
Shifting == [None EXCEPT !.keys = {"shift", "rightshift", "capslock", "a"}, !.gets = {"p1"}]
Controls == [None EXCEPT !.keys = {"ctl", "rightctl", "u", "up"}, !.gets = {"p1"}]
\* Output, echo and a process that switches modes; then two that do and that draw.
Showing == [None EXCEPT !.chars = {"a", "^H", "^P"}, !.texts["p1"] = {<<"b", "\n">>},
                        !.modes["p2"] = {3, 18}]
Spoiling == [None EXCEPT !.texts["p1"] = {<<"b">>}, !.modes = [p1 |-> {7}, p2 |-> {3, 19}],
                         !.draws = {"p1"}]

AllPrograms == {Reading, Lining, Editing, Shifting, Controls, Showing, Spoiling}

=============================================================================
