------------------------------- MODULE MCShell -------------------------------
(***************************************************************************)
(* Instances of Shell for TLC: every short line, and sessions of longer    *)
(* ones.                                                                   *)
(***************************************************************************)
EXTENDS Shell

\* Every line of up to four characters.
Short == UNION {[1..n -> {"e", " "} \cup symbols] : n \in 1..4}

Long ==
  { << <<"e", "|", "c", "|", "c">> >>,
    << <<"e", ">", "e", "x", "|", "c", " ", "<", "x">> >>,
    << <<"(", "e", ";", "e", ")", "|", "c", ">", "x">> >>,
    << <<"(", "e", "&", ")", "|", "c", ";", "c", "d">> >>,
    << <<"e", "|", "c", "&">>, <<"c", ">", ">", "x">> >>,
    << <<"c", "d", " ", "x">>, <<"e", "&">>, <<"e", ";", "c">> >>,
    << <<>>, <<"e", "|", "x">>, <<"c", " ", "e", " ", "e">> >>,
    << <<"e", "&", ";", "e", "|", "e">>, <<>> >>,
    << <<"e", ">", "x", ">", "y", "<", "z">> >>,
    << <<"(", "e", "|", "c", ")", "|", "(", "c", "|", "c", ")">> >>,
    << <<"(", "e", "&", ";", "e", ")", "|", "(", "c", ";", "c", "&", ")">> >>,
    << <<"(", "(", "e", "|", "c", ")", ">", "x", ")", "<", "y">> >> }

AllSessions == { <<b>> : b \in Short } \cup Long

=============================================================================
