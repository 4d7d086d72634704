------------------------------- MODULE MCNames -------------------------------
(* Two processes in a tree with two names per directory. *)
EXTENDS Names, TLC

CONSTANTS a, b

Of(op, path) == [op |-> op, abs |-> FALSE, path |-> path, toabs |-> FALSE, to |-> <<>>]
Link(old, new) == [Of("link", old) EXCEPT !.to = new, !.toabs = TRUE]

\* Two names of one inode come and go.
TwoNames == {Of("mknod", <<a>>), Of("unlink", <<a>>), Link(<<a>>, <<b>>), Of("unlink", <<b>>)}

\* A file that is open may lose its name, which may become a directory's.
OpenFiles == {Of("create", <<a>>), Of("mkdir", <<a>>), Of("openw", <<a>>),
              Of("close", <<>>), Of("unlink", <<a>>)}

\* A directory and its subdirectory are removed while processes are in it.
Subdirectory == {Of("mkdir", <<a>>), Of("unlink", <<a>>), Of("unlink", <<a, a>>),
                 Of("chdir", <<a>>), Of("chdir", <<"..">>)}

\* Links that fail late: to a name that is there, to a directory that is
\* not, to ".", of a directory.
BadLinks == {Of("mkdir", <<a>>), Of("mknod", <<b>>), Of("unlink", <<a>>), Of("unlink", <<".">>),
             Link(<<b>>, <<a, b>>), Link(<<b>>, <<a, ".">>), Link(<<b>>, <<>>), Link(<<a>>, <<b>>)}

MCPrograms == {TwoNames, OpenFiles, Subdirectory, BadLinks}
Linkunlink == {{Of("create", <<a>>), Of("close", <<>>), Of("unlink", <<a>>), Link(<<b>>, <<a>>)}}
ProcSymmetry == Permutations(Procs)
=============================================================================
