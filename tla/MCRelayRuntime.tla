--------------------------- MODULE MCRelayRuntime ---------------------------
(***************************************************************************)
(* Two connections with two tasks each, one room, one stream.              *)
(***************************************************************************)
EXTENDS RelayRuntime, FiniteSetsExt, TLC

\* Once a task of every connection has acted late nothing is claimed of any of them any
\* more: such a state is checked, and not explored further.
SomethingToClaim == \E c \in Sessions : ~late[c]

\* Two unfinished tasks of one connection and one of the other are enough for every
\* order of two tasks of a connection, with a step of the other between them.
FewTasks ==
    MapThenSumSet(LAMBDA c : tasks[c] + registering[c], Sessions) <= 3

Symmetry == Permutations(Sessions)
=============================================================================
