------------------------------- MODULE MCMain -------------------------------
(***************************************************************************)
(* A small instance of Main for TLC.                                       *)
(***************************************************************************)
EXTENDS Main

\* Two failed arguments can stand before, between and behind two paths.
MCArgs == 4

\* A path whose terminator needs eight bytes more, and one whose does not; one
\* that is processed, and one that is passed over.
MCPaths == {[length |-> 8, wav |-> TRUE], [length |-> 5, wav |-> FALSE]}

\* The longer path is as long as a path can be.
MCPathMax == 9

\* The header takes 152 bytes: all paths fit in, and not many entries besides.
MCGlobalSize == 152 + 40

\* Two paths of either length fit in, three longer ones do not.
MCTempSize == 40

MCMaxEntries == 3
=============================================================================
