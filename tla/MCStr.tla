------------------------------- MODULE MCStr -------------------------------
(***************************************************************************)
(* A small instance of Str for TLC: an arena of six bytes in blocks of     *)
(* two, and a letter and a blank, so that three strings meet a full arena, *)
(* views of the same bytes and blanks at both ends.                        *)
(***************************************************************************)
EXTENDS Str

MCCapacity == 6
MCAlignment == 2

\* An arena of which a part was used before.
MCContents == {[a \in 0..5 |-> IF a = 1 THEN "nul" ELSE "a"]}

MCChars == {"a", " "}
MCCStrings == {<<" ", "a", " ">>}
MCLengths == {3}
MCCuts == {0, 1, 2}
MCMaxStrs == 3
=============================================================================
