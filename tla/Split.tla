------------------------------- MODULE Split -------------------------------
(***************************************************************************)
(* What calling str_tokenize again and again promises: the runs of a       *)
(* string that hold no separator, one after the other from the left, and   *)
(* then no more.  Tokenize, the loop of the code, implements this.         *)
(***************************************************************************)
EXTENDS Integers

VARIABLES
    length,     \* of the string
    separator,  \* whether the character at a position is the separator
    tokens,     \* what was returned so far: the positions <<first, end>>
    ended       \* str_tokenize has returned false

vars == <<length, separator, tokens, ended>>

\* The longest runs without a separator, from a first position up to an end.
Runs ==
    {r \in (0..(length - 1)) \X (1..length) :
        /\ r[1] < r[2]
        /\ \A p \in r[1]..(r[2] - 1) : ~separator[p]
        /\ r[1] = 0 \/ separator[r[1] - 1]
        /\ r[2] = length \/ separator[r[2]]}

Init ==
    /\ length \in Nat
    /\ separator \in [0..(length - 1) -> BOOLEAN]
    /\ tokens = {} /\ ended = FALSE

Token ==
    /\ ~ended
    /\ \E r \in Runs \ tokens :
          /\ \A q \in Runs \ tokens : r[1] <= q[1]
          /\ tokens' = tokens \cup {r}
    /\ UNCHANGED <<length, separator, ended>>

NoToken ==
    /\ ~ended /\ tokens = Runs
    /\ ended' = TRUE
    /\ UNCHANGED <<length, separator, tokens>>

Spec == Init /\ [][Token \/ NoToken]_vars
=============================================================================
