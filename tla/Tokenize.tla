------------------------------ MODULE Tokenize ------------------------------
(***************************************************************************)
(* str_tokenize (src/src/base/string.h:323-370), called with the same      *)
(* context until it returns false, as the comment at line 322 says.  Of a  *)
(* character only this is kept: whether it is the separator.               *)
(***************************************************************************)
EXTENDS Integers

CONSTANT MaxLength    \* bound on the length of the string

ASSUME LengthAssumption == MaxLength \in Nat

VARIABLES
    pc,                 \* "call", "scan" in the loop, "found" behind it, "end"
    length, separator,  \* the string
    context,            \* where the last call stopped
    position,           \* the character the loop looks at
    start_position, seen_non_sep, first_sep_found, last_sep_found,
    tokens              \* history: the tokens returned, as <<first, end>>

string == <<length, separator>>
found == <<seen_non_sep, first_sep_found, last_sep_found>>
vars == <<pc, string, context, position, start_position, found, tokens>>

Init ==
    /\ pc = "call"
    /\ length \in 0..MaxLength
    /\ separator \in [0..(length - 1) -> BOOLEAN]
    /\ context = -1
    /\ position = 0 /\ start_position = 0
    /\ seen_non_sep = FALSE
    /\ first_sep_found = -1 /\ last_sep_found = -1
    /\ tokens = {}

\* A call that starts where the last one stopped.
Call ==
    /\ pc = "call" /\ context < length
    /\ pc' = "scan"
    /\ position' = context + 1 /\ start_position' = context + 1
    /\ seen_non_sep' = FALSE
    /\ first_sep_found' = -1 /\ last_sep_found' = -1
    /\ UNCHANGED <<string, context, tokens>>

\* Here and below, an operator named after another with a suffix is a mistaken
\* form of it, which the properties tell from the definition.
LeadingSeparator ==
    /\ pc = "scan" /\ position < length
    /\ separator[position] /\ ~seen_non_sep
    /\ start_position' = start_position + 1 /\ position' = position + 1
    /\ UNCHANGED <<pc, string, context, found, tokens>>

\* A separator behind the token; there may be more of them.
SeparatorBehind ==
    /\ pc = "scan" /\ position < length
    /\ separator[position] /\ seen_non_sep
    /\ first_sep_found' = IF first_sep_found = -1 THEN position
                                                  ELSE first_sep_found
    /\ last_sep_found' = position
    /\ position' = position + 1
    /\ UNCHANGED <<pc, string, context, start_position, seen_non_sep, tokens>>

\* A character that is no separator: of the next token, the last of the string,
\* or any other.  A string may end without a separator: by mistake, unnoticed.
CharacterOr(last) ==
    /\ pc = "scan" /\ position < length
    /\ ~separator[position]
    /\ seen_non_sep' = TRUE
    /\ \/ /\ last_sep_found # -1
          /\ pc' = "found"
          /\ UNCHANGED <<position, first_sep_found, last_sep_found>>
       \/ /\ last_sep_found = -1 /\ last
          /\ pc' = "found"
          /\ first_sep_found' = length /\ last_sep_found' = length
          /\ UNCHANGED position
       \/ /\ last_sep_found = -1 /\ ~last
          /\ position' = position + 1
          /\ UNCHANGED <<pc, first_sep_found, last_sep_found>>
    /\ UNCHANGED <<string, context, start_position, tokens>>

CharacterNotLast == CharacterOr(FALSE)

Character == CharacterOr(position = length - 1)

\* The loop is over and a token was found.  By mistake, the next call starts
\* where this one did.
TokenUpTo(last) ==
    /\ pc = "found" \/ (pc = "scan" /\ position >= length)
    /\ first_sep_found # -1
    /\ pc' = "call"
    /\ tokens' = tokens \cup {<<start_position, first_sep_found>>}
    /\ context' = last
    /\ UNCHANGED <<string, position, start_position, found>>

TokenContextKept == TokenUpTo(context)

Token == TokenUpTo(last_sep_found)

\* false is returned: behind the last token, or for want of one.
NoToken ==
    /\ \/ pc = "call" /\ context >= length
       \/ pc = "scan" /\ position >= length /\ first_sep_found = -1
    /\ pc' = "end"
    /\ UNCHANGED <<string, context, position, start_position, found, tokens>>

Next ==
    \/ Call
    \/ LeadingSeparator
    \/ SeparatorBehind
    \/ Character
    \/ Token
    \/ NoToken

\* One thread calls until it is told that there are no more tokens.
Spec == Init /\ [][Next]_vars /\ WF_vars(Next)

-----------------------------------------------------------------------------
TypeOK ==
    /\ pc \in {"call", "scan", "found", "end"}
    /\ length \in 0..MaxLength
    /\ separator \in [0..(length - 1) -> BOOLEAN]
    /\ context \in -1..length
    /\ position \in 0..length /\ start_position \in 0..length
    /\ seen_non_sep \in BOOLEAN
    /\ first_sep_found \in -1..length /\ last_sep_found \in -1..length
    /\ tokens \subseteq (0..length) \X (0..length)

\* The loop returns the runs between separators, none twice, none left out, from
\* the left, and false exactly when there are no more (string.h:351: also the
\* run that ends with the string).
Contract == INSTANCE Split WITH ended <- pc = "end"

ImplementsSplit == Contract!Spec

\* A caller that calls until false comes to an end.
TokensEnd == <>(pc = "end")
=============================================================================
