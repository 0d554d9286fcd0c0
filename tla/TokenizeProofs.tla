--------------------------- MODULE TokenizeProofs ---------------------------
(***************************************************************************)
(* Proofs about Tokenize, for strings of every length and content: the     *)
(* loop implements Split.                                                  *)
(***************************************************************************)
EXTENDS Tokenize, TLAPS

(***************************************************************************)
(* The inductive invariant.  Between calls, what was returned is the runs  *)
(* that begin up to context, and context is no character of a run that     *)
(* goes on.  In the loop, the characters from context on are separators,   *)
(* then the token, then separators again.                                  *)
(***************************************************************************)
Runs == Contract!Runs

ReturnedUpToContext == tokens = {r \in Runs : r[1] <= context}

ContextBetween ==
    context \in {-1, length} \/ (context \in 0..(length - 1) /\ separator[context])

AllSeparators(from, to) == \A p \in from..to : separator[p]

NoSeparators(from, to) == \A p \in from..to : ~separator[p]

StartKnown ==
    /\ context < length
    /\ start_position > context
    /\ AllSeparators(context + 1, start_position - 1)

\* No character of a token was seen; a part of it was; or all of it.
Leading ==
    /\ pc = "scan" /\ ~seen_non_sep /\ position = start_position
    /\ first_sep_found = -1 /\ last_sep_found = -1

Inside ==
    /\ pc = "scan" /\ seen_non_sep
    /\ first_sep_found = -1 /\ last_sep_found = -1
    /\ start_position < position /\ position < length
    /\ NoSeparators(start_position, position - 1)

Behind ==
    /\ pc = "scan" => position = last_sep_found + 1
    /\ seen_non_sep
    /\ start_position < first_sep_found
    /\ NoSeparators(start_position, first_sep_found - 1)
    /\ \/ /\ pc = "found"
          /\ first_sep_found = length /\ last_sep_found = length
       \/ /\ first_sep_found <= last_sep_found /\ last_sep_found < length
          /\ AllSeparators(first_sep_found, last_sep_found)

ScanKnown ==
    pc \in {"scan", "found"} => StartKnown /\ (Leading \/ Inside \/ Behind)

AllReturned == pc = "end" => tokens = Runs

TokenizeInv ==
    /\ TypeOK
    /\ ReturnedUpToContext /\ ContextBetween
    /\ ScanKnown
    /\ AllReturned

-----------------------------------------------------------------------------
(* The runs of a string that stays the same.                               *)

LEMMA RunsOf ==
    ASSUME NEW r
    PROVE  r \in Runs <=>
             /\ r \in (0..(length - 1)) \X (1..length)
             /\ r[1] < r[2]
             /\ NoSeparators(r[1], r[2] - 1)
             /\ r[1] = 0 \/ separator[r[1] - 1]
             /\ r[2] = length \/ separator[r[2]]
  BY DEF Runs, Contract!Runs, NoSeparators

LEMMA RunsSame == UNCHANGED string => Runs' = Runs
  BY DEF string, Runs, Contract!Runs

\* A run that begins where another does is that run.
LEMMA RunsApart ==
    ASSUME length \in Nat, NEW r \in Runs, NEW q \in Runs, r[1] = q[1]
    PROVE  r = q
<1>1. /\ r \in (0..(length - 1)) \X (1..length)
      /\ q \in (0..(length - 1)) \X (1..length)
      /\ r[1] < r[2] /\ q[1] < q[2]
      /\ NoSeparators(r[1], r[2] - 1) /\ NoSeparators(q[1], q[2] - 1)
      /\ r[2] = length \/ separator[r[2]]
      /\ q[2] = length \/ separator[q[2]]
  BY RunsOf
<1>2. r[2] = q[2]
  <2>1. r[2] \in Int /\ q[2] \in Int /\ r[1] \in Int
    BY <1>1
  <2>2. ~(r[2] < q[2])
    BY <1>1, <2>1 DEF NoSeparators
  <2>3. ~(q[2] < r[2])
    BY <1>1, <2>1 DEF NoSeparators
  <2> QED  BY <2>1, <2>2, <2>3
<1> QED  BY <1>1, <1>2

\* Between context and a token there is no other run, nor behind the token up to
\* the last separator found.
LEMMA TokenIsNextRun ==
    ASSUME TypeOK, ContextBetween, StartKnown, Behind
    PROVE  /\ <<start_position, first_sep_found>> \in Runs
           /\ \A r \in Runs : /\ r[1] > context => r[1] >= start_position
                              /\ r[1] > start_position => r[1] > last_sep_found
<1> DEFINE t == <<start_position, first_sep_found>>
<1>1. /\ length \in Nat /\ context \in Int /\ start_position \in Nat
      /\ first_sep_found \in Int /\ last_sep_found \in Int
  BY LengthAssumption DEF TypeOK
<1>2. /\ context < length /\ start_position > context
      /\ AllSeparators(context + 1, start_position - 1)
  BY DEF StartKnown
<1>3. /\ start_position < first_sep_found /\ first_sep_found <= length
      /\ first_sep_found <= last_sep_found
      /\ NoSeparators(start_position, first_sep_found - 1)
  BY <1>1 DEF Behind, TypeOK
<1>4. AllSeparators(first_sep_found, last_sep_found) \/ first_sep_found = length
  BY DEF Behind
<1>5. t \in Runs
  <2>1. t \in (0..(length - 1)) \X (1..length)
    BY <1>1, <1>3
  <2>2. start_position = 0 \/ separator[start_position - 1]
    <3>1. CASE start_position = context + 1
      BY <1>1, <1>2, <3>1 DEF ContextBetween
    <3>2. CASE start_position # context + 1
      BY <1>1, <1>2, <3>2 DEF AllSeparators
    <3> QED  BY <3>1, <3>2
  <2>3. first_sep_found = length \/ separator[first_sep_found]
    BY <1>1, <1>3, <1>4 DEF AllSeparators
  <2> QED  BY <1>3, <2>1, <2>2, <2>3, RunsOf
<1>6. ASSUME NEW r \in Runs
      PROVE  /\ r[1] > context => r[1] >= start_position
             /\ r[1] > start_position => r[1] > last_sep_found
  <2>1. /\ r[1] \in 0..(length - 1) /\ r[2] \in Int /\ r[1] < r[2]
        /\ NoSeparators(r[1], r[2] - 1)
        /\ r[1] = 0 \/ separator[r[1] - 1]
    BY RunsOf
  <2>2. ~separator[r[1]]
    BY <2>1 DEF NoSeparators
  <2>3. r[1] > context => r[1] >= start_position
    BY <1>1, <1>2, <2>1, <2>2 DEF AllSeparators
  <2>4. r[1] > start_position => r[1] > last_sep_found
    <3> SUFFICES ASSUME r[1] > start_position, r[1] <= last_sep_found PROVE FALSE
      BY <1>1, <2>1
    <3>1. separator[r[1] - 1]
      BY <1>1, <2>1
    <3>2. CASE r[1] <= first_sep_found
      <4>1. r[1] - 1 \in start_position..(first_sep_found - 1)
        BY <1>1, <2>1, <3>2
      <4> QED  BY <1>3, <3>1, <4>1 DEF NoSeparators
    <3>3. CASE r[1] > first_sep_found
      <4>1. first_sep_found # length
        BY <1>1, <2>1, <3>3
      <4>2. r[1] \in first_sep_found..last_sep_found
        BY <1>1, <2>1, <3>3
      <4> QED  BY <1>4, <2>2, <4>1, <4>2 DEF AllSeparators
    <3> QED  BY <1>1, <2>1, <3>2, <3>3
  <2> QED  BY <2>3, <2>4
<1> QED  BY <1>5, <1>6

\* What a token adds to the runs that were returned.
LEMMA RunsUpToToken ==
    ASSUME TypeOK, ContextBetween, StartKnown, Behind
    PROVE  /\ {r \in Runs : r[1] <= last_sep_found} =
                  {r \in Runs : r[1] <= context}
                      \cup {<<start_position, first_sep_found>>}
           /\ <<start_position, first_sep_found>> \notin
                  {r \in Runs : r[1] <= context}
<1> DEFINE t == <<start_position, first_sep_found>>
<1>1. /\ length \in Nat /\ context \in Int /\ start_position \in Nat
      /\ last_sep_found \in Int
      /\ context < start_position /\ start_position <= last_sep_found
  BY LengthAssumption DEF TypeOK, StartKnown, Behind
<1>2. t \in Runs
  BY TokenIsNextRun
<1>3. ASSUME NEW r \in Runs
      PROVE  r[1] <= last_sep_found <=> r[1] <= context \/ r = t
  <2>1. r[1] \in Int
    BY RunsOf, <1>1
  <2>2. /\ r[1] > context => r[1] >= start_position
        /\ r[1] > start_position => r[1] > last_sep_found
    BY TokenIsNextRun
  <2>3. r[1] = start_position => r = t
    <3>1. t[1] = start_position  OBVIOUS
    <3> QED  BY <1>1, <1>2, <3>1, RunsApart
  <2>4. r = t => r[1] = start_position
    OBVIOUS
  <2> HIDE DEF t
  <2> QED  BY <1>1, <2>1, <2>2, <2>3, <2>4
<1>4. ~(t[1] <= context)
  BY <1>1
<1> QED  BY <1>2, <1>3, <1>4

-----------------------------------------------------------------------------
(* One lemma per action.                                                   *)

LEMMA InitInv == Init => TokenizeInv
<1> SUFFICES ASSUME Init PROVE TokenizeInv
  OBVIOUS
<1>1. TypeOK
  <2>1. length \in Nat
    BY LengthAssumption DEF Init
  <2>2. -1 \in -1..length /\ 0 \in 0..length
    BY <2>1
  <2> QED  BY <2>2 DEF Init, TypeOK
<1>2. \A r \in Runs : ~(r[1] <= context)
  <2> SUFFICES ASSUME NEW r \in Runs PROVE ~(r[1] <= context)
    OBVIOUS
  <2>1. r[1] \in 0..(length - 1)
    BY RunsOf
  <2> QED  BY <2>1, LengthAssumption DEF Init
<1>3. ReturnedUpToContext
  BY <1>2 DEF Init, ReturnedUpToContext
<1> QED  BY <1>1, <1>3 DEF Init, TokenizeInv, ContextBetween, ScanKnown, AllReturned

\* What a step that returns no token leaves as it is.
LEMMA ReturnedKept ==
    ASSUME ReturnedUpToContext, ContextBetween,
           UNCHANGED <<string, context, tokens>>
    PROVE  ReturnedUpToContext' /\ ContextBetween'
BY RunsSame DEF ReturnedUpToContext, ContextBetween, string

LEMMA CallInv == TokenizeInv /\ Call => TokenizeInv'
<1> SUFFICES ASSUME TokenizeInv, Call PROVE TokenizeInv'
  OBVIOUS
<1>1. ReturnedUpToContext' /\ ContextBetween'
  BY ReturnedKept DEF TokenizeInv, Call
<1>2. context' \in Int /\ length' \in Int /\ context' < length'
  BY LengthAssumption DEF TokenizeInv, TypeOK, Call, string
<1>3. TypeOK'
  <2>1. /\ length \in Nat /\ -1 \in -1..length
        /\ context \in -1..length /\ context + 1 \in 0..length
    BY LengthAssumption DEF TokenizeInv, TypeOK, Call
  <2> QED  BY <2>1 DEF TokenizeInv, TypeOK, Call, string
<1>4. StartKnown' /\ Leading'
  BY <1>2 DEF Call, StartKnown, AllSeparators, Leading, string
<1> QED  BY <1>1, <1>3, <1>4 DEF TokenizeInv, ScanKnown, AllReturned, Call

LEMMA LeadingSeparatorInv == TokenizeInv /\ LeadingSeparator => TokenizeInv'
<1> SUFFICES ASSUME TokenizeInv, LeadingSeparator PROVE TokenizeInv'
  OBVIOUS
<1>1. ReturnedUpToContext' /\ ContextBetween'
  BY ReturnedKept DEF TokenizeInv, LeadingSeparator
<1>2. StartKnown /\ Leading
  BY DEF TokenizeInv, ScanKnown, LeadingSeparator, Inside, Behind
<1>3. /\ length \in Nat /\ context \in Int /\ position \in Nat
      /\ position < length /\ start_position = position
  BY <1>2, LengthAssumption DEF TokenizeInv, TypeOK, Leading, LeadingSeparator
<1>4. TypeOK'
  BY <1>3 DEF TokenizeInv, TypeOK, LeadingSeparator, string, found
<1>5. StartKnown'
  BY <1>2, <1>3 DEF LeadingSeparator, StartKnown, AllSeparators, string
<1>6. Leading'
  BY <1>2 DEF LeadingSeparator, Leading, found
<1> QED  BY <1>1, <1>4, <1>5, <1>6
         DEF TokenizeInv, ScanKnown, AllReturned, LeadingSeparator

LEMMA SeparatorBehindInv == TokenizeInv /\ SeparatorBehind => TokenizeInv'
<1> SUFFICES ASSUME TokenizeInv, SeparatorBehind PROVE TokenizeInv'
  OBVIOUS
<1>1. ReturnedUpToContext' /\ ContextBetween'
  BY ReturnedKept DEF TokenizeInv, SeparatorBehind
<1>2. StartKnown /\ (Inside \/ Behind)
  BY DEF TokenizeInv, ScanKnown, SeparatorBehind, Leading
<1>3. /\ length \in Nat /\ position \in Nat /\ position < length
      /\ start_position \in Nat
      /\ first_sep_found \in Int /\ last_sep_found \in Int
  BY LengthAssumption DEF TokenizeInv, TypeOK, SeparatorBehind
<1>4. TypeOK'
  BY <1>3 DEF TokenizeInv, TypeOK, SeparatorBehind, string
<1>5. StartKnown'
  BY <1>2 DEF SeparatorBehind, StartKnown, AllSeparators, string
<1>6. Behind'
  <2>1. CASE Inside
    BY <1>3, <2>1 DEF SeparatorBehind, Inside, Behind, AllSeparators,
                      NoSeparators, string
  <2>2. CASE Behind
    <3>1. /\ position = last_sep_found + 1 /\ first_sep_found # -1
          /\ first_sep_found <= last_sep_found
          /\ AllSeparators(first_sep_found, last_sep_found)
          /\ start_position < first_sep_found
      BY <1>3, <2>2 DEF SeparatorBehind, Behind
    <3>2. AllSeparators(first_sep_found, position)
      BY <1>3, <3>1 DEF AllSeparators, SeparatorBehind
    <3> QED  BY <1>3, <2>2, <3>1, <3>2
             DEF SeparatorBehind, Behind, AllSeparators, NoSeparators, string
  <2> QED  BY <1>2, <2>1, <2>2
<1> QED  BY <1>1, <1>4, <1>5, <1>6
         DEF TokenizeInv, ScanKnown, AllReturned, SeparatorBehind

LEMMA CharacterInv == TokenizeInv /\ Character => TokenizeInv'
<1> SUFFICES ASSUME TokenizeInv, Character PROVE TokenizeInv'
  OBVIOUS
<1> USE DEF Character, CharacterOr
<1>1. ReturnedUpToContext' /\ ContextBetween'
  BY ReturnedKept DEF TokenizeInv
<1>2. /\ length \in Nat /\ position \in Nat /\ position < length
      /\ start_position \in Nat /\ context \in Int
      /\ first_sep_found \in Int /\ last_sep_found \in Int
  BY LengthAssumption DEF TokenizeInv, TypeOK
<1>3. StartKnown /\ (Leading \/ Inside \/ Behind)
  BY DEF TokenizeInv, ScanKnown
<1>4. TypeOK'
  BY <1>2 DEF TokenizeInv, TypeOK, string
<1>5. StartKnown'
  BY <1>3 DEF StartKnown, AllSeparators, string
<1>6. CASE last_sep_found # -1
  <2>1. Behind
    BY <1>3, <1>6 DEF Leading, Inside
  <2>2. first_sep_found <= last_sep_found /\ last_sep_found < length
    BY <2>1 DEF Behind
  <2>3. Behind'
    BY <1>2, <1>6, <2>1, <2>2 DEF Behind, AllSeparators, NoSeparators, string
  <2>4. pc' = "found"
    BY <1>6
  <2> QED  BY <1>1, <1>4, <1>5, <2>3, <2>4 DEF TokenizeInv, ScanKnown, AllReturned
<1>7. CASE last_sep_found = -1
  <2>1. Leading \/ Inside
    BY <1>2, <1>3, <1>7 DEF Behind
  <2>2. /\ start_position <= position /\ first_sep_found = -1
        /\ NoSeparators(start_position, position)
    BY <1>2, <2>1 DEF Leading, Inside, NoSeparators
  <2>3. CASE position = length - 1
    <3>1. Behind' /\ pc' = "found"
      BY <1>2, <1>7, <2>2, <2>3 DEF Behind, NoSeparators, string
    <3> QED  BY <1>1, <1>4, <1>5, <3>1 DEF TokenizeInv, ScanKnown, AllReturned
  <2>4. CASE position # length - 1
    <3>1. Inside' /\ pc' = "scan"
      BY <1>2, <1>7, <2>2, <2>4 DEF Inside, NoSeparators, string
    <3> QED  BY <1>1, <1>4, <1>5, <3>1 DEF TokenizeInv, ScanKnown, AllReturned
  <2> QED  BY <2>3, <2>4
<1> QED  BY <1>6, <1>7

\* The loop ends in one of the two forms that know the token.
LEMMA TokenBehind == TokenizeInv /\ Token => StartKnown /\ Behind
BY LengthAssumption
   DEF TokenizeInv, TypeOK, Token, TokenUpTo, ScanKnown, Leading, Inside

LEMMA TokenInv == TokenizeInv /\ Token => TokenizeInv'
<1> SUFFICES ASSUME TokenizeInv, Token PROVE TokenizeInv'
  OBVIOUS
<1> USE DEF Token, TokenUpTo
<1>1. StartKnown /\ Behind
  BY TokenBehind
<1>2. /\ length \in Nat /\ start_position \in 0..length
      /\ first_sep_found \in -1..length /\ last_sep_found \in -1..length
  BY LengthAssumption DEF TokenizeInv, TypeOK
<1>3. first_sep_found \in 0..length /\ last_sep_found \in 0..length
  BY <1>1, <1>2 DEF Behind
<1>4. TypeOK'
  BY <1>2, <1>3 DEF TokenizeInv, TypeOK, string, found
<1>5. ContextBetween'
  BY <1>1, <1>2, <1>3 DEF Behind, AllSeparators, ContextBetween, string
<1>6. ReturnedUpToContext'
  <2>1. Runs' = Runs
    BY RunsSame
  <2>2. tokens' = {r \in Runs : r[1] <= last_sep_found}
    BY <1>1, RunsUpToToken DEF TokenizeInv, ReturnedUpToContext
  <2> QED  BY <2>1, <2>2 DEF ReturnedUpToContext
<1> QED  BY <1>4, <1>5, <1>6 DEF TokenizeInv, ScanKnown, AllReturned

\* false is returned only when there is no run behind context.
LEMMA NoTokenLeft == TokenizeInv /\ NoToken => tokens = Runs
<1> SUFFICES ASSUME TokenizeInv, NoToken, NEW r \in Runs PROVE r[1] <= context
  BY DEF TokenizeInv, ReturnedUpToContext
<1>1. /\ length \in Nat /\ context \in Int
      /\ r[1] \in 0..(length - 1) /\ r[2] \in Int /\ r[1] < r[2]
      /\ NoSeparators(r[1], r[2] - 1)
  BY RunsOf, LengthAssumption DEF TokenizeInv, TypeOK
<1>2. ~separator[r[1]]
  BY <1>1 DEF NoSeparators
<1>3. CASE pc = "call"
  BY <1>1, <1>3 DEF NoToken
<1>4. CASE pc = "scan" /\ position >= length /\ first_sep_found = -1
  <2>1. StartKnown /\ Leading
    BY <1>1, <1>4 DEF TokenizeInv, TypeOK, ScanKnown, Inside, Behind
  <2> QED  BY <1>1, <1>2, <1>4, <2>1
           DEF TokenizeInv, TypeOK, StartKnown, Leading, AllSeparators
<1> QED  BY <1>3, <1>4 DEF NoToken

LEMMA NoTokenInv == TokenizeInv /\ NoToken => TokenizeInv'
<1> SUFFICES ASSUME TokenizeInv, NoToken PROVE TokenizeInv'
  OBVIOUS
<1>1. ReturnedUpToContext' /\ ContextBetween'
  BY ReturnedKept DEF TokenizeInv, NoToken
<1>2. TypeOK'
  BY DEF TokenizeInv, TypeOK, NoToken, string, found
<1>3. AllReturned'
  BY NoTokenLeft, RunsSame DEF AllReturned, NoToken
<1> QED  BY <1>1, <1>2, <1>3 DEF TokenizeInv, ScanKnown, NoToken

LEMMA StutterInv == TokenizeInv /\ UNCHANGED vars => TokenizeInv'
<1> SUFFICES ASSUME TokenizeInv, UNCHANGED vars PROVE TokenizeInv'
  OBVIOUS
<1> USE DEF vars, string, found
<1>1. ReturnedUpToContext' /\ ContextBetween'
  BY ReturnedKept DEF TokenizeInv
<1>2. Runs' = Runs
  BY RunsSame
<1> QED  BY <1>1, <1>2 DEF TokenizeInv, TypeOK, ScanKnown, StartKnown, Leading,
         Inside, Behind, AllSeparators, NoSeparators, AllReturned

LEMMA StepInv == TokenizeInv /\ [Next]_vars => TokenizeInv'
BY CallInv, LeadingSeparatorInv, SeparatorBehindInv, CharacterInv, TokenInv,
   NoTokenInv, StutterInv DEF Next

LEMMA SpecInv == Spec => []TokenizeInv
<1> QED  BY InitInv, StepInv, PTL DEF Spec

-----------------------------------------------------------------------------
\* Positions stay within the string and the end behind it, for strings of every
\* length (string.h:323-370).
THEOREM TypeCorrect == Spec => []TypeOK
<1>1. TokenizeInv => TypeOK
  BY DEF TokenizeInv
<1> QED  BY SpecInv, <1>1, PTL

\* The calls return the runs between separators of any string, each once, from
\* the left, and false when there are no more (string.h:322-370).
THEOREM TokenizeImplementsSplit == Spec => ImplementsSplit
<1>1. Init => Contract!Init
  BY LengthAssumption DEF Init, Contract!Init
<1>2. TokenizeInv /\ Token => Contract!Token
  <2> SUFFICES ASSUME TokenizeInv, Token PROVE Contract!Token
    OBVIOUS
  <2> DEFINE t == <<start_position, first_sep_found>>
  <2>1. StartKnown /\ Behind /\ TypeOK /\ ContextBetween
    BY TokenBehind DEF TokenizeInv
  <2>2. tokens = {r \in Runs : r[1] <= context}
    BY DEF TokenizeInv, ReturnedUpToContext
  <2>3. t \in Runs \ tokens
    BY <2>1, <2>2, TokenIsNextRun, RunsUpToToken
  <2>4. ASSUME NEW q \in Runs \ tokens PROVE t[1] <= q[1]
    <3>1. q[1] \in Int /\ context \in Int /\ ~(q[1] <= context)
      BY <2>1, <2>2, RunsOf, LengthAssumption DEF TypeOK
    <3>2. q[1] >= start_position
      BY <2>1, <3>1, TokenIsNextRun
    <3> QED  BY <2>1, <3>1, <3>2, LengthAssumption DEF TypeOK
  <2>5. tokens' = tokens \cup {t} /\ pc # "end" /\ pc' # "end"
    BY DEF Token, TokenUpTo
  <2>6. UNCHANGED <<length, separator>>
    BY DEF Token, TokenUpTo, string
  <2> HIDE DEF t
  <2> QED  BY <2>3, <2>4, <2>5, <2>6 DEF Contract!Token, Runs
<1>3. TokenizeInv /\ NoToken => Contract!NoToken
  BY NoTokenLeft DEF NoToken, Contract!NoToken, Runs, string
<1>4. TokenizeInv /\ [Next]_vars => [Contract!Token \/ Contract!NoToken]_(Contract!vars)
  <2> SUFFICES ASSUME TokenizeInv, [Next]_vars
               PROVE  [Contract!Token \/ Contract!NoToken]_(Contract!vars)
    OBVIOUS
  <2>1. CASE Call \/ LeadingSeparator \/ SeparatorBehind \/ Character
    BY <2>1 DEF Call, LeadingSeparator, SeparatorBehind, Character, CharacterOr,
                Contract!vars, string
  <2>2. CASE UNCHANGED vars
    BY <2>2 DEF vars, string, Contract!vars
  <2> QED  BY <1>2, <1>3, <2>1, <2>2 DEF Next
<1> QED  BY <1>1, <1>4, SpecInv, PTL DEF Spec, ImplementsSplit, Contract!Spec

-----------------------------------------------------------------------------
(* The calls and their loops end.                                          *)

CallCost == length + 3

ScanLeft ==
    IF pc = "call" THEN CallCost ELSE IF pc = "scan" THEN length - position + 2
    ELSE IF pc = "found" THEN 1 ELSE 0

StepsLeft == (length - context) * CallCost + ScanLeft

LEMMA StepsFacts ==
    ASSUME TypeOK
    PROVE  /\ length \in Nat /\ context \in Int /\ context >= -1 /\ context <= length
           /\ position \in 0..length
           /\ CallCost \in Nat /\ ScanLeft \in Nat
           /\ (length - context) * CallCost \in Nat
<1>1. /\ length \in Nat /\ context \in Int /\ context >= -1 /\ context <= length
      /\ position \in 0..length
  BY LengthAssumption DEF TypeOK
<1>2. CallCost \in Nat
  BY <1>1 DEF CallCost
<1>3. ScanLeft \in Nat
  BY <1>1, <1>2 DEF ScanLeft
<1>4. (length - context) * CallCost \in Nat
  <2>1. length - context \in Nat
    BY <1>1
  <2> HIDE DEF CallCost
  <2> QED  BY <2>1, <1>2
<1> QED  BY <1>1, <1>2, <1>3, <1>4

LEMMA LessOfSums ==
    ASSUME NEW r \in Int, NEW x \in Int, NEW y \in Int, x < y
    PROVE  r + x < r + y
  OBVIOUS

LEMMA StepCounts ==
    ASSUME TokenizeInv, Next
    PROVE  StepsLeft' < StepsLeft
<1>1. /\ length \in Nat /\ context \in Int /\ context >= -1 /\ context <= length
      /\ position \in 0..length
      /\ CallCost \in Nat /\ ScanLeft \in Nat /\ (length - context) * CallCost \in Nat
  BY StepsFacts DEF TokenizeInv
<1>2. length' = length /\ CallCost' = CallCost
  BY DEF Next, Call, LeadingSeparator, SeparatorBehind, Character, CharacterOr, Token,
     TokenUpTo, NoToken, string, CallCost
<1>3. ASSUME context' = context, ScanLeft' < ScanLeft, ScanLeft' \in Int
      PROVE  StepsLeft' < StepsLeft
  <2>1. StepsLeft' = (length - context) * CallCost + ScanLeft'
    BY <1>2, <1>3 DEF StepsLeft
  <2>2. (length - context) * CallCost \in Int /\ ScanLeft \in Int
    BY <1>1
  <2> QED  BY <2>1, <2>2, <1>3, LessOfSums DEF StepsLeft
<1>4. CASE Call
  <2>1. /\ context' = context /\ ScanLeft = length + 3
        /\ ScanLeft' = length - (context + 1) + 2
    BY <1>2, <1>4 DEF Call, ScanLeft, CallCost
  <2> QED  BY <2>1, <1>1, <1>3
<1>5. CASE LeadingSeparator \/ SeparatorBehind \/ Character
  <2>1. /\ context' = context /\ position < length /\ ScanLeft = length - position + 2
        /\ \/ ScanLeft' = length - (position + 1) + 2
           \/ ScanLeft' = 1
    BY <1>2, <1>5 DEF LeadingSeparator, SeparatorBehind, Character, CharacterOr, ScanLeft
  <2> QED  BY <2>1, <1>1, <1>3
\* The next call starts behind this one.
<1>6. CASE Token
  <2>1. /\ context' = last_sep_found /\ ScanLeft' = CallCost /\ ScanLeft > 0
        /\ last_sep_found \in Int
    BY <1>1, <1>2, <1>6 DEF Token, TokenUpTo, ScanLeft, TokenizeInv, TypeOK
  <2>2. last_sep_found >= context + 1
    BY <1>1, <1>6, TokenBehind, LengthAssumption
       DEF StartKnown, Behind, TokenizeInv, TypeOK
  <2>3. last_sep_found <= length
    BY <1>1 DEF TokenizeInv, TypeOK
  <2>4. StepsLeft' = (length - last_sep_found) * CallCost + CallCost
    BY <1>2, <2>1 DEF StepsLeft
  <2> DEFINE calls == length - last_sep_found
             more == last_sep_found - context
  <2>5. calls \in Nat /\ more \in Nat /\ more >= 1 /\ length - context = calls + more
    BY <1>1, <2>1, <2>2, <2>3
  <2> HIDE DEF calls, more
  <2>6. (calls + more) * CallCost = calls * CallCost + more * CallCost
    BY <2>5, <1>1
  <2>7. more * CallCost >= CallCost
    BY <2>5, <1>1
  <2>8. StepsLeft = calls * CallCost + more * CallCost + ScanLeft
    BY <2>5, <2>6 DEF StepsLeft
  <2>9. StepsLeft' = calls * CallCost + CallCost
    BY <2>4 DEF calls
  <2>10. calls * CallCost \in Nat /\ more * CallCost \in Nat
    BY <2>5, <1>1
  <2> QED  BY <2>1, <2>7, <2>8, <2>9, <2>10, <1>1
<1>7. CASE NoToken
  <2>1. context' = context /\ ScanLeft' = 0 /\ ScanLeft > 0
    BY <1>1, <1>7 DEF NoToken, ScanLeft, CallCost
  <2> QED  BY <2>1, <1>1, <1>3
<1> QED  BY <1>4, <1>5, <1>6, <1>7 DEF Next

\* Calling until false comes to an end, whatever the string: what is left to read
\* is a natural number that every step makes smaller.  A call that returns a token
\* leaves context further on than it found it (string.h:323-370).
THEOREM TokensCountDown ==
    Spec => [](StepsLeft \in Nat) /\ [][StepsLeft' < StepsLeft]_vars
<1>1. TokenizeInv => StepsLeft \in Nat
  BY StepsFacts DEF StepsLeft, TokenizeInv
<1>2. TokenizeInv /\ [Next]_vars => [StepsLeft' < StepsLeft]_vars
  BY StepCounts
<1> QED  BY <1>1, <1>2, SpecInv, PTL DEF Spec
=============================================================================
